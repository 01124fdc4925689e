------------------------------ MODULE MCSystem -------------------------------
(***************************************************************************)
(* Small instances of the whole process and its reconciliation for TLC.    *)
(***************************************************************************)
EXTENDS Recon

Pay(provider) ==
  [provider |-> provider, amount |-> 1, source |-> 1, cross |-> FALSE, paired |-> FALSE]
Unpaired ==
  [provider |-> "polygon-usdt", amount |-> 1, source |-> 1, cross |-> TRUE, paired |-> FALSE]

\* The first route pays out all that a deposit of two cents credits; the second
\* stalls, and when a leg has failed its retry pays one cent and then trips
\* over a leg without its conversion accounts.
Routes == {1, 2}
Watched == [r \in Routes |-> "client"]
Actions == << << Pay("acmepay"), Pay("polygon-usdt") >>, << Pay("acmepay"), Unpaired >> >>

\* One route that pays a cent by the bank, which counts its references.
OneRoute == {1}
OneWatched == [r \in OneRoute |-> "client"]
BankActions == << << Pay("legacybank") >> >>

\* No fee is taken; a webhook says what the chain says.
TwoCents == [t \in Trigger |-> 20000]
CreditTwo == [t \in Trigger |-> [user |-> "client", amount |-> 2]]
TrueBody == [t \in Trigger |-> {[user |-> "client", amount |-> ChainAmount[t]]}]
=============================================================================
