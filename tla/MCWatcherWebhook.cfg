\* A webhook may name another user or another amount than the chain shows.
SPECIFICATION Spec
CONSTANTS
  Worker = {w1}
  Tx <- Deposits
  User <- Users
  CreditedUser = "client"
  ChainAmount <- Amounts
  WebhookBody <- AnyBody
  Droppable <- DustOnly
  ScanLimit = 2
  BatchLimit = 2
  MaxCrashes = 0
INVARIANT PendingIsOpenDeposits
