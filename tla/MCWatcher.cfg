\* Two workers, two deposits of which one never leaves the batch,
\* webhooks that agree with the chain, one crash.
SPECIFICATION FairSpec
CONSTANTS
  Worker = {w1, w2}
  Tx <- Deposits
  User <- Users
  CreditedUser = "client"
  ChainAmount <- Amounts
  WebhookBody <- TrueBody
  Droppable <- DustOnly
  ScanLimit = 2
  BatchLimit = 2
  MaxCrashes = 1
INVARIANT TypeOK
INVARIANT EventsMatchLedger
INVARIANT HookOncePerCredit
 
INVARIANT PendingIsOpenDeposits
PROPERTY FinalDepositIsCredited
