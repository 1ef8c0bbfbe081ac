CONSTANTS
  MaxInvoices = 2
  t1 = t1  w1 = w1  w2 = w2
  Txs = {t1}
  Users = {u1}  Plans = {p1}
  Payers = {w1, w2}
  NoTx = NoTx  NoPayer = NoPayer  NoUser = NoUser  NoPlan = NoPlan
  AmountOf <- OneTransfer
  SenderOf <- OneSender
  Verifiers = {v1}
  PayerChoices = {w1, w2}
  MayDeactivate = {p1}
  ScanChunk = 1  Lookback = 2
  MaxBlock = 2  MaxReorgs = 1  MaxFaults = 0
SPECIFICATION Spec
INVARIANTS CreditsAreSound SettlementBacked PaidIffSettled OneOpenInvoice NoPaymentSkipped
