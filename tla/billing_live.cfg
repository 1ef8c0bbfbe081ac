CONSTANTS
  MaxInvoices = 1
  t1 = t1  w1 = w1  w2 = w2
  Txs = {t1}
  Users = {u1}  Plans = {p1}
  Payers = {w1, w2}
  NoTx = NoTx  NoPayer = NoPayer  NoUser = NoUser  NoPlan = NoPlan
  AmountOf <- OneTransfer
  SenderOf <- OneSender
  Verifiers = {v1}
  PayerChoices = {w1}
  MayDeactivate = {p1}
  ScanChunk = 1  Lookback = 0
  MaxBlock = 1  MaxReorgs = 1  MaxFaults = 1
SPECIFICATION FairSpec
PROPERTIES ImplementsLedger MonitorSettles LapsedInvoiceCloses
