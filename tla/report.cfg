SPECIFICATION UnifiedSpec
CONSTANTS
    Zero = Zero
    Dead = Dead
    a = a
    b = b
    p = p
    Pairs = {p}
    Wallets = {a, b}
    MinHoldersTop10 = 1
    MinHoldersTop20 = 2
    MinBuyers = 1
    MinTransfers = 2
    TopSmall = 1
    TopLarge = 2
    FanoutWallets = 2
    FanoutBlocks = 3
    Transfers <- MCTransfers
    Observations <- MCObservations
    Requests <- MCRequests
    StaticRuns <- MCStaticRuns
    Window = 1
    MaxBlocks = 3
    MaxReorgs = 1
INVARIANTS
    NoVerdictFromOneEngine
    SafeScanIsOneBlock
    NoCodeIsNeverLow
    HoldingsNotOverstated
