\* One orchestrator running valset and batch passes on one key, two
\* batches of two tokens, one valset after genesis and one failed RPC.
CONSTANTS
    r1 = r1
    r2 = r2
    X = X
    Y = Y
    Relayers = {r1}
    Tokens = {X, Y}
    NumBatches = 2
    BatchToken <- MCBatchToken
    NeverSigned = {}
    NumValsets = 1
    MaxFaults = 1
SPECIFICATION FairSpec
INVARIANTS
    TypeOK
PROPERTIES
    ValsetsRelayed
    ConfirmedBatchesRelayed
    ImplementsBridge
