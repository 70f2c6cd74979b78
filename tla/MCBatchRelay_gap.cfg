\* One batch that never gathers its confirmations, ahead of a later one
\* of another token, with no failures: the later batch is sent at nonce
\* base + 1 behind a nonce nothing ever fills.
CONSTANTS
    r1 = r1
    r2 = r2
    X = X
    Y = Y
    Relayers = {r1}
    Tokens = {X, Y}
    NumBatches = 2
    BatchToken <- MCBatchToken2
    NeverSigned = {1}
    MaxValsetUpdates = 0
    MaxFaults = 0
SPECIFICATION FairSpec
PROPERTY ConfirmedBatchesRelayed
