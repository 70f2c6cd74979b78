\* One relayer and one batch; one failed get_tx_batch_nonce is enough.
CONSTANTS
    r1 = r1
    r2 = r2
    X = X
    Y = Y
    Relayers = {r1}
    Tokens = {X, Y}
    NumBatches = 1
    BatchToken <- MCBatchToken1
    NeverSigned = {}
    MaxValsetUpdates = 0
    MaxFaults = 1
SPECIFICATION Spec
INVARIANT NoPanic
