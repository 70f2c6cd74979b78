\* Two orchestrators, each running valset and batch passes on its own key,
\* racing for one batch and one valset, with one failed RPC: safety only.
CONSTANTS
    r1 = r1
    r2 = r2
    X = X
    Y = Y
    Relayers = {r1, r2}
    Tokens = {X, Y}
    NumBatches = 1
    BatchToken <- MCBatchToken1
    NeverSigned = {}
    NumValsets = 1
    MaxFaults = 1
SPECIFICATION Spec
INVARIANTS
    OkMeansAdvanced
PROPERTIES
    ImplementsBridge
