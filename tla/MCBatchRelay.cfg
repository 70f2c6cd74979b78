\* One relayer, three batches of two tokens, one valset update and one
\* failed RPC: enough for a batch to be created, confirmed, sent, reverted
\* against a stale valset and sent again, under the fairness of FairSpec.
CONSTANTS
    r1 = r1
    r2 = r2
    X = X
    Y = Y
    Relayers = {r1}
    Tokens = {X, Y}
    NumBatches = 3
    BatchToken <- MCBatchToken
    NeverSigned = {}
    MaxValsetUpdates = 1
    MaxFaults = 1
SPECIFICATION FairSpec
INVARIANTS
    TypeOK
    NoUnderSignedSubmission
PROPERTIES
    ConfirmedBatchesRelayed
