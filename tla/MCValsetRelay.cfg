\* Two competing relayers, two valsets after genesis, one failed RPC or
\* wait timeout.
CONSTANTS
    r1 = r1
    r2 = r2
    Relayers <- MCRelayers
    NumValsets = 2
    MaxFaults = 1
SPECIFICATION FairSpec
INVARIANTS
    TypeOK
    OkMeansAdvanced
PROPERTIES
    ValsetsRelayed
