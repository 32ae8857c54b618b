SPECIFICATION FairSpec
CONSTANTS
    Sectors = {s1, s2, s3}
    Data = {a, b}
    MaxEntries = 2
    SequenceSpace = 4
    Primary = Primary
    Mirror = Mirror
    Torn = Torn
    MaxTorn = 1
    Environments = {{"maintenance"}, {"faults"}}
INVARIANTS
    TypeOK
    AlwaysRecoverable
    ServesDurable
PROPERTIES
    AtomicTransactions
    RecoveryCompletes
