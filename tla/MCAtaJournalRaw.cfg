SPECIFICATION Spec
CONSTANTS
    Sectors = {s1, s2, s3}
    Data = {a, b}
    MaxEntries = 2
    SequenceSpace = 4
    Primary = Primary
    Mirror = Mirror
    Torn = Torn
    MaxTorn = 0
    Environments = {{"maintenance", "faults"}}
INVARIANT UndoSetKept
