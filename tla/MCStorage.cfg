SPECIFICATION Spec
CONSTANTS
    Capacity = 2
    BulkCapacity = 1
    MaxPerClient = 1
    MaxGeneration = 3
    Clients = {c1, c2}
    Services = {v1, v2}
    Resources = {r1}
    MaxKills = 2
    Kinds = {"plain", "bulk_read", "mutate_input"}
    None = None
SYMMETRY Symmetry
INVARIANTS
    TypeOK
    BufferHeldByCopier
    CollectSnapshotValid
    BuffersOwned
    ClaimsServed
    EffectsAccounted
