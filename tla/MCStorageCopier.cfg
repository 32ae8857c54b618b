SPECIFICATION Spec
CONSTANTS
    Capacity = 2
    BulkCapacity = 1
    MaxPerClient = 1
    MaxGeneration = 1
    Clients = {c1, c2}
    Services = {v1}
    Resources = {r1}
    MaxKills = 2
    Kinds = {"mutate", "mutate_input"}
    None = None
SYMMETRY Symmetry
INVARIANT HeldBackForCopier
