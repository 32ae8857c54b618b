SPECIFICATION FairSpec
CONSTANTS
    NumDomains = 1
    Budget <- OneBudget
    Ops <- OneOps
    Reports <- OneReports
    Crashing = {1}
    Moved = {}
    Outcomes <- OneOutcomes
INVARIANT
    CrashRestarts
