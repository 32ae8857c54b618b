SPECIFICATION FairSpec
CONSTANTS
    NumDomains = 2
    Budget <- MCBudget
    Ops <- MCOps
    Reports <- MCReports
    Crashing = {1}
    Moved = {1}
    Outcomes <- MCOutcomes
INVARIANTS
    TypeOK
    DriverOnRecord
    RestartedIsTested
    ReportCopyCurrent
PROPERTY
    FailuresHandled
