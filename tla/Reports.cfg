\* Machines come, change and go while a client walks the pages of the list, or asks for an
\* estimate.
CONSTANTS
    Machines = {1, 2, 3}
    MaxTime = 1
    MaxEdits = 2
    Statuses = {"active", "retired"}
    Plans = {"basic", "predict"}
    Price <- MCPrice
    Fee <- MCFee
    Offered = {"basic"}
    Periods <- MCPeriods
    DefaultPerPage = 2
    MaxPerPage = 3
    PerPage = {0, 9, None}
    None = None
SPECIFICATION Spec
INVARIANTS
    TypeOK
    WalkMissesFew
    WalkRepeatsFew
    EstimateAddsUp
