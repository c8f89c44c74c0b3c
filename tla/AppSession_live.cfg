\* Overlapping calls with the fairness of the platform.
CONSTANTS
    u1 = u1
    u2 = u2
    Users = {u1}
    NoUser = NoUser
    AssertsOn = TRUE
    CallsPerPage = 2
    MaxRoutes = 4
    MaxCalls = 3
SPECIFICATION FairSpec
PROPERTIES ReplacedPagesDisposed CallsAnswered AcceptedLeadsHome
