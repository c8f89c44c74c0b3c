\* A debug build, two calls of one login page under way.
CONSTANTS
    u1 = u1
    u2 = u2
    Users <- TwoUsers
    NoUser = NoUser
    AssertsOn = TRUE
    CallsPerPage = 2
    MaxRoutes = 3
    MaxCalls = 2
SPECIFICATION FairSpec
PROPERTIES SameUserAfterToken
