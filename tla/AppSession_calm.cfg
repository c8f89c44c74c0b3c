\* One call at a time on a page, in a debug build.
CONSTANTS
    u1 = u1
    u2 = u2
    Users <- TwoUsers
    NoUser = NoUser
    AssertsOn = TRUE
    CallsPerPage = 1
    MaxRoutes = 6
    MaxCalls = 4
SPECIFICATION FairSpec
INVARIANTS HomeHasUser QuiescentAgreement
PROPERTIES SameUserAfterToken ImplementsUserFlow
