\* Buttons are pressed again while a call is in flight, in a release build.
CONSTANTS
    u1 = u1
    u2 = u2
    Users <- TwoUsers
    NoUser = NoUser
    AssertsOn = FALSE
    CallsPerPage = 2
    MaxRoutes = 6
    MaxCalls = 4
SYMMETRY SwapUsers
SPECIFICATION Spec
INVARIANTS TypeOK NoWayBack SignedUpMeansSignedIn
PROPERTIES SettledLoginKeepsOwnCalls
