CONSTANTS
    Uid = {ada, bob}
    None = None
    MaxUsers = 2
    MaxTokens = 4
    MaxFetches = 1
    MaxPending = 1
SPECIFICATION Spec
INVARIANTS TypeOK SignedInIsSaved SignedOutIsForgotten ListenersCatchUp RefreshNeverLost
PROPERTIES NoticeOfEveryChange
SYMMETRY Accounts
