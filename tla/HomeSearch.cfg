CONSTANTS
    Texts = {t1, t2, t3}
    NoText = NoText
    MaxEntries = 6
SPECIFICATION Spec
INVARIANTS TypeOK DrawerIsNewest NoStaleText
\* The page may have been left.
CHECK_DEADLOCK FALSE
