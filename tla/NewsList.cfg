CONSTANTS
    ItemCount = 3
    MaxArticles = 4
    Shapes <- SomeShapes
    StripCards = 3
    Steps = 3
    Overscroll = 2
    Heights = {180, 245, 380, 381, 459}
    AssertsOn = TRUE
    Null = Null
SPECIFICATION Spec
INVARIANTS TypeOK RowsAreShowable StripDrawnWithRows CardsInOrder FrontCardInView
\* One response: a list built to its end with no row to tap stays as it is.
CHECK_DEADLOCK FALSE
