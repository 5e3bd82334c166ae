SPECIFICATION Spec
CONSTANTS
    Catalogue <- MCCatalogue
    FirstBank <- MCFirstBank
INVARIANTS
    BurstsApart
    RowRestored
    RefreshAlone
    NoStepTwice
    BooksBalance
CHECK_DEADLOCK FALSE
