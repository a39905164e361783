SPECIFICATION Spec

CONSTANTS
    Entrees <- Toutes
    Dates = {0, 4, 5}

CHECK_DEADLOCK FALSE

INVARIANTS
    AppariementSur
    FinDetecter
    CentimesJustes
    ClefStable
    RegleDeSaTransaction
