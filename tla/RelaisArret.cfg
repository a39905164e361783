SPECIFICATION SpecEquitable

CONSTANTS
    Capacite = 2
    Longueurs = {2, 4}
    MaxSyncs = 2
    MaxCoupures = 1

CHECK_DEADLOCK FALSE

INVARIANT
    RelaisFidele

PROPERTIES
    ArretTermine
    SyncPubliee
