CONSTANTS
    Operations <- MCOperations
    Libelles <- MCLibelles
    Montant <- MCMontant
    Date <- MCDate
    SansDate <- MCSansDate
SPECIFICATION SpecRecurrences
INVARIANT MarquesJustes
