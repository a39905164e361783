SPECIFICATION SpecSoldes

CONSTANTS
    o1 = o1
    o2 = o2
    Operations = {o1, o2}
    EntreeTardive = FALSE
    Fenetre = 1
    MaxJour = 2
    MaxLignes = 4
    Reponses <- MCReponses
    Datees = TRUE

SYMMETRY Symetrie

INVARIANTS
    RienDePerdu
    TransitionAppliquee
    SoldeExplique
    SoldeAJour

PROPERTY ComptabiliseeDefinitive
