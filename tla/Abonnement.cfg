SPECIFICATION Spec

CONSTANTS
    Proprietaires = {p1, p2}
    Illisible = Illisible
    Aucun = Aucun
    Actifs = {a1}
    Nouveau = Nouveau
    MaxMessages = 2

INVARIANT ResteExplique

PROPERTY EffacementAboutit
