SPECIFICATION Spec

CONSTANTS
    k1 = k1
    k2 = k2
    p1 = p1
    p2 = p2
    x1 = x1
    x2 = x2
    r1 = r1
    r2 = r2
    Aucun = Aucun
    Consents = {k1, k2}
    Proprietaires = {p1, p2}
    ProprietaireDe <- DeuxProprietaires
    Vises = {k1, k2}
    Anterieurs = {}
    Effacables = {}
    Externes = {x1}
    Requetes = {r1, r2}

SYMMETRY Symetrie

INVARIANTS
    UnSeulProprietaire
