SPECIFICATION SpecObserve

CONSTANTS
    Transactions = {1, 2, 3}
    Presentes = {1, 2}
    Donnees <- DonneesDouteuses
    Annonces <- AnnoncesEnDeuxTemps
    r1 = r1
    Regles = {r1}
    RegleDe <- UneRegle
    courses = courses
    salaire = salaire
    virements = virements
    Categories = {courses, salaire, virements}
    Systeme = {salaire, virements}
    Salaires = {salaire}
    VirementsInternes = virements
    q1 = q1
    q2 = q2
    Requetes = {q1, q2}
    Limite = 3
    Sans = Sans

SYMMETRY Symetrie

INVARIANTS
    SourceCoherente
    AucuneOubliee
    ReconciliationComplete

PROPERTIES
    ChoixManuelConserve
    Idempotente
