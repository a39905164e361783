SPECIFICATION SpecToursEquitable

CONSTANTS
    c1 = c1
    c2 = c2
    k1 = k1
    p1 = p1
    Comptes = {c1, c2}
    Consents = {k1}
    ConsentDe <- UnConsent
    Proprietaires = {p1}
    ProprietaireDe <- UnProprietaire
    Personne = Personne
    Quota = 3
    Intervalle = 1
    Validite = 3
    Marge = 1
    DureeJour = 3
    Horizon = 2
    MaxEcritures = 1
    MaxArrets = 1

CHECK_DEADLOCK FALSE

INVARIANTS
    AuPlusUnAppelPerime
    IssueAnnoncee
    TourRespecte

PROPERTY SyncTermine
