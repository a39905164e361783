SPECIFICATION Spec

CONSTANTS
    c1 = c1
    c2 = c2
    k1 = k1
    p1 = p1
    Comptes = {c1}
    Consents = {k1}
    ConsentDe <- UnConsent
    Proprietaires = {p1}
    ProprietaireDe <- UnProprietaire
    Personne = Personne
    Quota = 2
    Intervalle = 2
    Validite = 9
    Marge = 2
    DureeJour = 5
    Horizon = 9
    MaxEcritures = 1
    MaxArrets = 1

CHECK_DEADLOCK FALSE

INVARIANTS
    TypeOK
    QuotaParJour
    QuotaCalendaire

PROPERTIES
    TientLaPromesse
    CreneauxEspaces
