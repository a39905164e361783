SPECIFICATION SpecEnveloppes
CONSTANTS
    courant = courant
    livret = livret
    salaire = salaire
    courses = courses
    loisirs = loisirs
    Aucune = Aucune
    Operations <- OpsVirement
    Annoncables <- AnnoncesVirement
    Anterieures <- AvecVirement
    Comptes <- DeuxComptes
    Ouverture = 10
    Categories <- MCCategories
    Revenus <- MCRevenus
    Personnelles <- MCPersonnelles
    Jours <- Le28
    MoisDemandes <- LeMois
    MontantsPrevus = {}
    Ecrans = {"forecast"}
    MaxEcritures = 0
    vacances = vacances
    travaux = travaux
    Budgets = {vacances}
    Affectables = {}
INVARIANTS
    TresorerieExacte
