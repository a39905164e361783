SPECIFICATION SpecEnveloppes
CONSTANTS
    courant = courant
    livret = livret
    salaire = salaire
    courses = courses
    loisirs = loisirs
    Aucune = Aucune
    Operations <- AvecCarte
    Annoncables <- AnnoncesCarte
    Anterieures <- AvecCarte
    Comptes <- UnCompte
    Ouverture = 10
    Categories <- MCCategories
    Revenus <- MCRevenus
    Personnelles <- MCPersonnelles
    Jours <- Le1Ou28
    MoisDemandes <- LeMois
    MontantsPrevus = {4}
    Ecrans = {"forecast", "remaining", "expenses"}
    MaxEcritures = 2
    vacances = vacances
    travaux = travaux
    Budgets = {vacances, travaux}
    Affectables <- MCAffectables
SYMMETRY Symetrie
INVARIANTS
    UneSeuleFenetre
    DepensesEntieres
    EnveloppeRecoupee
