------------------------- MODULE CategorisationProofs -------------------------
(***************************************************************************)
(* For any number of transactions, rules, categories and requests, whatever *)
(* the interleaving and the failures: the three columns of a row agree, a   *)
(* choice made by hand is overwritten by its owner alone, no row escapes a   *)
(* rule unless something failed, and an undisturbed reconciliation is        *)
(* complete and idempotent.                                                 *)
(***************************************************************************)
EXTENDS Reconciliation, FiniteSetTheorems, TLAPS

(* The rules and the category a request holds while others run. *)
DemandeCoherente(q) ==
    /\ req[q].etape \in {"candidats", "lot"} => req[q].regle \in Range(regles)
    /\ Range(req[q].file) \subseteq Range(regles)
    /\ req[q].etape \in {"credits", "defaut", "ranger"} => req[q].categorie \in Categories
    /\ req[q].etape = "ranger" => \E t \in Transactions : req[q].cibles = {t}

InsertionCoherente ==
    /\ insertion.etape # "repos" => insertion.tx \in Transactions
    /\ insertion.etape = "appliquer" => insertion.regle \in Range(regles)

LigneCoherente(l) ==
    /\ l.source = "none" <=> l.categorie = Sans
    /\ l.regle # Sans => /\ l.source = "rule"
                         /\ l.regle \in EnVigueur
                         /\ l.categorie = RegleDe[l.regle].categorie

Invariant ==
    /\ TypeOK
    /\ SourceCoherente
    /\ \A q \in Requetes : DemandeCoherente(q)
    /\ InsertionCoherente

-------------------------------------------------------------------------------
(* What each way of writing a row makes of it. *)
LEMMA LigneParRegle ==
    ASSUME NEW l \in Lignes, NEW r \in EnVigueur, regles \in Seq(Regles)
    PROVE  LET m == ParRegle(RegleDe[r].categorie, r, l)
           IN  m \in Lignes /\ LigneCoherente(m)
<1>1. r \in Regles
  BY DEF EnVigueur, Range
<1>2. RegleDe[r].categorie \in Categories /\ RegleDe[r].categorie # Sans /\ r # Sans
  BY <1>1, ConstantesCategorisation
<1> QED
  BY <1>1, <1>2 DEF ParRegle, Lignes, LigneCoherente, Sources

LEMMA LigneParDefaut ==
    ASSUME NEW l \in Lignes, NEW c \in Categories
    PROVE  LET m == ParRegle(c, Sans, l) IN m \in Lignes /\ LigneCoherente(m)
BY ConstantesCategorisation DEF ParRegle, Lignes, LigneCoherente, Sources

LEMMA LigneMarquee ==
    ASSUME NEW l \in Lignes, LigneCoherente(l)
    PROVE  Marquee(l) \in Lignes /\ LigneCoherente(Marquee(l))
BY DEF Marquee, Lignes, LigneCoherente, Sources

LEMMA LigneRangee ==
    ASSUME NEW l \in Lignes, NEW c \in Categories
    PROVE  LET m == [l EXCEPT !.categorie = c, !.source = "manual", !.regle = Sans,
                              !.interne = (c = VirementsInternes)]
           IN  m \in Lignes /\ LigneCoherente(m)
BY ConstantesCategorisation DEF Lignes, LigneCoherente, Sources

(* A coherent table is one whose rows are coherent. *)
LEMMA TableCoherente ==
    ASSUME TypeOK
    PROVE  SourceCoherente <=> \A t \in Transactions : LigneCoherente(lignes[t])
BY DEF SourceCoherente, LigneCoherente

-------------------------------------------------------------------------------
(* The three tables and the requests, apart. *)
TypesTables ==
    /\ lignes \in [Transactions -> Lignes]
    /\ categories \in [Categories -> {"aVenir", "existe", "supprimee"}]
    /\ regles \in Seq(Regles) /\ IsInjective(regles)

TypesTaches ==
    /\ insertion \in [etape : {"repos", "regles", "appliquer"},
                      tx : Transactions \cup {Sans}, regle : Regles \cup {Sans}]
    /\ req \in [Requetes -> Demandes]
    /\ incident \in BOOLEAN

TablesSaines == TypesTables /\ \A t \in Transactions : LigneCoherente(lignes[t])

TachesSaines ==
    /\ TypesTaches
    /\ \A q \in Requetes : DemandeCoherente(q)
    /\ InsertionCoherente

LEMMA InvariantEnDeux == Invariant <=> TablesSaines /\ TachesSaines
BY TableCoherente DEF Invariant, TablesSaines, TachesSaines, TypesTables, TypesTaches, TypeOK

(* A step that writes no table leaves them sane. *)
LEMMA TablesIntactes ==
    ASSUME TablesSaines, UNCHANGED <<lignes, categories, regles>>
    PROVE  TablesSaines'
BY DEF TablesSaines, TypesTables, LigneCoherente, EnVigueur, Existe

(* A step that writes rows into coherent rows leaves the tables sane. *)
LEMMA LignesEcrites ==
    ASSUME TablesSaines,
           UNCHANGED <<categories, regles>>,
           lignes' \in [Transactions -> Lignes],
           \A t \in Transactions : LigneCoherente(lignes'[t])
    PROVE  TablesSaines'
BY DEF TablesSaines, TypesTables, LigneCoherente, EnVigueur, Existe

(* A request moves on, the others stay where they are. *)
LEMMA DemandeSuivante ==
    ASSUME TachesSaines, NEW q \in Requetes, NEW d \in Demandes,
           req' = [req EXCEPT ![q] = d],
           d.etape \in {"candidats", "lot"} => d.regle \in Range(regles'),
           Range(d.file) \subseteq Range(regles'),
           d.etape \in {"credits", "defaut", "ranger"} => d.categorie \in Categories,
           d.etape = "ranger" => \E t \in Transactions : d.cibles = {t},
           Range(regles) \subseteq Range(regles'),
           UNCHANGED insertion,
           incident' \in BOOLEAN
    PROVE  TachesSaines'
<1>1. TypesTaches'
  BY DEF TachesSaines, TypesTaches
<1>2. InsertionCoherente'
  BY DEF TachesSaines, InsertionCoherente
<1>3. ASSUME NEW p \in Requetes
      PROVE  DemandeCoherente(p)'
  <2>1. CASE p = q
    BY <2>1 DEF TachesSaines, TypesTaches, DemandeCoherente
  <2>2. CASE p # q
    <3>1. req'[p] = req[p]
      BY <2>2 DEF TachesSaines, TypesTaches
    <3>2. DemandeCoherente(p)
      BY DEF TachesSaines
    <3> QED
      BY <3>1, <3>2 DEF DemandeCoherente
  <2> QED
    BY <2>1, <2>2
<1> QED
  BY <1>1, <1>2, <1>3 DEF TachesSaines

(* The worker moves on, the requests stay where they are. *)
LEMMA InsertionSuivante ==
    ASSUME TachesSaines,
           NEW i \in [etape : {"repos", "regles", "appliquer"},
                      tx : Transactions \cup {Sans}, regle : Regles \cup {Sans}],
           insertion' = i,
           i.etape # "repos" => i.tx \in Transactions,
           i.etape = "appliquer" => i.regle \in Range(regles),
           UNCHANGED <<regles, req>>,
           incident' \in BOOLEAN
    PROVE  TachesSaines'
<1>1. \A q \in Requetes : DemandeCoherente(q)'
  BY DEF TachesSaines, DemandeCoherente
<1> QED
  BY <1>1 DEF TachesSaines, TypesTaches, InsertionCoherente

(* A worker that rests holds nothing. *)
LEMMA FinInsertion ==
    ASSUME TachesSaines, insertion' = Repos, UNCHANGED <<regles, req>>, incident' \in BOOLEAN
    PROVE  TachesSaines'
<1>1. Repos \in [etape : {"repos", "regles", "appliquer"},
                 tx : Transactions \cup {Sans}, regle : Regles \cup {Sans}]
  BY DEF Repos
<1>2. Repos.etape = "repos"
  BY DEF Repos
<1> QED
  BY <1>1, <1>2, InsertionSuivante

LEMMA LibreSaine == Libre \in Demandes /\ Libre.file = <<>> /\ Range(Libre.file) = {}
BY DEF Libre, Demandes, Etapes, Range

(* A request that ends holds nothing. *)
LEMMA FinDemande ==
    ASSUME TachesSaines, NEW q \in Requetes, Terminer(q),
           Range(regles) \subseteq Range(regles'), UNCHANGED insertion, incident' \in BOOLEAN
    PROVE  TachesSaines'
<1>1. Libre \in Demandes /\ Range(Libre.file) = {}
  BY DEF Libre, Demandes, Etapes, Range
<1> QED
  BY <1>1, DemandeSuivante DEF Terminer, Libre

(* The next rule of the file, the credits, or the answer. *)
LEMMA DemandeSuite ==
    ASSUME TachesSaines, NEW q \in Requetes, Suite(q), UNCHANGED <<regles, insertion>>,
           incident' \in BOOLEAN
    PROVE  TachesSaines'
<1>0. req[q] \in Demandes /\ req[q].file \in Seq(Regles) /\ DemandeCoherente(q)
  BY DEF TachesSaines, TypesTaches, Demandes
<1>1. CASE req[q].file # <<>>
  <2> DEFINE d == [req[q] EXCEPT !.etape = "candidats", !.regle = Head(req[q].file),
                                 !.file = Tail(req[q].file), !.cibles = {}]
  <2>1. /\ Head(req[q].file) \in Range(req[q].file)
        /\ Tail(req[q].file) \in Seq(Regles)
        /\ Range(Tail(req[q].file)) \subseteq Range(req[q].file)
    BY <1>0, <1>1 DEF Range
  <2>2. Head(req[q].file) \in Regles
    BY <1>0, <1>1
  <2>3. d \in Demandes
    BY <1>0, <2>1, <2>2 DEF Demandes, Etapes
  <2>4. req' = [req EXCEPT ![q] = d]
    BY <1>1 DEF Suite
  <2>5. d.regle \in Range(regles) /\ Range(d.file) \subseteq Range(regles) /\ d.etape = "candidats"
    BY <1>0, <2>1 DEF DemandeCoherente, Demandes
  <2> QED
    BY <2>3, <2>4, <2>5, DemandeSuivante
<1>2. CASE req[q].file = <<>> /\ req[q].tache = "reconciliation"
  <2> DEFINE d == [req[q] EXCEPT !.etape = "salaire", !.regle = Sans, !.cibles = {}]
  <2>1. d \in Demandes /\ d.file = req[q].file /\ d.etape = "salaire"
    BY <1>0 DEF Demandes, Etapes
  <2>2. req' = [req EXCEPT ![q] = d]
    BY <1>2 DEF Suite
  <2> QED
    BY <1>0, <2>1, <2>2, DemandeSuivante DEF DemandeCoherente
<1>3. CASE req[q].file = <<>> /\ req[q].tache # "reconciliation"
  BY <1>3, FinDemande DEF Suite
<1> QED
  BY <1>1, <1>2, <1>3

-------------------------------------------------------------------------------
(* Nothing is stored by a rule or by hand at the start. *)
LEMMA InvariantInit == Init => Invariant
<1> SUFFICES ASSUME Init PROVE Invariant
  OBVIOUS
<1>1. TablesSaines
  <2>1. Vierge \in Lignes /\ LigneCoherente(Vierge)
    BY DEF Vierge, Lignes, LigneCoherente, Sources
  <2>2. LET l == [Vierge EXCEPT !.statut = "booked", !.datee = TRUE]
        IN  l \in Lignes /\ LigneCoherente(l)
    BY DEF Vierge, Lignes, LigneCoherente, Sources
  <2>3. lignes \in [Transactions -> Lignes]
    BY <2>1, <2>2 DEF Init
  <2>4. \A t \in Transactions : LigneCoherente(lignes[t])
    BY <2>1, <2>2 DEF Init
  <2>5. categories \in [Categories -> {"aVenir", "existe", "supprimee"}]
    BY DEF Init
  <2>6. regles \in Seq(Regles) /\ IsInjective(regles)
    BY DEF Init, IsInjective
  <2> QED
    BY <2>3, <2>4, <2>5, <2>6 DEF TablesSaines, TypesTables
<1>2. TachesSaines
  <2>1. Libre \in Demandes /\ Range(Libre.file) = {}
    BY DEF Libre, Demandes, Etapes, Range
  <2> QED
    BY <2>1 DEF Init, TachesSaines, TypesTaches, DemandeCoherente, InsertionCoherente,
                Libre, Repos
<1> QED
  BY <1>1, <1>2, InvariantEnDeux

(* A rule writes nothing, or its category is still there. *)
LEMMA RegleAppliquee ==
    ASSUME TablesSaines, NEW r \in Range(regles), NEW S,
           ClefRespectee(S, RegleDe[r].categorie),
           lignes' = [t \in Transactions |->
                        IF t \in S THEN ParRegle(RegleDe[r].categorie, r, lignes[t])
                        ELSE lignes[t]],
           UNCHANGED <<categories, regles>>
    PROVE  TablesSaines'
<1>0. /\ lignes \in [Transactions -> Lignes]
      /\ \A t \in Transactions : LigneCoherente(lignes[t])
  BY DEF TablesSaines, TypesTables
<1>1. CASE S = {}
  <2>1. lignes' = lignes
    BY <1>0, <1>1
  <2> QED
    BY <2>1, TablesIntactes
<1>2. CASE Existe(RegleDe[r].categorie)
  <2>1. r \in EnVigueur
    BY <1>2 DEF EnVigueur
  <2>2. \A l \in Lignes : LET m == ParRegle(RegleDe[r].categorie, r, l)
                          IN  m \in Lignes /\ LigneCoherente(m)
    BY <2>1, LigneParRegle DEF TablesSaines, TypesTables
  <2>3. lignes' \in [Transactions -> Lignes] /\ \A t \in Transactions : LigneCoherente(lignes'[t])
    BY <1>0, <2>2
  <2> QED
    BY <2>3, LignesEcrites
<1> QED
  BY <1>1, <1>2 DEF ClefRespectee

-------------------------------------------------------------------------------
(* The worker. *)
LEMMA PasDuWorker ==
    ASSUME TablesSaines, TachesSaines, Worker
    PROVE  TablesSaines' /\ TachesSaines'
<1>0. /\ lignes \in [Transactions -> Lignes]
      /\ \A t \in Transactions : LigneCoherente(lignes[t])
      /\ insertion \in [etape : {"repos", "regles", "appliquer"},
                        tx : Transactions \cup {Sans}, regle : Regles \cup {Sans}]
      /\ incident \in BOOLEAN
      /\ InsertionCoherente
  BY DEF TablesSaines, TypesTables, TachesSaines, TypesTaches
<1>1. ASSUME NEW t \in Transactions, Inserer(t)
      PROVE  TablesSaines' /\ TachesSaines'
  <2>1. PICK a \in Annonces[t] :
          /\ lignes' = [lignes EXCEPT ![t] =
                          [Vierge EXCEPT !.statut = a.statut, !.datee = a.datee]]
          /\ insertion' = [Repos EXCEPT !.etape = "regles", !.tx = t]
          /\ UNCHANGED <<categories, regles, req, incident>>
    BY <1>1 DEF Inserer
  <2>2. LET l == [Vierge EXCEPT !.statut = a.statut, !.datee = a.datee]
        IN  l \in Lignes /\ LigneCoherente(l)
    BY <2>1, ConstantesCategorisation DEF Vierge, Lignes, LigneCoherente, Sources
  <2>3. TablesSaines'
    <3>1. lignes' \in [Transactions -> Lignes]
      BY <1>0, <2>1, <2>2
    <3>2. \A u \in Transactions : LigneCoherente(lignes'[u])
      BY <1>0, <2>1, <2>2
    <3> QED
      BY <2>1, <3>1, <3>2, LignesEcrites
  <2>4. TachesSaines'
    <3>1. [Repos EXCEPT !.etape = "regles", !.tx = t] \in
            [etape : {"repos", "regles", "appliquer"},
             tx : Transactions \cup {Sans}, regle : Regles \cup {Sans}]
      BY DEF Repos
    <3> QED
      BY <1>0, <2>1, <3>1, InsertionSuivante DEF Repos
  <2> QED
    BY <2>3, <2>4
<1>2. ASSUME NEW t \in Transactions, Confirmer(t)
      PROVE  TablesSaines' /\ TachesSaines'
  <2>1. PICK a \in Annonces[t] :
          /\ lignes' = [lignes EXCEPT ![t].statut = "booked", ![t].datee = a.datee]
          /\ a.statut = "booked"
          /\ UNCHANGED <<categories, regles, insertion, req, incident>>
    BY <1>2 DEF Confirmer
  <2>. a.datee \in BOOLEAN /\ lignes[t] \in Lignes /\ LigneCoherente(lignes[t])
    BY <1>0, <2>1, ConstantesCategorisation
  <2>2. LET l == [lignes[t] EXCEPT !.statut = "booked", !.datee = a.datee]
        IN  l \in Lignes /\ LigneCoherente(l)
    BY <1>0, <2>1, ConstantesCategorisation DEF Lignes, LigneCoherente
  <2>3. lignes' = [lignes EXCEPT ![t] = [lignes[t] EXCEPT !.statut = "booked", !.datee = a.datee]]
    BY <1>0, <2>1, <2>2
  <2>4. lignes' \in [Transactions -> Lignes] /\ \A u \in Transactions : LigneCoherente(lignes'[u])
    BY <1>0, <2>2, <2>3
  <2>5. TablesSaines'
    BY <2>1, <2>4, LignesEcrites
  <2>6. TachesSaines'
    BY <1>0, <2>1, InsertionSuivante DEF InsertionCoherente
  <2> QED
    BY <2>5, <2>6
<1>3. ASSUME LireRegles
      PROVE  TablesSaines' /\ TachesSaines'
  <2>1. TablesSaines'
    BY <1>3, TablesIntactes DEF LireRegles
  <2>2. CASE insertion' = Repos
    BY <1>0, <1>3, <2>1, <2>2, FinInsertion DEF LireRegles
  <2>3. ASSUME NEW r \in Regles, Meilleure(r, insertion.tx),
               insertion' = [insertion EXCEPT !.etape = "appliquer", !.regle = r]
        PROVE  TachesSaines'
    <3>1. r \in Range(regles)
      BY <2>3 DEF Meilleure, EnVigueur
    <3>2. insertion.tx \in Transactions
      BY <1>0, <1>3 DEF LireRegles, InsertionCoherente
    <3> DEFINE i == [insertion EXCEPT !.etape = "appliquer", !.regle = r]
    <3>3. /\ i \in [etape : {"repos", "regles", "appliquer"},
                    tx : Transactions \cup {Sans}, regle : Regles \cup {Sans}]
          /\ i.etape = "appliquer" /\ i.tx = insertion.tx /\ i.regle = r
      BY <1>0
    <3>4. insertion' = i /\ UNCHANGED <<regles, req, incident>>
      BY <1>3, <2>3 DEF LireRegles
    <3> HIDE DEF i
    <3>5. incident' \in BOOLEAN
      BY <1>0, <3>4
    <3> QED
      BY <3>1, <3>2, <3>3, <3>4, <3>5, InsertionSuivante
  <2> QED
    BY <1>3, <2>1, <2>2, <2>3 DEF LireRegles
<1>4. ASSUME AppliquerRegle
      PROVE  TablesSaines' /\ TachesSaines'
  <2> DEFINE r == insertion.regle
             c == RegleDe[r].categorie
             S == Touchee(insertion.tx)
  <2>1. TachesSaines'
    BY <1>0, <1>4, FinInsertion DEF AppliquerRegle
  <2>2. ASSUME UNCHANGED lignes PROVE TablesSaines'
    BY <1>4, <2>2, TablesIntactes DEF AppliquerRegle
  <2>3. ASSUME ClefRespectee(S, c), Ecrire(S, LAMBDA l : ParRegle(c, r, l))
        PROVE  TablesSaines'
    <3>1. r \in Range(regles)
      BY <1>0, <1>4 DEF AppliquerRegle, InsertionCoherente
    <3> QED
      BY <1>4, <2>3, <3>1, RegleAppliquee DEF AppliquerRegle, Ecrire
  <2> QED
    BY <1>4, <2>1, <2>2, <2>3 DEF AppliquerRegle
<1>5. ASSUME EchecInsertion
      PROVE  TablesSaines' /\ TachesSaines'
  BY <1>0, <1>5, TablesIntactes, FinInsertion DEF EchecInsertion
<1> QED
  BY <1>1, <1>2, <1>3, <1>4, <1>5 DEF Worker

-------------------------------------------------------------------------------
(* The requests that read. *)
LEMMA PasDeLecture ==
    ASSUME TablesSaines, TachesSaines, NEW q \in Requetes,
           \/ Candidats(q) \/ Apparier(q) \/ ListerRegles(q)
           \/ ChoisirSalaire(q) \/ ListerCredits(q)
           \/ Interrompre(q)
           \/ \E t \in Transactions, c \in Categories : Choisir(q, t, c)
    PROVE  TablesSaines' /\ TachesSaines'
<1>0. /\ req \in [Requetes -> Demandes]
      /\ req[q] \in Demandes
      /\ DemandeCoherente(q)
      /\ incident \in BOOLEAN
  BY DEF TachesSaines, TypesTaches
<1>1. TablesSaines'
  BY TablesIntactes DEF Candidats, Apparier, ListerRegles, ChoisirSalaire, ListerCredits,
                        Interrompre, Choisir
<1>2. ASSUME Candidats(q) PROVE TachesSaines'
  <2>1. PICK lus \in Plafonner(NonCategorisees) :
          LET cibles == {t \in lus : Correspond(req[q].regle, t)}
          IN  IF cibles = {} THEN Suite(q)
              ELSE req' = [req EXCEPT ![q].etape = "lot", ![q].cibles = cibles]
    BY <1>2 DEF Candidats
  <2> DEFINE cibles == {t \in lus : Correspond(req[q].regle, t)}
             d == [req[q] EXCEPT !.etape = "lot", !.cibles = cibles]
  <2>2. CASE cibles = {}
    BY <1>0, <1>2, <2>1, <2>2, DemandeSuite DEF Candidats
  <2>3. CASE cibles # {}
    <3>1. NonCategorisees \subseteq Transactions
      BY DEF NonCategorisees, Stockees
    <3>2. lus \subseteq Transactions
      BY <2>1, <3>1 DEF Plafonner, kSubset
    <3>3. d \in Demandes
      BY <1>0, <3>2 DEF Demandes, Etapes
    <3>4. d.regle \in Range(regles) /\ Range(d.file) \subseteq Range(regles) /\ d.etape = "lot"
      BY <1>0, <1>2 DEF Candidats, DemandeCoherente, Demandes
    <3>5. req' = [req EXCEPT ![q] = d]
      BY <1>0, <2>1, <2>3
    <3> QED
      BY <1>0, <1>2, <3>3, <3>4, <3>5, DemandeSuivante DEF Candidats
  <2> QED
    BY <2>2, <2>3
<1>3. ASSUME Apparier(q) PROVE TachesSaines'
  <2> DEFINE d == [Libre EXCEPT !.etape = "reinitialiser", !.tache = "reconciliation",
                                !.cibles = Apparies(Mouvements)]
  <2>1. Apparies(Mouvements) \subseteq Transactions
    BY DEF Apparies, Mouvements, Stockees
  <2>2. d \in Demandes /\ d.etape = "reinitialiser" /\ d.file = <<>>
    BY <2>1, LibreSaine DEF Demandes, Etapes
  <2>3. Range(d.file) = {}
    BY <2>2 DEF Range
  <2> QED
    BY <1>0, <1>3, <2>2, <2>3, DemandeSuivante DEF Apparier
<1>4. ASSUME ListerRegles(q) PROVE TachesSaines'
  <2>1. PICK file \in Listes :
          req' = [req EXCEPT ![q] = IF file = <<>> THEN [req[q] EXCEPT !.etape = "salaire"]
                                    ELSE [req[q] EXCEPT !.etape = "candidats", !.regle = Head(file),
                                                        !.file = Tail(file)]]
    BY <1>0, <1>4 DEF ListerRegles
  <2>2. file \in Seq(Regles) /\ Range(file) \subseteq Range(regles)
    <3>1. EnVigueur \subseteq Range(regles) /\ EnVigueur \subseteq Regles
      BY DEF EnVigueur, TablesSaines, TypesTables, Range
    <3>2. PICK n \in 0..Len(regles) : file \in [1..n -> EnVigueur]
      BY <2>1 DEF Listes
    <3>3. n \in Nat
      BY <3>2 DEF TablesSaines, TypesTables
    <3>4. file \in Seq(Regles)
      BY <3>1, <3>2, <3>3
    <3> QED
      BY <3>1, <3>4, <2>1 DEF Listes
  <2>3. CASE file = <<>>
    <3> DEFINE d == [req[q] EXCEPT !.etape = "salaire"]
    <3>1. d \in Demandes /\ d.etape = "salaire" /\ d.file = req[q].file
      BY <1>0 DEF Demandes, Etapes
    <3> QED
      BY <1>0, <1>4, <2>1, <2>3, <3>1, DemandeSuivante DEF ListerRegles, DemandeCoherente
  <2>4. CASE file # <<>>
    <3> DEFINE d == [req[q] EXCEPT !.etape = "candidats", !.regle = Head(file), !.file = Tail(file)]
    <3>1. /\ Head(file) \in Range(file) /\ Head(file) \in Regles
          /\ Tail(file) \in Seq(Regles) /\ Range(Tail(file)) \subseteq Range(file)
      BY <2>2, <2>4 DEF Range
    <3>2. d \in Demandes /\ d.etape = "candidats" /\ d.file = Tail(file) /\ d.regle = Head(file)
      BY <1>0, <3>1 DEF Demandes, Etapes
    <3> QED
      BY <1>0, <1>4, <2>1, <2>2, <2>4, <3>1, <3>2, DemandeSuivante DEF ListerRegles
  <2> QED
    BY <2>3, <2>4
<1>5. ASSUME ChoisirSalaire(q) PROVE TachesSaines'
  <2>1. CASE Terminer(q)
    BY <1>0, <1>5, <2>1, FinDemande DEF ChoisirSalaire
  <2>2. ASSUME NEW c \in Categories, req' = [req EXCEPT ![q].etape = "credits", ![q].categorie = c]
        PROVE  TachesSaines'
    <3> DEFINE d == [req[q] EXCEPT !.etape = "credits", !.categorie = c]
    <3>1. d \in Demandes /\ d.etape = "credits" /\ d.file = req[q].file /\ d.categorie = c
      BY <1>0 DEF Demandes, Etapes
    <3>2. req' = [req EXCEPT ![q] = d]
      BY <1>0, <2>2
    <3> QED
      BY <1>0, <1>5, <3>1, <3>2, DemandeSuivante DEF ChoisirSalaire, DemandeCoherente
  <2> QED
    BY <1>5, <2>1, <2>2 DEF ChoisirSalaire
<1>6. ASSUME ListerCredits(q) PROVE TachesSaines'
  <2>1. PICK lus \in Plafonner(CreditsNonCategorises) :
          LET credits == {t \in lus : Donnees[t].montant >= 0}
          IN  IF credits = {} THEN Terminer(q)
              ELSE req' = [req EXCEPT ![q].etape = "defaut", ![q].cibles = credits]
    BY <1>6 DEF ListerCredits
  <2> DEFINE credits == {t \in lus : Donnees[t].montant >= 0}
             d == [req[q] EXCEPT !.etape = "defaut", !.cibles = credits]
  <2>2. CASE Terminer(q)
    BY <1>0, <1>6, <2>2, FinDemande DEF ListerCredits
  <2>3. CASE req' = [req EXCEPT ![q].etape = "defaut", ![q].cibles = credits]
    <3>1. CreditsNonCategorises \subseteq Transactions
      BY DEF CreditsNonCategorises, Stockees
    <3>2. lus \subseteq Transactions
      BY <2>1, <3>1 DEF Plafonner, kSubset
    <3>3. d \in Demandes /\ d.etape = "defaut" /\ d.file = req[q].file /\ d.categorie = req[q].categorie
      BY <1>0, <3>2 DEF Demandes, Etapes
    <3>5. req' = [req EXCEPT ![q] = d]
      BY <1>0, <2>3
    <3> QED
      BY <1>0, <1>6, <3>3, <3>5, DemandeSuivante DEF ListerCredits, DemandeCoherente
  <2> QED
    BY <2>1, <2>2, <2>3
<1>7. ASSUME Interrompre(q) PROVE TachesSaines'
  BY <1>7, FinDemande DEF Interrompre
<1>8. ASSUME NEW t \in Transactions, NEW c \in Categories, Choisir(q, t, c)
      PROVE  TachesSaines'
  <2> DEFINE d == [Libre EXCEPT !.etape = "ranger", !.tache = "choix", !.cibles = {t},
                                !.categorie = c]
  <2>1. d \in Demandes /\ d.file = <<>> /\ d.etape = "ranger" /\ d.cibles = {t} /\ d.categorie = c
    BY LibreSaine DEF Demandes, Etapes
  <2>2. Range(d.file) = {}
    BY <2>1 DEF Range
  <2>3. req' = [req EXCEPT ![q] = d] /\ UNCHANGED <<regles, insertion, incident>>
    BY <1>8 DEF Choisir
  <2> HIDE DEF d
  <2>4. Range(d.file) \subseteq Range(regles') /\ Range(regles) \subseteq Range(regles')
    BY <2>2, <2>3
  <2>5. incident' \in BOOLEAN /\ \E x \in Transactions : d.cibles = {x}
    BY <1>0, <2>1, <2>3
  <2> QED
    BY <2>1, <2>3, <2>4, <2>5, DemandeSuivante
<1> QED
  BY <1>1, <1>2, <1>3, <1>4, <1>5, <1>6, <1>7, <1>8

-------------------------------------------------------------------------------
(* A rule is created: the older ones stay. *)
LEMMA PasCreerRegle ==
    ASSUME TablesSaines, TachesSaines, NEW q \in Requetes, NEW r \in Regles, CreerRegle(q, r)
    PROVE  TablesSaines' /\ TachesSaines'
<1>0. /\ lignes \in [Transactions -> Lignes]
      /\ \A t \in Transactions : LigneCoherente(lignes[t])
      /\ regles \in Seq(Regles) /\ IsInjective(regles)
      /\ incident \in BOOLEAN
  BY DEF TablesSaines, TypesTables, TachesSaines, TypesTaches
<1>1. regles' = Append(regles, r) /\ r \notin Range(regles)
  BY DEF CreerRegle
<1>2. regles' \in Seq(Regles) /\ IsInjective(regles')
  BY <1>0, <1>1 DEF IsInjective, Range
<1>3. Range(regles) \subseteq Range(regles') /\ r \in Range(regles')
  <2>1. \A x \in Range(regles) : x \in Range(regles')
    BY <1>0, <1>1 DEF Range
  <2>2. regles'[Len(regles) + 1] = r /\ Len(regles) + 1 \in DOMAIN regles'
    BY <1>0, <1>1
  <2> QED
    BY <2>1, <2>2 DEF Range
<1>4. EnVigueur \subseteq EnVigueur'
  BY <1>3 DEF EnVigueur, Existe, CreerRegle
<1>5. TablesSaines'
  BY <1>0, <1>2, <1>4 DEF TablesSaines, TypesTables, LigneCoherente, CreerRegle
<1>6. TachesSaines'
  <2> DEFINE d == [Libre EXCEPT !.etape = "candidats", !.tache = "regle", !.regle = r]
  <2>1. d \in Demandes /\ d.etape = "candidats" /\ d.file = <<>> /\ d.regle = r
    BY LibreSaine DEF Demandes, Etapes
  <2>2. Range(d.file) = {}
    BY <2>1 DEF Range
  <2> QED
    BY <1>0, <1>3, <2>1, <2>2, DemandeSuivante DEF CreerRegle
<1> QED
  BY <1>5, <1>6

(* The requests that write rows. *)
LEMMA PasEcriture ==
    ASSUME TablesSaines, TachesSaines, NEW q \in Requetes,
           Lot(q) \/ Reinitialiser(q) \/ Marquer(q) \/ ParDefautEnLot(q) \/ Ranger(q)
    PROVE  TablesSaines' /\ TachesSaines'
<1>0. /\ lignes \in [Transactions -> Lignes]
      /\ \A t \in Transactions : LigneCoherente(lignes[t])
      /\ req \in [Requetes -> Demandes]
      /\ req[q] \in Demandes
      /\ DemandeCoherente(q)
      /\ incident \in BOOLEAN
  BY DEF TablesSaines, TypesTables, TachesSaines, TypesTaches
<1>1. ASSUME Lot(q) PROVE TablesSaines' /\ TachesSaines'
  <2> DEFINE r == req[q].regle
             S == Touchees(req[q].cibles)
  <2>1. CASE /\ ClefRespectee(S, RegleDe[r].categorie)
             /\ Ecrire(S, LAMBDA l : ParRegle(RegleDe[r].categorie, r, l))
             /\ Suite(q) /\ UNCHANGED incident
    <3>1. r \in Range(regles)
      BY <1>0, <1>1 DEF Lot, DemandeCoherente
    <3>2. TablesSaines'
      BY <1>1, <2>1, <3>1, RegleAppliquee DEF Lot, Ecrire
    <3>3. TachesSaines'
      BY <1>0, <1>1, <2>1, DemandeSuite DEF Lot
    <3> QED
      BY <3>2, <3>3
  <2>2. CASE UNCHANGED lignes /\ Terminer(q) /\ incident' = TRUE
    BY <1>1, <2>2, TablesIntactes, FinDemande DEF Lot
  <2> QED
    BY <1>1, <2>1, <2>2 DEF Lot
<1>2. ASSUME Reinitialiser(q) PROVE TablesSaines' /\ TachesSaines'
  <2>1. \A l \in Lignes : LigneCoherente(l) =>
          LET m == [l EXCEPT !.interne = FALSE] IN m \in Lignes /\ LigneCoherente(m)
    BY DEF Lignes, LigneCoherente
  <2>2. lignes' \in [Transactions -> Lignes] /\ \A t \in Transactions : LigneCoherente(lignes'[t])
    BY <1>0, <1>2, <2>1 DEF Reinitialiser, Ecrire
  <2>3. TablesSaines'
    BY <1>2, <2>2, LignesEcrites DEF Reinitialiser
  <2> DEFINE d == [req[q] EXCEPT !.etape = "marquer"]
  <2>4. d \in Demandes /\ d.etape = "marquer" /\ d.file = req[q].file
    BY <1>0 DEF Demandes, Etapes
  <2>5. req' = [req EXCEPT ![q] = d]
    BY <1>0, <1>2 DEF Reinitialiser
  <2>6. TachesSaines'
    BY <1>0, <1>2, <2>4, <2>5, DemandeSuivante DEF Reinitialiser, DemandeCoherente
  <2> QED
    BY <2>3, <2>6
<1>3. ASSUME Marquer(q) PROVE TablesSaines' /\ TachesSaines'
  <2>1. \A l \in Lignes : LigneCoherente(l) => Marquee(l) \in Lignes /\ LigneCoherente(Marquee(l))
    BY LigneMarquee
  <2>2. lignes' \in [Transactions -> Lignes] /\ \A t \in Transactions : LigneCoherente(lignes'[t])
    BY <1>0, <1>3, <2>1 DEF Marquer, Ecrire
  <2>3. TablesSaines'
    BY <1>3, <2>2, LignesEcrites DEF Marquer
  <2> DEFINE d == [req[q] EXCEPT !.etape = "regles", !.cibles = {}]
  <2>4. d \in Demandes /\ d.etape = "regles" /\ d.file = req[q].file
    BY <1>0 DEF Demandes, Etapes
  <2>5. req' = [req EXCEPT ![q] = d]
    BY <1>0, <1>3 DEF Marquer
  <2>6. TachesSaines'
    BY <1>0, <1>3, <2>4, <2>5, DemandeSuivante DEF Marquer, DemandeCoherente
  <2> QED
    BY <2>3, <2>6
<1>4. ASSUME ParDefautEnLot(q) PROVE TablesSaines' /\ TachesSaines'
  <2> DEFINE c == req[q].categorie
             S == Touchees(req[q].cibles)
  <2>1. TachesSaines'
    BY <1>0, <1>4, FinDemande DEF ParDefautEnLot
  <2>2. ASSUME UNCHANGED lignes PROVE TablesSaines'
    BY <1>4, <2>2, TablesIntactes DEF ParDefautEnLot
  <2>3. ASSUME Ecrire(S, LAMBDA l : ParRegle(c, Sans, l)) PROVE TablesSaines'
    <3>1. c \in Categories
      BY <1>0, <1>4 DEF ParDefautEnLot, DemandeCoherente
    <3>2. \A l \in Lignes : ParRegle(c, Sans, l) \in Lignes /\ LigneCoherente(ParRegle(c, Sans, l))
      BY <3>1, LigneParDefaut
    <3>3. lignes' \in [Transactions -> Lignes] /\ \A t \in Transactions : LigneCoherente(lignes'[t])
      BY <1>0, <2>3, <3>2 DEF Ecrire
    <3> QED
      BY <1>4, <3>3, LignesEcrites DEF ParDefautEnLot
  <2> QED
    BY <1>4, <2>1, <2>2, <2>3 DEF ParDefautEnLot
<1>5. ASSUME Ranger(q) PROVE TablesSaines' /\ TachesSaines'
  <2> DEFINE c == req[q].categorie
             Rangee(l) == [l EXCEPT !.categorie = c, !.source = "manual", !.regle = Sans,
                                    !.interne = (c = VirementsInternes)]
  <2>1. TachesSaines'
    BY <1>0, <1>5, FinDemande DEF Ranger
  <2>2. ASSUME UNCHANGED lignes PROVE TablesSaines'
    BY <1>5, <2>2, TablesIntactes DEF Ranger
  <2>3. ASSUME Ecrire(req[q].cibles, Rangee) PROVE TablesSaines'
    <3>1. c \in Categories
      BY <1>0, <1>5 DEF Ranger, DemandeCoherente
    <3>2. \A l \in Lignes : Rangee(l) \in Lignes /\ LigneCoherente(Rangee(l))
      BY <3>1, LigneRangee
    <3>3. lignes' \in [Transactions -> Lignes] /\ \A t \in Transactions : LigneCoherente(lignes'[t])
      BY <1>0, <2>3, <3>2 DEF Ecrire
    <3> QED
      BY <1>5, <3>3, LignesEcrites DEF Ranger
  <2> QED
    BY <1>5, <2>1, <2>2, <2>3 DEF Ranger
<1> QED
  BY <1>1, <1>2, <1>3, <1>4, <1>5

(* The categories come and go. *)
LEMMA PasDesCategories ==
    ASSUME TablesSaines, TachesSaines, PasCategorie
    PROVE  TablesSaines' /\ TachesSaines'
<1>0. /\ lignes \in [Transactions -> Lignes]
      /\ \A t \in Transactions : LigneCoherente(lignes[t])
      /\ categories \in [Categories -> {"aVenir", "existe", "supprimee"}]
      /\ regles \in Seq(Regles)
  BY DEF TablesSaines, TypesTables
<1>1. ASSUME NEW c \in Categories, CreerCategorie(c)
      PROVE  TablesSaines' /\ TachesSaines'
  <2>1. EnVigueur \subseteq EnVigueur'
    BY <1>0, <1>1 DEF CreerCategorie, EnVigueur, Existe
  <2>2. TablesSaines'
    BY <1>0, <1>1, <2>1 DEF CreerCategorie, TablesSaines, TypesTables, LigneCoherente
  <2>3. TachesSaines'
    BY <1>1 DEF CreerCategorie, TachesSaines, TypesTaches, DemandeCoherente, InsertionCoherente
  <2> QED
    BY <2>2, <2>3
<1>2. ASSUME NEW c \in Categories, SupprimerCategorie(c)
      PROVE  TablesSaines' /\ TachesSaines'
  <2>1. /\ categories' = [categories EXCEPT ![c] = "supprimee"]
        /\ lignes' = [t \in Transactions |-> IF lignes[t].categorie = c THEN Liberee(lignes[t])
                                                                     ELSE lignes[t]]
        /\ UNCHANGED regles
    BY <1>2 DEF SupprimerCategorie, Ecrire
  <2>2. \A r \in EnVigueur : RegleDe[r].categorie # c => r \in EnVigueur'
    <3>1. \A r \in Range(regles) : RegleDe[r].categorie \in Categories
      BY <1>0, ConstantesCategorisation DEF Range
    <3> QED
      BY <1>0, <2>1, <3>1 DEF EnVigueur, Existe
  <2>3. ASSUME NEW t \in Transactions
        PROVE  lignes'[t] \in Lignes /\ LigneCoherente(lignes[t])'
    <3>1. lignes[t] \in Lignes /\ LigneCoherente(lignes[t])
      BY <1>0
    <3>2. CASE lignes[t].categorie = c
      <4>1. lignes'[t] = Liberee(lignes[t])
        BY <2>1, <3>2
      <4>2. Liberee(lignes[t]) \in Lignes
        BY <3>1 DEF Liberee, Lignes, Sources
      <4>3. LET l == Liberee(lignes[t])
            IN  l.source = "none" /\ l.categorie = Sans /\ l.regle = Sans
        BY <3>1 DEF Liberee, Lignes
      <4> QED
        BY <4>1, <4>2, <4>3 DEF LigneCoherente
    <3>3. CASE lignes[t].categorie # c
      <4>1. lignes'[t] = lignes[t]
        BY <2>1, <3>3
      <4> QED
        BY <2>2, <3>1, <3>3, <4>1 DEF LigneCoherente
    <3> QED
      BY <3>2, <3>3
  <2>4. TablesSaines'
    <3>1. TypesTables'
      BY <1>0, <2>1, <2>3 DEF TablesSaines, TypesTables
    <3> QED
      BY <2>3, <3>1 DEF TablesSaines
  <2>5. TachesSaines'
    BY <1>2 DEF SupprimerCategorie, TachesSaines, TypesTaches, DemandeCoherente, InsertionCoherente
  <2> QED
    BY <2>4, <2>5
<1> QED
  BY <1>1, <1>2 DEF PasCategorie

-------------------------------------------------------------------------------
LEMMA InvariantInductif == Invariant /\ [Next]_vars => Invariant'
<1> SUFFICES ASSUME Invariant, [Next]_vars PROVE Invariant'
  OBVIOUS
<1>1. TablesSaines /\ TachesSaines
  BY InvariantEnDeux
<1>2. CASE Worker
  BY <1>1, <1>2, PasDuWorker, InvariantEnDeux, PTL
<1>3. ASSUME NEW q \in Requetes, PasRequete(q) PROVE Invariant'
  <2>1. TablesSaines' /\ TachesSaines'
    BY <1>1, <1>3, PasDeLecture, PasEcriture, PasCreerRegle
       DEF PasRequete, Commencer, Poursuivre
  <2> QED
    BY <2>1, InvariantEnDeux, PTL
<1>4. CASE PasCategorie
  BY <1>1, <1>4, PasDesCategories, InvariantEnDeux, PTL
<1>5. CASE UNCHANGED vars
  <2>1. TablesSaines'
    BY <1>1, <1>5, TablesIntactes DEF vars
  <2>2. TachesSaines'
    BY <1>1, <1>5
       DEF vars, TachesSaines, TypesTaches, DemandeCoherente, InsertionCoherente
  <2> QED
    BY <2>1, <2>2, InvariantEnDeux, PTL
<1> QED
  BY <1>2, <1>3, <1>4, <1>5 DEF Next

(* What a request or the worker holds, and what a row says, stay coherent   *)
(* whatever the others do in between.                                       *)
THEOREM InvariantToujours == Spec => []Invariant
BY InvariantInit, InvariantInductif, PTL DEF Spec

(* The sets each table and each handler of the categorisation live in.      *)
THEOREM TypesToujours == Spec => []TypeOK
BY InvariantToujours, PTL DEF Invariant

(* Source, category and rule of a row agree, through every race, failure     *)
(* and deletion (bank_transactions.rs, migrations/0010).                    *)
THEOREM SourceToujoursCoherente == Spec => []SourceCoherente
BY InvariantToujours, PTL DEF Invariant

-------------------------------------------------------------------------------
(* A row that is not there yet was filed by nobody, and no handler holds it. *)
Presence ==
    /\ \A t \in Transactions : lignes[t].source # "none" => t \in Stockees
    /\ \A q \in Requetes : req[q].cibles \subseteq Stockees
    /\ insertion.etape # "repos" => insertion.tx \in Stockees

(* Nothing takes a row away, and a row that gets a source was there. *)
LignesRestent ==
    /\ Stockees \subseteq Stockees'
    /\ \A t \in Transactions : lignes'[t].source # "none" => t \in Stockees'

(* A row filed by hand keeps its three columns, or its owner acted. *)
Conserve(t) ==
    /\ lignes[t].source = "manual"
    /\ <<lignes[t].categorie, lignes[t].source, lignes[t].regle>>
         # <<lignes'[t].categorie, lignes'[t].source, lignes'[t].regle>>
    => \/ ~(categories'[lignes[t].categorie] = "existe")
       \/ \E q \in Requetes : req[q].etape = "ranger" /\ req[q].cibles = {t}

LEMMA ChoixSiLignesIntactes ==
    ASSUME Presence, UNCHANGED lignes
    PROVE  LignesRestent /\ \A t \in Transactions : Conserve(t)
BY DEF Presence, LignesRestent, Conserve, Stockees

(* A rule writes no row filed by hand. *)
LEMMA ChoixSiRegleAppliquee ==
    ASSUME TypesTables, Presence, NEW S, S \subseteq Stockees, NEW c, NEW r,
           \A t \in S : lignes[t].source # "manual",
           lignes' = [t \in Transactions |-> IF t \in S THEN ParRegle(c, r, lignes[t])
                                                        ELSE lignes[t]]
    PROVE  LignesRestent /\ \A t \in Transactions : Conserve(t)
<1>1. ASSUME NEW t \in S, lignes[t] \in Lignes
      PROVE  lignes'[t].statut = lignes[t].statut
  BY <1>1 DEF ParRegle, Lignes, Stockees
<1> QED
  BY <1>1 DEF TypesTables, Presence, LignesRestent, Conserve, Stockees

LEMMA ChoixDansLeWorker ==
    ASSUME TablesSaines, TachesSaines, Presence, Worker
    PROVE  LignesRestent /\ \A t \in Transactions : Conserve(t)
<1>0. /\ lignes \in [Transactions -> Lignes]
      /\ TypesTables
  BY DEF TablesSaines, TypesTables
<1>1. ASSUME NEW t \in Transactions, Inserer(t)
      PROVE  LignesRestent /\ \A u \in Transactions : Conserve(u)
  <2>1. PICK a \in Annonces[t] :
          lignes' = [lignes EXCEPT ![t] = [Vierge EXCEPT !.statut = a.statut, !.datee = a.datee]]
    BY <1>1 DEF Inserer
  <2>2. lignes'[t].source = "none" /\ lignes'[t].statut # "absente" /\ lignes[t].source = "none"
    BY <1>0, <1>1, <2>1, ConstantesCategorisation DEF Inserer, Vierge, Presence, Stockees
  <2>3. \A u \in Transactions \ {t} : lignes'[u] = lignes[u]
    BY <1>0, <2>1
  <2> QED
    BY <2>2, <2>3 DEF Presence, LignesRestent, Conserve, Stockees
<1>2. ASSUME NEW t \in Transactions, Confirmer(t)
      PROVE  LignesRestent /\ \A u \in Transactions : Conserve(u)
  <2>1. PICK a \in Annonces[t] :
          lignes' = [lignes EXCEPT ![t].statut = "booked", ![t].datee = a.datee]
    BY <1>2 DEF Confirmer
  <2>2. /\ lignes'[t].statut = "booked" /\ lignes'[t].categorie = lignes[t].categorie
        /\ lignes'[t].source = lignes[t].source /\ lignes'[t].regle = lignes[t].regle
    BY <1>0, <2>1 DEF Lignes
  <2>3. \A u \in Transactions \ {t} : lignes'[u] = lignes[u]
    BY <1>0, <2>1
  <2> QED
    BY <2>2, <2>3 DEF Presence, LignesRestent, Conserve, Stockees
<1>3. ASSUME AppliquerRegle
      PROVE  LignesRestent /\ \A u \in Transactions : Conserve(u)
  <2> DEFINE r == insertion.regle
             c == RegleDe[r].categorie
             S == Touchee(insertion.tx)
  <2>1. CASE UNCHANGED lignes
    BY <2>1, ChoixSiLignesIntactes
  <2>2. CASE Ecrire(S, LAMBDA l : ParRegle(c, r, l))
    <3>1. S \subseteq Stockees /\ \A t \in S : lignes[t].source # "manual"
      BY <1>3 DEF AppliquerRegle, Presence, Touchee, Stockees
    <3> QED
      BY <1>0, <2>2, <3>1, ChoixSiRegleAppliquee DEF Ecrire
  <2> QED
    BY <1>3, <2>1, <2>2 DEF AppliquerRegle
<1>4. ASSUME LireRegles \/ EchecInsertion
      PROVE  LignesRestent /\ \A u \in Transactions : Conserve(u)
  BY <1>4, ChoixSiLignesIntactes DEF LireRegles, EchecInsertion
<1> QED
  BY <1>1, <1>2, <1>3, <1>4 DEF Worker

LEMMA ChoixDansLesRequetes ==
    ASSUME TablesSaines, TachesSaines, Presence, NEW q \in Requetes, PasRequete(q)
    PROVE  LignesRestent /\ \A t \in Transactions : Conserve(t)
<1>0. /\ lignes \in [Transactions -> Lignes]
      /\ TypesTables
      /\ DemandeCoherente(q)
  BY DEF TablesSaines, TypesTables, TachesSaines
<1>1. CASE UNCHANGED lignes
  BY <1>1, ChoixSiLignesIntactes
<1>2. ASSUME NEW c, NEW r,
             lignes' = [t \in Transactions |-> IF t \in Touchees(req[q].cibles)
                                               THEN ParRegle(c, r, lignes[t]) ELSE lignes[t]]
      PROVE  LignesRestent /\ \A t \in Transactions : Conserve(t)
  <2> DEFINE S == Touchees(req[q].cibles)
  <2>1. S \subseteq Stockees /\ \A t \in S : lignes[t].source # "manual"
    BY DEF Presence, Touchees
  <2> QED
    BY <1>0, <1>2, <2>1, ChoixSiRegleAppliquee
<1>3. ASSUME Reinitialiser(q)
      PROVE  LignesRestent /\ \A t \in Transactions : Conserve(t)
  <2>1. \A t \in Transactions :
          /\ lignes'[t].statut = lignes[t].statut /\ lignes'[t].categorie = lignes[t].categorie
          /\ lignes'[t].source = lignes[t].source /\ lignes'[t].regle = lignes[t].regle
    BY <1>0, <1>3 DEF Reinitialiser, Ecrire, Lignes
  <2> QED
    BY <2>1 DEF Presence, LignesRestent, Conserve, Stockees
<1>4. ASSUME Marquer(q)
      PROVE  LignesRestent /\ \A t \in Transactions : Conserve(t)
  <2>1. \A l \in Lignes :
          /\ Marquee(l).statut = l.statut
          /\ l.source = "manual" => /\ Marquee(l).categorie = l.categorie
                                    /\ Marquee(l).source = l.source
                                    /\ Marquee(l).regle = l.regle
          /\ l.source # "manual" => Marquee(l).source = "none"
    BY DEF Marquee, Lignes
  <2>2. \A t \in Transactions : lignes'[t] = lignes[t] \/ lignes'[t] = Marquee(lignes[t])
    BY <1>0, <1>4 DEF Marquer, Ecrire
  <2>3. \A t \in Transactions :
          /\ lignes'[t].statut = lignes[t].statut
          /\ lignes[t].source = "manual" => /\ lignes'[t].categorie = lignes[t].categorie
                                            /\ lignes'[t].source = lignes[t].source
                                            /\ lignes'[t].regle = lignes[t].regle
          /\ lignes[t].source = "none" => lignes'[t].source = "none"
    BY <1>0, <2>1, <2>2
  <2> QED
    BY <2>3 DEF Presence, LignesRestent, Conserve, Stockees
<1>5. ASSUME Ranger(q), ~UNCHANGED lignes
      PROVE  LignesRestent /\ \A t \in Transactions : Conserve(t)
  <2>1. PICK t \in Transactions : req[q].cibles = {t}
    BY <1>0, <1>5 DEF Ranger, DemandeCoherente
  <2>2. t \in Stockees
    BY <2>1 DEF Presence
  <2>3. \A u \in Transactions \ {t} : lignes'[u] = lignes[u]
    BY <1>5, <2>1 DEF Ranger, Ecrire
  <2>4. lignes'[t].statut = lignes[t].statut
    BY <1>0, <1>5, <2>1 DEF Ranger, Ecrire, Lignes
  <2>5. Conserve(t)
    BY <1>5, <2>1 DEF Conserve, Ranger
  <2> QED
    BY <2>2, <2>3, <2>4, <2>5 DEF Presence, LignesRestent, Conserve, Stockees
<1>6. CASE Lot(q)
  <2>1. CASE UNCHANGED lignes
    BY <2>1, <1>1
  <2>2. CASE Ecrire(Touchees(req[q].cibles),
                    LAMBDA l : ParRegle(RegleDe[req[q].regle].categorie, req[q].regle, l))
    BY <2>2, <1>2 DEF Ecrire
  <2> QED
    BY <1>6, <2>1, <2>2 DEF Lot
<1>7. CASE ParDefautEnLot(q)
  <2>1. CASE UNCHANGED lignes
    BY <2>1, <1>1
  <2>2. CASE Ecrire(Touchees(req[q].cibles), LAMBDA l : ParRegle(req[q].categorie, Sans, l))
    BY <2>2, <1>2 DEF Ecrire
  <2> QED
    BY <1>7, <2>1, <2>2 DEF ParDefautEnLot
<1>8. CASE \/ Candidats(q) \/ ListerRegles(q) \/ ChoisirSalaire(q) \/ ListerCredits(q)
           \/ Commencer(q) \/ Interrompre(q)
  <2>1. UNCHANGED lignes
    BY <1>8 DEF Candidats, ListerRegles, ChoisirSalaire, ListerCredits, Commencer, Interrompre,
                CreerRegle, Apparier, Choisir
  <2> QED
    BY <2>1, <1>1
<1> QED
  BY <1>1, <1>3, <1>4, <1>5, <1>6, <1>7, <1>8 DEF PasRequete, Poursuivre

LEMMA ChoixDansLesCategories ==
    ASSUME TablesSaines, Presence, PasCategorie
    PROVE  LignesRestent /\ \A t \in Transactions : Conserve(t)
<1>0. /\ lignes \in [Transactions -> Lignes]
      /\ categories \in [Categories -> {"aVenir", "existe", "supprimee"}]
  BY DEF TablesSaines, TypesTables
<1>1. ASSUME NEW c \in Categories, CreerCategorie(c)
      PROVE  LignesRestent /\ \A t \in Transactions : Conserve(t)
  BY <1>1, ChoixSiLignesIntactes DEF CreerCategorie
<1>2. ASSUME NEW c \in Categories, SupprimerCategorie(c)
      PROVE  LignesRestent /\ \A t \in Transactions : Conserve(t)
  <2>1. categories'[c] = "supprimee"
    BY <1>0, <1>2 DEF SupprimerCategorie
  <2>2. \A l \in Lignes : Liberee(l).statut = l.statut /\ Liberee(l).source = "none"
    BY DEF Liberee, Lignes
  <2>3. \A t \in Transactions :
          IF lignes[t].categorie = c THEN lignes'[t] = Liberee(lignes[t])
                                     ELSE lignes'[t] = lignes[t]
    BY <1>0, <1>2 DEF SupprimerCategorie, Ecrire
  <2> QED
    BY <1>0, <2>1, <2>2, <2>3 DEF Presence, LignesRestent, Conserve, Stockees
<1> QED
  BY <1>1, <1>2 DEF PasCategorie

LEMMA PasDesLignes ==
    ASSUME Invariant, Presence, [Next]_vars
    PROVE  LignesRestent /\ \A t \in Transactions : Conserve(t)
<1>1. TablesSaines /\ TachesSaines
  BY InvariantEnDeux
<1> QED
  BY <1>1, ChoixDansLeWorker, ChoixDansLesRequetes, ChoixDansLesCategories, ChoixSiLignesIntactes
     DEF Next, vars

(* The handlers go on holding rows that are there. *)
LEMMA PresenceInductive ==
    ASSUME Invariant, Presence, [Next]_vars
    PROVE  Presence'
<1>0. /\ req \in [Requetes -> Demandes]
      /\ TablesSaines /\ TachesSaines
      /\ Stockees \subseteq Stockees'
      /\ \A t \in Transactions : lignes'[t].source # "none" => t \in Stockees'
  BY PasDesLignes, InvariantEnDeux DEF TachesSaines, TypesTaches, LignesRestent
<1>1. ASSUME Worker PROVE Presence'
  <2>1. \A q \in Requetes : req'[q].cibles \subseteq Stockees'
    BY <1>0, <1>1 DEF Presence, Worker, Inserer, Confirmer, LireRegles, AppliquerRegle, EchecInsertion
  <2>2. insertion'.etape # "repos" => insertion'.tx \in Stockees'
    <3>1. ASSUME NEW t \in Transactions, Inserer(t) PROVE insertion'.tx \in Stockees'
      <4>1. PICK a \in Annonces[t] :
              /\ lignes' = [lignes EXCEPT ![t] = [Vierge EXCEPT !.statut = a.statut, !.datee = a.datee]]
              /\ insertion' = [Repos EXCEPT !.etape = "regles", !.tx = t]
        BY <3>1 DEF Inserer
      <4> QED
        BY <1>0, <4>1, ConstantesCategorisation
           DEF Stockees, Vierge, Repos, TablesSaines, TypesTables
    <3>2. CASE UNCHANGED insertion
      BY <1>0, <3>2 DEF Presence
    <3>3. CASE insertion' = Repos
      BY <3>3 DEF Repos
    <3>4. ASSUME LireRegles, insertion' # Repos PROVE insertion'.tx \in Stockees'
      BY <1>0, <3>4 DEF LireRegles, Presence, TachesSaines, TypesTaches
    <3> QED
      BY <1>1, <3>1, <3>2, <3>3, <3>4
         DEF Worker, Confirmer, AppliquerRegle, EchecInsertion
  <2> QED
    BY <1>0, <2>1, <2>2 DEF Presence
<1>2. ASSUME NEW q \in Requetes, PasRequete(q) PROVE Presence'
  <2>1. UNCHANGED insertion /\ \A p \in Requetes \ {q} : req'[p] = req[p]
    BY <1>0, <1>2
       DEF PasRequete, Commencer, Poursuivre, Interrompre, CreerRegle, Apparier, Choisir, Candidats,
           Suite, Terminer, Lot, Reinitialiser, Marquer, ListerRegles, ChoisirSalaire,
           ListerCredits, ParDefautEnLot, Ranger
  <2>2. req[q].cibles \subseteq Stockees /\ q \in DOMAIN req /\ Libre.cibles = {}
    BY <1>0 DEF Presence, Libre
  <2>3. ASSUME Candidats(q) PROVE req'[q].cibles \subseteq Stockees
    <3>1. PICK lus \in Plafonner(NonCategorisees) :
            LET cibles == {t \in lus : Correspond(req[q].regle, t)}
            IN  IF cibles = {} THEN Suite(q)
                ELSE req' = [req EXCEPT ![q].etape = "lot", ![q].cibles = cibles]
      BY <2>3 DEF Candidats
    <3>2. lus \subseteq Stockees
      BY <3>1 DEF Plafonner, kSubset, NonCategorisees
    <3> QED
      BY <1>0, <2>2, <3>1, <3>2 DEF Suite, Terminer, Demandes
  <2>4. ASSUME Apparier(q) PROVE req'[q].cibles \subseteq Stockees
    <3>1. Apparies(Mouvements) \subseteq Stockees
      BY DEF Apparies, Mouvements
    <3>2. req'[q] = [Libre EXCEPT !.etape = "reinitialiser", !.tache = "reconciliation",
                                  !.cibles = Apparies(Mouvements)]
      BY <2>2, <2>4 DEF Apparier
    <3> QED
      BY <3>1, <3>2 DEF Libre
  <2>5. ASSUME ListerCredits(q) PROVE req'[q].cibles \subseteq Stockees
    <3>1. PICK lus \in Plafonner(CreditsNonCategorises) :
            LET credits == {t \in lus : Donnees[t].montant >= 0}
            IN  IF credits = {} THEN Terminer(q)
                ELSE req' = [req EXCEPT ![q].etape = "defaut", ![q].cibles = credits]
      BY <2>5 DEF ListerCredits
    <3>2. lus \subseteq Stockees
      BY <3>1 DEF Plafonner, kSubset, CreditsNonCategorises
    <3>3. CASE Terminer(q)
      BY <1>0, <2>2, <3>3 DEF Terminer
    <3>4. CASE req' = [req EXCEPT ![q].etape = "defaut",
                                  ![q].cibles = {t \in lus : Donnees[t].montant >= 0}]
      <4>1. req'[q].cibles = {t \in lus : Donnees[t].montant >= 0}
        BY <1>0, <3>4 DEF Demandes
      <4> QED
        BY <3>2, <4>1
    <3> QED
      BY <3>1, <3>3, <3>4
  <2>6. ASSUME NEW t \in Transactions, NEW c \in Categories, Choisir(q, t, c)
        PROVE  req'[q].cibles \subseteq Stockees
    BY <2>2, <2>6 DEF Choisir, Libre
  <2>7. ASSUME NEW r \in Regles, CreerRegle(q, r) PROVE req'[q].cibles \subseteq Stockees
    BY <2>2, <2>7 DEF CreerRegle, Libre
  <2>8. ASSUME \/ Lot(q) \/ Ranger(q) \/ ParDefautEnLot(q) \/ Interrompre(q)
               \/ Reinitialiser(q) \/ Marquer(q) \/ ChoisirSalaire(q)
        PROVE  req'[q].cibles \subseteq Stockees
    <3>1. CASE Terminer(q)
      BY <1>0, <2>2, <3>1 DEF Terminer
    <3>2. CASE Suite(q) /\ ~Terminer(q)
      BY <1>0, <2>2, <3>2 DEF Suite, Demandes
    <3>3. CASE Reinitialiser(q) \/ Marquer(q)
      BY <1>0, <2>2, <3>3 DEF Reinitialiser, Marquer, Demandes
    <3>4. CASE ChoisirSalaire(q) /\ ~Terminer(q)
      BY <1>0, <2>2, <3>4 DEF ChoisirSalaire, Demandes
    <3> QED
      BY <2>8, <3>1, <3>2, <3>3, <3>4 DEF Lot, Ranger, ParDefautEnLot, Interrompre
  <2>9. ASSUME ListerRegles(q) PROVE req'[q].cibles \subseteq Stockees
    <3>1. PICK file \in Listes :
            req' = [req EXCEPT ![q] = IF file = <<>> THEN [req[q] EXCEPT !.etape = "salaire"]
                                      ELSE [req[q] EXCEPT !.etape = "candidats", !.regle = Head(file),
                                                          !.file = Tail(file)]]
      BY <2>2, <2>9 DEF ListerRegles
    <3>2. req'[q].cibles = req[q].cibles
      BY <1>0, <3>1 DEF Demandes
    <3> QED
      BY <2>2, <3>2
  <2>10. req'[q].cibles \subseteq Stockees
    BY <1>2, <2>3, <2>4, <2>5, <2>6, <2>7, <2>8, <2>9 DEF PasRequete, Commencer, Poursuivre
  <2> QED
    BY <1>0, <2>1, <2>10 DEF Presence
<1>3. ASSUME PasCategorie \/ UNCHANGED vars PROVE Presence'
  BY <1>0, <1>3 DEF Presence, PasCategorie, CreerCategorie, SupprimerCategorie, vars
<1> QED
  BY <1>1, <1>2, <1>3 DEF Next

LEMMA PresenceInit == Init => Presence
BY DEF Init, Presence, Stockees, Vierge, Libre, Repos

(* A choice made by hand survives every race: only its owner, or the        *)
(* deletion of the category, changes it (bank_transactions.rs).             *)
THEOREM ChoixManuelToujoursConserve == Spec => ChoixManuelConserve
<1>1. Invariant /\ Presence /\ [Next]_vars => \A t \in Transactions : Conserve(t)
  BY PasDesLignes
<1>2. Spec => [](Invariant /\ Presence)
  BY InvariantInit, PresenceInit, InvariantInductif, PresenceInductive, PTL DEF Spec
<1>3. Invariant /\ Presence /\ [Next]_vars =>
        [\A t \in Transactions :
           /\ lignes[t].source = "manual"
           /\ <<lignes[t].categorie, lignes[t].source, lignes[t].regle>>
                # <<lignes'[t].categorie, lignes'[t].source, lignes'[t].regle>>
           => \/ ~(categories'[lignes[t].categorie] = "existe")
              \/ \E q \in Requetes : req[q].etape = "ranger" /\ req[q].cibles = {t}]_vars
  BY <1>1 DEF Conserve
<1> QED
  BY <1>2, <1>3, PTL DEF Spec, ChoixManuelConserve

-------------------------------------------------------------------------------
(* LIMITE_RETROACTIF is large enough for the rows of the owner. *)
LimiteSuffisante == IsFiniteSet(Transactions) /\ Cardinality(Transactions) <= Limite

LEMMA RienDePlafonne ==
    ASSUME LimiteSuffisante, NEW S \in SUBSET Transactions
    PROVE  Plafonner(S) = {S}
<1>1. IsFiniteSet(S) /\ Cardinality(S) <= Cardinality(Transactions)
  BY FS_Subset DEF LimiteSuffisante
<1>2. Cardinality(S) \in Nat /\ Cardinality(Transactions) \in Nat
  BY <1>1, FS_CardinalityType DEF LimiteSuffisante
<1>3. Cardinality(S) <= Limite
  BY <1>1, <1>2, ConstantesCategorisation DEF LimiteSuffisante
<1> QED
  BY <1>3 DEF Plafonner

(* A rule is created in a category that is there. *)
JamaisAVenir == \A r \in Range(regles) : categories[RegleDe[r].categorie] # "aVenir"

(* The rules a request has yet to apply, and the rows it will give rule r. *)
ResteAFaire(q) == {req[q].regle} \cup Range(req[q].file)

Couvre(q, t, r) ==
    \/ req[q].etape \in {"marquer", "regles"}
    \/ req[q].etape = "candidats" /\ r \in ResteAFaire(q)
    \/ req[q].etape = "lot" /\ (t \in req[q].cibles \/ r \in Range(req[q].file))

EnInsertion(t) == insertion.etape # "repos" /\ insertion.tx = t

(* A row that lacks the category of a rule is in somebody's hands. *)
EnBonnesMains(t, r) == EnInsertion(t) \/ \E q \in Requetes : Couvre(q, t, r)

Rattrapage ==
    ~incident => \A t \in NonCategorisees, r \in EnVigueur :
                   Correspond(r, t) => EnBonnesMains(t, r)

LEMMA TeteEtReste ==
    ASSUME NEW s \in Seq(Regles), s # <<>>
    PROVE  Range(s) = {Head(s)} \cup Range(Tail(s))
<1>1. ASSUME NEW x \in Range(s) PROVE x \in {Head(s)} \cup Range(Tail(s))
  <2>1. PICK i \in 1..Len(s) : x = s[i]
    BY DEF Range
  <2>2. CASE i = 1
    BY <2>1, <2>2
  <2>3. CASE i # 1
    <3>1. i - 1 \in DOMAIN Tail(s) /\ Tail(s)[i - 1] = x
      BY <2>1, <2>3
    <3> QED
      BY <3>1 DEF Range
  <2> QED
    BY <2>2, <2>3
<1>2. Head(s) \in Range(s)
  BY DEF Range
<1>3. ASSUME NEW x \in Range(Tail(s)) PROVE x \in Range(s)
  <2>1. PICK i \in DOMAIN Tail(s) : x = Tail(s)[i]
    BY DEF Range
  <2>2. i + 1 \in DOMAIN s /\ s[i + 1] = x
    BY <2>1
  <2> QED
    BY <2>2 DEF Range
<1> QED
  BY <1>1, <1>2, <1>3

(* What a step owes the rows: whoever lacks a rule after it lacked it before *)
(* it, and is still in good hands. *)
LEMMA RattrapageSiTablesIntactes ==
    ASSUME Rattrapage, ~incident' => ~incident,
           NonCategorisees' \subseteq NonCategorisees, EnVigueur' \subseteq EnVigueur,
           \A t \in NonCategorisees', r \in EnVigueur :
              Correspond(r, t) /\ EnBonnesMains(t, r) => EnBonnesMains(t, r)'
    PROVE  Rattrapage'
BY DEF Rattrapage, Correspond

LEMMA TablesLuesIntactes ==
    ASSUME UNCHANGED <<lignes, categories, regles>>
    PROVE  NonCategorisees' = NonCategorisees /\ EnVigueur' = EnVigueur /\ Stockees' = Stockees
BY DEF NonCategorisees, EnVigueur, Stockees, Existe

(* One request moves: the others hold what they held. *)
LEMMA MainsDesAutres ==
    ASSUME req \in [Requetes -> Demandes], NEW q \in Requetes,
           \A p \in Requetes \ {q} : req'[p] = req[p], UNCHANGED insertion,
           NEW t, NEW r, EnBonnesMains(t, r), Couvre(q, t, r) => Couvre(q, t, r)'
    PROVE  EnBonnesMains(t, r)'
<1>1. ASSUME NEW p \in Requetes \ {q}, Couvre(p, t, r) PROVE Couvre(p, t, r)'
  <2>1. req'[p] = req[p]
    OBVIOUS
  <2> QED
    BY <1>1, <2>1 DEF Couvre, ResteAFaire
<1>2. EnInsertion(t) => EnInsertion(t)'
  BY DEF EnInsertion
<1> QED
  BY <1>1, <1>2 DEF EnBonnesMains

(* The rules that were left in the file are still to be applied. *)
LEMMA SuiteDeLaFile ==
    ASSUME req \in [Requetes -> Demandes], NEW q \in Requetes, Suite(q),
           NEW t, NEW r, r \in Range(req[q].file)
    PROVE  Couvre(q, t, r)'
<1>1. req[q].file \in Seq(Regles)
  BY DEF Demandes
<1>2. req[q].file # <<>>
  BY DEF Range
<1>3. req' = [req EXCEPT ![q].etape = "candidats", ![q].regle = Head(req[q].file),
                         ![q].file = Tail(req[q].file), ![q].cibles = {}]
  BY <1>2 DEF Suite
<1>4. /\ req'[q].etape = "candidats" /\ req'[q].regle = Head(req[q].file)
      /\ req'[q].file = Tail(req[q].file)
  BY <1>3 DEF Demandes
<1>5. r \in {Head(req[q].file)} \cup Range(Tail(req[q].file))
  BY <1>1, <1>2, TeteEtReste
<1> QED
  BY <1>4, <1>5 DEF Couvre, ResteAFaire

LEMMA SuiteDUneSeule ==
    ASSUME req \in [Requetes -> Demandes], NEW q \in Requetes, Suite(q) \/ Terminer(q)
    PROVE  \A p \in Requetes \ {q} : req'[p] = req[p]
BY DEF Suite, Terminer

(* The UPDATE of a rule, what it writes and what it leaves. *)
RegleEcrite(S, c, r) ==
    lignes' = [t \in Transactions |-> IF t \in S THEN ParRegle(c, r, lignes[t]) ELSE lignes[t]]

LEMMA ColonnesParRegle ==
    ASSUME lignes \in [Transactions -> Lignes], NEW S, NEW c, NEW r, RegleEcrite(S, c, r),
           NEW t \in Transactions
    PROVE  /\ lignes'[t].statut = lignes[t].statut /\ lignes'[t].datee = lignes[t].datee
           /\ lignes'[t].interne = lignes[t].interne
           /\ t \in S => lignes'[t].categorie = c /\ lignes'[t].source = "rule"
           /\ t \notin S => lignes'[t] = lignes[t]
<1>1. lignes[t] \in Lignes
  OBVIOUS
<1>2. t \in S => lignes'[t] = ParRegle(c, r, lignes[t])
  BY DEF RegleEcrite
<1>3. t \notin S => lignes'[t] = lignes[t]
  BY DEF RegleEcrite
<1> QED
  BY <1>1, <1>2, <1>3 DEF ParRegle, Lignes

(* The worker hands the row over to a rule, or there was none. *)
LEMMA RattrapageDansLeWorker ==
    ASSUME TablesSaines, TachesSaines, Rattrapage, Worker
    PROVE  Rattrapage'
<1>0. /\ lignes \in [Transactions -> Lignes]
      /\ \A t \in Transactions : LigneCoherente(lignes[t])
      /\ insertion \in [etape : {"repos", "regles", "appliquer"},
                        tx : Transactions \cup {Sans}, regle : Regles \cup {Sans}]
      /\ InsertionCoherente
  BY DEF TablesSaines, TypesTables, TachesSaines, TypesTaches
<1>1. ASSUME NEW t \in Transactions, Inserer(t) PROVE Rattrapage'
  <2>1. PICK a \in Annonces[t] :
          /\ lignes' = [lignes EXCEPT ![t] =
                          [Vierge EXCEPT !.statut = a.statut, !.datee = a.datee]]
          /\ insertion = Repos
          /\ insertion' = [Repos EXCEPT !.etape = "regles", !.tx = t]
          /\ UNCHANGED <<categories, regles, req, incident>>
    BY <1>1 DEF Inserer
  <2>2. \A u \in NonCategorisees' : u = t \/ u \in NonCategorisees
    BY <1>0, <2>1 DEF NonCategorisees, Stockees
  <2>3. EnVigueur' = EnVigueur
    BY <2>1 DEF EnVigueur, Existe
  <2>4. EnInsertion(t)'
    BY <2>1 DEF EnInsertion, Repos
  <2>5. ASSUME NEW u, NEW r, EnBonnesMains(u, r) PROVE EnBonnesMains(u, r)'
    <3>1. ~EnInsertion(u)
      BY <2>1 DEF EnInsertion, Repos
    <3> QED
      BY <2>1, <2>5, <3>1 DEF EnBonnesMains, Couvre, ResteAFaire
  <2> QED
    BY <2>1, <2>2, <2>3, <2>4, <2>5 DEF Rattrapage, EnBonnesMains, Correspond
<1>2. ASSUME NEW t \in Transactions, Confirmer(t) PROVE Rattrapage'
  <2>1. PICK a \in Annonces[t] :
          /\ lignes[t].statut = "pending"
          /\ lignes' = [lignes EXCEPT ![t].statut = "booked", ![t].datee = a.datee]
          /\ UNCHANGED <<categories, regles, insertion, req, incident>>
    BY <1>2 DEF Confirmer
  <2>2. \A u \in Transactions :
          /\ lignes'[u].categorie = lignes[u].categorie
          /\ lignes'[u].interne = lignes[u].interne
          /\ lignes'[u].statut = "absente" <=> lignes[u].statut = "absente"
    BY <1>0, <2>1 DEF Lignes
  <2>3. NonCategorisees' = NonCategorisees /\ EnVigueur' = EnVigueur
    <3>1. Stockees' = Stockees
      BY <2>2 DEF Stockees
    <3>2. NonCategorisees' = NonCategorisees
      BY <2>2, <3>1 DEF NonCategorisees, Stockees
    <3>3. EnVigueur' = EnVigueur
      BY <2>1 DEF EnVigueur, Existe
    <3> QED
      BY <3>2, <3>3
  <2>4. ASSUME NEW u, NEW r, EnBonnesMains(u, r) PROVE EnBonnesMains(u, r)'
    BY <2>1, <2>4 DEF EnBonnesMains, EnInsertion, Couvre, ResteAFaire
  <2> QED
    BY <2>1, <2>3, <2>4, RattrapageSiTablesIntactes
<1>3. ASSUME LireRegles PROVE Rattrapage'
  <2>1. UNCHANGED <<lignes, categories, regles, req, incident>>
    BY <1>3 DEF LireRegles
  <2>2. NonCategorisees' = NonCategorisees /\ EnVigueur' = EnVigueur
    BY <2>1, TablesLuesIntactes
  <2>3. ASSUME NEW t, NEW r \in EnVigueur, Correspond(r, t), EnInsertion(t)
        PROVE  EnInsertion(t)'
    <3>1. PICK s \in Regles : insertion' = [insertion EXCEPT !.etape = "appliquer", !.regle = s]
      BY <1>3, <2>3 DEF LireRegles, EnInsertion
    <3> QED
      BY <1>0, <2>3, <3>1 DEF EnInsertion
  <2>4. ASSUME NEW t, NEW r \in EnVigueur, Correspond(r, t), EnBonnesMains(t, r)
        PROVE  EnBonnesMains(t, r)'
    BY <2>1, <2>3, <2>4 DEF EnBonnesMains, Couvre, ResteAFaire
  <2> QED
    BY <2>1, <2>2, <2>4, RattrapageSiTablesIntactes
<1>4. ASSUME AppliquerRegle, ~incident' PROVE Rattrapage'
  <2> DEFINE r == insertion.regle
             c == RegleDe[r].categorie
             S == Touchee(insertion.tx)
  <2>1. /\ insertion.etape = "appliquer" /\ insertion' = Repos
        /\ UNCHANGED <<categories, regles, req, incident>>
        /\ RegleEcrite(S, c, r)
    BY <1>4 DEF AppliquerRegle, Ecrire, RegleEcrite
  <2>2. r \in Range(regles) /\ insertion.tx \in Transactions
    BY <1>0, <2>1 DEF InsertionCoherente
  <2>3. c \in Categories
    BY <2>2, ConstantesCategorisation DEF TablesSaines, TypesTables, Range
  <2>4. \A t \in Transactions :
          /\ lignes'[t].statut = lignes[t].statut /\ lignes'[t].interne = lignes[t].interne
          /\ t \in S => lignes'[t].categorie = c
          /\ t \notin S => lignes'[t] = lignes[t]
    BY <1>0, <2>1, ColonnesParRegle
  <2>5. c # Sans
    BY <2>3, ConstantesCategorisation
  <2>6. NonCategorisees' \subseteq NonCategorisees \ S
    BY <2>4, <2>5 DEF NonCategorisees, Stockees
  <2>7. insertion.tx \notin NonCategorisees \ S
    <3>1. CASE lignes[insertion.tx].source = "manual"
      BY <1>0, <2>2, <3>1 DEF LigneCoherente, NonCategorisees
    <3>2. CASE lignes[insertion.tx].source # "manual"
      BY <2>2, <3>2 DEF Touchee
    <3> QED
      BY <3>1, <3>2
  <2>8. EnVigueur' = EnVigueur
    BY <2>1 DEF EnVigueur, Existe
  <2>9. ASSUME NEW t \in NonCategorisees', NEW s, EnBonnesMains(t, s)
        PROVE  EnBonnesMains(t, s)'
    <3>1. ~EnInsertion(t)
      BY <2>6, <2>7 DEF EnInsertion
    <3> QED
      BY <2>1, <2>9, <3>1 DEF EnBonnesMains, Couvre, ResteAFaire
  <2> QED
    BY <2>1, <2>6, <2>8, <2>9, RattrapageSiTablesIntactes
<1>5. ASSUME EchecInsertion PROVE Rattrapage'
  BY <1>5 DEF EchecInsertion, Rattrapage
<1>6. incident' => Rattrapage'
  BY DEF Rattrapage
<1> QED
  BY <1>1, <1>2, <1>3, <1>4, <1>5, <1>6 DEF Worker

LEMMA NonCategoriseesStockees == NonCategorisees \subseteq Transactions
BY DEF NonCategorisees, Stockees

(* The requests that read. *)
LEMMA RattrapageEnLecture ==
    ASSUME TablesSaines, TachesSaines, LimiteSuffisante, Rattrapage, NEW q \in Requetes,
           \/ Candidats(q) \/ Apparier(q) \/ ListerRegles(q) \/ ChoisirSalaire(q)
           \/ ListerCredits(q)
           \/ \E t \in Transactions, c \in Categories : Choisir(q, t, c)
    PROVE  Rattrapage'
<1>0. req \in [Requetes -> Demandes] /\ req[q] \in Demandes /\ req[q].file \in Seq(Regles)
  BY DEF TachesSaines, TypesTaches, Demandes
<1>1. UNCHANGED <<lignes, categories, regles, insertion, incident>>
  BY DEF Candidats, Apparier, ListerRegles, ChoisirSalaire, ListerCredits, Choisir
<1>2. NonCategorisees' = NonCategorisees /\ EnVigueur' = EnVigueur
  BY <1>1, TablesLuesIntactes
<1>3. \A p \in Requetes \ {q} : req'[p] = req[p]
  <2>1. CASE Suite(q) \/ Terminer(q)
    BY <1>0, <2>1, SuiteDUneSeule
  <2>2. CASE \E d \in {req'[q]} : req' = [req EXCEPT ![q] = d]
    BY <2>2
  <2>3. Suite(q) \/ Terminer(q) \/ \E d \in {req'[q]} : req' = [req EXCEPT ![q] = d]
    <3>1. CASE Candidats(q)
      BY <1>0, <3>1 DEF Candidats
    <3>2. CASE Apparier(q)
      BY <1>0, <3>2 DEF Apparier
    <3>3. CASE ListerRegles(q)
      BY <1>0, <3>3 DEF ListerRegles
    <3>4. CASE ChoisirSalaire(q)
      BY <1>0, <3>4 DEF ChoisirSalaire
    <3>5. CASE ListerCredits(q)
      BY <1>0, <3>5 DEF ListerCredits
    <3>6. ASSUME NEW t \in Transactions, NEW c \in Categories, Choisir(q, t, c)
          PROVE  \E d \in {req'[q]} : req' = [req EXCEPT ![q] = d]
      BY <1>0, <3>6 DEF Choisir
    <3> QED
      BY <3>1, <3>2, <3>3, <3>4, <3>5, <3>6
  <2> QED
    BY <2>1, <2>2, <2>3
<1>4. ASSUME NEW t \in NonCategorisees, NEW r \in EnVigueur, Correspond(r, t), Couvre(q, t, r)
      PROVE  Couvre(q, t, r)'
  <2>1. CASE Candidats(q)
    <3>1. Plafonner(NonCategorisees) = {NonCategorisees}
      BY NonCategoriseesStockees, RienDePlafonne
    <3> DEFINE cibles == {u \in NonCategorisees : Correspond(req[q].regle, u)}
    <3>2. IF cibles = {} THEN Suite(q)
          ELSE req' = [req EXCEPT ![q].etape = "lot", ![q].cibles = cibles]
      BY <2>1, <3>1 DEF Candidats
    <3>3. req[q].etape = "candidats" /\ r \in ResteAFaire(q)
      BY <1>4, <2>1 DEF Candidats, Couvre
    <3>4. CASE r = req[q].regle
      <4>1. t \in cibles
        BY <1>4, <3>4
      <4>2. req'[q].etape = "lot" /\ req'[q].cibles = cibles
        BY <1>0, <3>2, <4>1 DEF Demandes
      <4> QED
        BY <4>1, <4>2 DEF Couvre
    <3>5. CASE r \in Range(req[q].file)
      <4>1. CASE Suite(q)
        BY <1>0, <3>5, <4>1, SuiteDeLaFile
      <4>2. CASE req' = [req EXCEPT ![q].etape = "lot", ![q].cibles = cibles]
        BY <1>0, <3>5, <4>2 DEF Couvre, Demandes
      <4> QED
        BY <3>2, <4>1, <4>2
    <3> QED
      BY <3>3, <3>4, <3>5 DEF ResteAFaire
  <2>2. CASE ListerRegles(q)
    <3>1. PICK file \in Listes :
            req' = [req EXCEPT ![q] = IF file = <<>> THEN [req[q] EXCEPT !.etape = "salaire"]
                                      ELSE [req[q] EXCEPT !.etape = "candidats", !.regle = Head(file),
                                                          !.file = Tail(file)]]
      BY <2>2 DEF ListerRegles
    <3>2. Range(file) = EnVigueur
      BY DEF Listes
    <3>3. file # <<>>
      BY <3>2 DEF Range
    <3>4. file \in Seq(Regles)
      <4>1. EnVigueur \subseteq Regles
        BY DEF EnVigueur, TablesSaines, TypesTables, Range
      <4>2. PICK n \in 0..Len(regles) : file \in [1..n -> EnVigueur]
        BY <3>1 DEF Listes
      <4>3. n \in Nat
        BY <4>2 DEF TablesSaines, TypesTables
      <4> QED
        BY <4>1, <4>2, <4>3
    <3>5. r \in {Head(file)} \cup Range(Tail(file))
      BY <3>2, <3>3, <3>4, TeteEtReste
    <3>6. /\ req'[q].etape = "candidats" /\ req'[q].regle = Head(file)
          /\ req'[q].file = Tail(file)
      BY <1>0, <3>1, <3>3 DEF Demandes
    <3> QED
      BY <3>5, <3>6 DEF Couvre, ResteAFaire
  <2>3. ~Apparier(q) /\ ~ChoisirSalaire(q) /\ ~ListerCredits(q)
    BY <1>4 DEF Apparier, ChoisirSalaire, ListerCredits, Couvre, Libre
  <2>4. \A u \in Transactions, c \in Categories : ~Choisir(q, u, c)
    <3>1. \A u \in Transactions, c \in Categories : Choisir(q, u, c) => req[q] = Libre
      BY DEF Choisir
    <3>2. req[q] # Libre
      BY <1>4 DEF Couvre, Libre
    <3> QED
      BY <3>1, <3>2
  <2> QED
    BY <2>1, <2>2, <2>3, <2>4
<1>5. ASSUME NEW t \in NonCategorisees, NEW r \in EnVigueur, Correspond(r, t), EnBonnesMains(t, r)
      PROVE  EnBonnesMains(t, r)'
  BY <1>0, <1>1, <1>3, <1>4, <1>5, MainsDesAutres
<1> QED
  BY <1>1, <1>2, <1>5, RattrapageSiTablesIntactes

(* A rule that is created is going to be applied. *)
LEMMA RattrapageParCreation ==
    ASSUME TablesSaines, TachesSaines, Rattrapage, NEW q \in Requetes, NEW r \in Regles,
           CreerRegle(q, r)
    PROVE  Rattrapage'
<1>0. req \in [Requetes -> Demandes] /\ regles \in Seq(Regles)
  BY DEF TachesSaines, TypesTaches, TablesSaines, TypesTables
<1>1. /\ req[q] = Libre /\ regles' = Append(regles, r)
      /\ req' = [req EXCEPT ![q] = [Libre EXCEPT !.etape = "candidats", !.tache = "regle",
                                                 !.regle = r]]
      /\ UNCHANGED <<lignes, categories, insertion, incident>>
  BY DEF CreerRegle
<1>2. NonCategorisees' = NonCategorisees
  BY <1>1 DEF NonCategorisees, Stockees
<1>3. EnVigueur' \subseteq EnVigueur \cup {r}
  <2>1. Range(regles') \subseteq Range(regles) \cup {r}
    BY <1>0, <1>1 DEF Range
  <2> QED
    BY <1>1, <2>1 DEF EnVigueur, Existe
<1>4. \A t : Couvre(q, t, r)'
  <2>1. req'[q].etape = "candidats" /\ req'[q].regle = r
    BY <1>0, <1>1 DEF Libre
  <2> QED
    BY <2>1 DEF Couvre, ResteAFaire
<1>5. \A t, s : ~Couvre(q, t, s)
  BY <1>1 DEF Couvre, Libre
<1>6. \A p \in Requetes \ {q} : req'[p] = req[p]
  BY <1>0, <1>1
<1>7. \A t, s : EnBonnesMains(t, s) => EnBonnesMains(t, s)'
  BY <1>0, <1>1, <1>5, <1>6, MainsDesAutres
<1>8. \A t : EnBonnesMains(t, r)'
  BY <1>4 DEF EnBonnesMains
<1> QED
  BY <1>1, <1>2, <1>3, <1>7, <1>8 DEF Rattrapage, Correspond

(* The batch of a rule gives the rule to the rows it holds. *)
LEMMA RattrapageParLot ==
    ASSUME TablesSaines, TachesSaines, Rattrapage, NEW q \in Requetes, Lot(q), ~incident'
    PROVE  Rattrapage'
<1> DEFINE r == req[q].regle
           c == RegleDe[r].categorie
           S == Touchees(req[q].cibles)
<1>0. /\ lignes \in [Transactions -> Lignes]
      /\ \A t \in Transactions : LigneCoherente(lignes[t])
      /\ req \in [Requetes -> Demandes]
      /\ DemandeCoherente(q)
  BY DEF TablesSaines, TypesTables, TachesSaines, TypesTaches
<1>1. /\ req[q].etape = "lot"
      /\ RegleEcrite(S, c, r)
      /\ Suite(q) /\ UNCHANGED <<categories, regles, insertion, incident>>
  BY DEF Lot, Ecrire, RegleEcrite
<1>2. r \in Range(regles)
  BY <1>0, <1>1 DEF DemandeCoherente
<1>3. c # Sans
  BY <1>2, ConstantesCategorisation DEF TablesSaines, TypesTables, Range
<1>4. \A t \in Transactions :
        /\ lignes'[t].statut = lignes[t].statut /\ lignes'[t].interne = lignes[t].interne
        /\ t \in S => lignes'[t].categorie = c
        /\ t \notin S => lignes'[t] = lignes[t]
  BY <1>0, <1>1, ColonnesParRegle
<1>5. NonCategorisees' \subseteq NonCategorisees \ S
  BY <1>3, <1>4 DEF NonCategorisees, Stockees
<1>6. ASSUME NEW t \in NonCategorisees, t \in req[q].cibles PROVE t \in S
  <2>1. t \in Transactions /\ lignes[t].categorie = Sans
    BY DEF NonCategorisees, Stockees
  <2>2. lignes[t].source = "none"
    BY <1>0, <2>1 DEF LigneCoherente
  <2> QED
    BY <1>6, <2>2 DEF Touchees
<1>7. EnVigueur' = EnVigueur
  BY <1>1 DEF EnVigueur, Existe
<1>8. \A p \in Requetes \ {q} : req'[p] = req[p]
  BY <1>0, <1>1, SuiteDUneSeule
<1>9. ASSUME NEW t \in NonCategorisees', NEW s, EnBonnesMains(t, s)
      PROVE  EnBonnesMains(t, s)'
  <2>1. Couvre(q, t, s) => s \in Range(req[q].file)
    BY <1>1, <1>5, <1>6 DEF Couvre
  <2>2. Couvre(q, t, s) => Couvre(q, t, s)'
    BY <1>0, <1>1, <2>1, SuiteDeLaFile
  <2> QED
    BY <1>0, <1>1, <1>8, <1>9, <2>2, MainsDesAutres
<1> QED
  BY <1>1, <1>5, <1>7, <1>9, RattrapageSiTablesIntactes

(* Between the reset and the rules, the call itself answers for every row. *)
LEMMA RattrapageParMarques ==
    ASSUME TablesSaines, TachesSaines, Rattrapage, NEW q \in Requetes,
           Reinitialiser(q) \/ Marquer(q)
    PROVE  Rattrapage'
<1>0. req \in [Requetes -> Demandes]
  BY DEF TachesSaines, TypesTaches
<1>1. req'[q].etape \in {"marquer", "regles"}
  BY <1>0 DEF Reinitialiser, Marquer, Demandes
<1>2. \A t, r : EnBonnesMains(t, r)'
  BY <1>1 DEF EnBonnesMains, Couvre
<1> QED
  BY <1>2 DEF Rattrapage

(* The default category and the choice of the user fill, and take nothing. *)
LEMMA RattrapageParRangement ==
    ASSUME TablesSaines, TachesSaines, Rattrapage, NEW q \in Requetes,
           ParDefautEnLot(q) \/ Ranger(q)
    PROVE  Rattrapage'
<1>0. /\ lignes \in [Transactions -> Lignes]
      /\ req \in [Requetes -> Demandes]
      /\ DemandeCoherente(q)
  BY DEF TablesSaines, TypesTables, TachesSaines, TypesTaches
<1>1. /\ req[q].etape \in {"defaut", "ranger"} /\ Terminer(q)
      /\ UNCHANGED <<categories, regles, insertion>>
      /\ incident = TRUE => incident' = TRUE
  BY DEF ParDefautEnLot, Ranger
<1>2. req[q].categorie # Sans
  BY <1>0, <1>1, ConstantesCategorisation DEF DemandeCoherente
<1>3. NonCategorisees' \subseteq NonCategorisees
  <2>1. CASE UNCHANGED lignes
    BY <1>1, <2>1, TablesLuesIntactes
  <2>2. CASE ParDefautEnLot(q) /\ ~UNCHANGED lignes
    <3> DEFINE c == req[q].categorie
               S == Touchees(req[q].cibles)
    <3>1. RegleEcrite(S, c, Sans)
      BY <2>2 DEF ParDefautEnLot, Ecrire, RegleEcrite
    <3>2. \A t \in Transactions :
            /\ lignes'[t].statut = lignes[t].statut /\ lignes'[t].interne = lignes[t].interne
            /\ t \in S => lignes'[t].categorie = c
            /\ t \notin S => lignes'[t] = lignes[t]
      BY <1>0, <3>1, ColonnesParRegle
    <3> QED
      BY <1>2, <3>2 DEF NonCategorisees, Stockees
  <2>3. CASE Ranger(q) /\ ~UNCHANGED lignes
    <3> DEFINE Rangee(l) == [l EXCEPT !.categorie = req[q].categorie, !.source = "manual",
                                      !.regle = Sans,
                                      !.interne = (req[q].categorie = VirementsInternes)]
    <3>1. lignes' = [t \in Transactions |-> IF t \in req[q].cibles THEN Rangee(lignes[t])
                                            ELSE lignes[t]]
      BY <2>3 DEF Ranger, Ecrire
    <3>2. \A t \in Transactions : lignes'[t] = Rangee(lignes[t]) \/ lignes'[t] = lignes[t]
      BY <3>1
    <3>3. \A l \in Lignes : Rangee(l).statut = l.statut /\ Rangee(l).categorie = req[q].categorie
      BY DEF Lignes
    <3> HIDE DEF Rangee
    <3>4. \A t \in Transactions : \/ lignes'[t] = lignes[t]
                                  \/ lignes'[t].categorie = req[q].categorie
      BY <1>0, <3>2, <3>3
    <3> QED
      BY <1>0, <1>2, <3>2, <3>3, <3>4 DEF NonCategorisees, Stockees
  <2> QED
    BY <2>1, <2>2, <2>3
<1>4. EnVigueur' = EnVigueur
  BY <1>1 DEF EnVigueur, Existe
<1>5. \A p \in Requetes \ {q} : req'[p] = req[p]
  BY <1>0, <1>1, SuiteDUneSeule
<1>6. \A t, r : ~Couvre(q, t, r)
  BY <1>1 DEF Couvre
<1>7. \A t, r : EnBonnesMains(t, r) => EnBonnesMains(t, r)'
  BY <1>0, <1>1, <1>5, <1>6, MainsDesAutres
<1>8. ~incident' => ~incident
  BY <1>1 DEF TachesSaines, TypesTaches
<1> QED
  BY <1>3, <1>4, <1>7, <1>8, RattrapageSiTablesIntactes

(* A category that appears gives no rule its force back. *)
LEMMA RattrapageParCategorie ==
    ASSUME TablesSaines, JamaisAVenir, Rattrapage, PasCategorie
    PROVE  Rattrapage'
<1>1. ASSUME NEW c \in Categories, CreerCategorie(c) PROVE Rattrapage'
  <2>1. /\ categories[c] = "aVenir" /\ categories' = [categories EXCEPT ![c] = "existe"]
        /\ UNCHANGED <<lignes, regles, insertion, req, incident>>
    BY <1>1 DEF CreerCategorie
  <2>2. EnVigueur' \subseteq EnVigueur
    <3>1. ASSUME NEW r \in Range(regles) PROVE RegleDe[r].categorie # c
      BY <2>1 DEF JamaisAVenir
    <3>2. \A d \in Categories \ {c} : categories'[d] = categories[d]
      BY <2>1 DEF TablesSaines, TypesTables
    <3>3. ASSUME NEW r \in Range(regles) PROVE RegleDe[r].categorie \in Categories
      BY ConstantesCategorisation DEF TablesSaines, TypesTables, Range
    <3> QED
      BY <2>1, <3>1, <3>2, <3>3 DEF EnVigueur, Existe
  <2>3. NonCategorisees' = NonCategorisees
    BY <2>1 DEF NonCategorisees, Stockees
  <2>4. \A t, r : EnBonnesMains(t, r) => EnBonnesMains(t, r)'
    BY <2>1 DEF EnBonnesMains, EnInsertion, Couvre, ResteAFaire
  <2> QED
    BY <2>1, <2>2, <2>3, <2>4, RattrapageSiTablesIntactes
<1>2. ASSUME NEW c \in Categories, SupprimerCategorie(c) PROVE Rattrapage'
  BY <1>2 DEF SupprimerCategorie, Rattrapage
<1> QED
  BY <1>1, <1>2 DEF PasCategorie

LEMMA JamaisAVenirStable ==
    ASSUME TablesSaines, JamaisAVenir, [Next]_vars
    PROVE  JamaisAVenir'
<1>0. /\ regles \in Seq(Regles) /\ categories \in [Categories -> {"aVenir", "existe", "supprimee"}]
      /\ \A r \in Regles : RegleDe[r].categorie \in Categories
  BY ConstantesCategorisation DEF TablesSaines, TypesTables
<1>1. ASSUME NEW q \in Requetes, NEW r \in Regles, CreerRegle(q, r) PROVE JamaisAVenir'
  <2>1. Range(regles') \subseteq Range(regles) \cup {r}
    BY <1>0, <1>1 DEF CreerRegle, Range
  <2>2. UNCHANGED categories /\ Existe(RegleDe[r].categorie)
    BY <1>1 DEF CreerRegle
  <2> QED
    BY <2>1, <2>2 DEF JamaisAVenir, Existe
<1>2. CASE UNCHANGED <<regles, categories>>
  BY <1>2 DEF JamaisAVenir
<1>3. ASSUME NEW c \in Categories, CreerCategorie(c) \/ SupprimerCategorie(c)
      PROVE  JamaisAVenir'
  <2>1. /\ UNCHANGED regles
        /\ \E e \in {"existe", "supprimee"} : categories' = [categories EXCEPT ![c] = e]
    BY <1>3 DEF CreerCategorie, SupprimerCategorie
  <2> QED
    BY <1>0, <2>1 DEF JamaisAVenir, Range
<1>4. Worker => UNCHANGED <<regles, categories>>
  BY DEF Worker, Inserer, Confirmer, LireRegles, AppliquerRegle, EchecInsertion
<1>5. ASSUME NEW q \in Requetes, Poursuivre(q) \/ Interrompre(q) \/ Apparier(q)
      PROVE  UNCHANGED <<regles, categories>>
  BY <1>5 DEF Poursuivre, Interrompre, Apparier, Candidats, Lot, Reinitialiser, Marquer,
              ListerRegles, ChoisirSalaire, ListerCredits, ParDefautEnLot, Ranger
<1>6. ASSUME NEW q \in Requetes, NEW t \in Transactions, NEW c \in Categories, Choisir(q, t, c)
      PROVE  UNCHANGED <<regles, categories>>
  BY <1>6 DEF Choisir
<1>7. UNCHANGED vars => UNCHANGED <<regles, categories>>
  BY DEF vars
<1> QED
  BY <1>1, <1>2, <1>3, <1>4, <1>5, <1>6, <1>7 DEF Next, PasRequete, Commencer, PasCategorie

LEMMA RattrapageInductif ==
    LimiteSuffisante /\ Invariant /\ JamaisAVenir /\ Rattrapage /\ [Next]_vars => Rattrapage'
<1> SUFFICES ASSUME LimiteSuffisante, Invariant, JamaisAVenir, Rattrapage, [Next]_vars
             PROVE  Rattrapage'
  OBVIOUS
<1>0. TablesSaines /\ TachesSaines
  BY InvariantEnDeux
<1>1. CASE Worker
  BY <1>0, <1>1, RattrapageDansLeWorker
<1>2. ASSUME NEW q \in Requetes, Commencer(q) PROVE Rattrapage'
  BY <1>0, <1>2, RattrapageParCreation, RattrapageEnLecture DEF Commencer
<1>3. ASSUME NEW q \in Requetes, Poursuivre(q), ~incident' PROVE Rattrapage'
  BY <1>0, <1>3, RattrapageEnLecture, RattrapageParLot, RattrapageParMarques,
     RattrapageParRangement DEF Poursuivre
<1>4. incident' => Rattrapage'
  BY DEF Rattrapage
<1>5. ASSUME NEW q \in Requetes, Interrompre(q) PROVE Rattrapage'
  BY <1>5 DEF Interrompre, Rattrapage
<1>6. CASE PasCategorie
  BY <1>0, <1>6, RattrapageParCategorie
<1>7. CASE UNCHANGED vars
  <2>1. NonCategorisees' = NonCategorisees /\ EnVigueur' = EnVigueur
    BY <1>7, TablesLuesIntactes DEF vars
  <2>2. \A t, r : EnBonnesMains(t, r) => EnBonnesMains(t, r)'
    BY <1>7 DEF vars, EnBonnesMains, EnInsertion, Couvre, ResteAFaire
  <2> QED
    BY <1>7, <2>1, <2>2, RattrapageSiTablesIntactes DEF vars
<1> QED
  BY <1>1, <1>2, <1>3, <1>4, <1>5, <1>6, <1>7 DEF Next, PasRequete

LEMMA RattrapageInit == Init => JamaisAVenir /\ Rattrapage
<1> SUFFICES ASSUME Init PROVE JamaisAVenir /\ Rattrapage
  OBVIOUS
<1>1. Range(regles) = {}
  BY DEF Init, Range
<1> QED
  BY <1>1 DEF JamaisAVenir, Rattrapage, EnVigueur

(* For any number of rows below LIMITE_RETROACTIF: while nothing failed, a   *)
(* row that lacks the category of a rule is in the hands of the worker that  *)
(* inserted it, or of a request that will come to it.                       *)
THEOREM RattrapageToujours == LimiteSuffisante /\ Spec => []Rattrapage
<1>1. Invariant /\ JamaisAVenir /\ [Next]_vars => JamaisAVenir'
  BY InvariantEnDeux, JamaisAVenirStable
<1>2. LimiteSuffisante => [](LimiteSuffisante)
  <2> SUFFICES ASSUME LimiteSuffisante PROVE []LimiteSuffisante
    OBVIOUS
  <2> QED
    BY PTL
<1> QED
  BY <1>1, <1>2, InvariantInit, InvariantInductif, RattrapageInit, RattrapageInductif, PTL DEF Spec

(* Insertion writes and then reads the rules, the creation of a rule writes  *)
(* and then reads the rows (bank_transactions.rs:920-964, 841-859): when      *)
(* nothing is under way and nothing failed, no row escapes a rule.           *)
THEOREM JamaisUneOubliee == LimiteSuffisante /\ Spec => []AucuneOubliee
<1>1. Rattrapage => AucuneOubliee
  BY DEF Rattrapage, AucuneOubliee, EnBonnesMains, EnInsertion, Couvre, Repos, Libre
<1> QED
  BY <1>1, RattrapageToujours, PTL

-------------------------------------------------------------------------------
(* The observed system makes the steps of the plain one. *)
LEMMA PasObserve == [NextObserve]_<<vars, observation>> => [Next]_vars
<1>1. NextObserve => Next
  BY DEF NextObserve, Next, PasRequete
<1> QED
  BY <1>1

(* The history variables of Reconciliation restrict no behaviour: every run  *)
(* of the observed system is a run of the categorisation, so that the        *)
(* theorems above hold of it.                                               *)
THEOREM ObservationFidele == SpecObserve => Spec
<1>1. InitObserve => Init
  BY DEF InitObserve
<1> QED
  BY <1>1, PasObserve, PTL DEF SpecObserve, Spec

-------------------------------------------------------------------------------
(* What an undisturbed call has achieved: the transfers ... *)
MarquesFaites ==
    /\ \A t \in Apparies(Mouvements) : lignes[t].interne
    /\ \A t \in Stockees : lignes[t].interne =>
          \/ lignes[t].categorie = VirementsInternes
          \/ t \in Apparies(Mouvements) /\ lignes[t].source # "rule"

(* ... the rules ... *)
PlusDeRegle == \A t \in NonCategorisees, r \in EnVigueur : ~Correspond(r, t)

(* ... and the credits. *)
PlusDeCredit ==
    \A t \in NonCategorisees : Donnees[t].montant >= 0 => \A c \in Categories : ~ParDefaut(c)

Fini == MarquesFaites /\ PlusDeRegle /\ PlusDeCredit

(* A call that has the database to itself. *)
Isolee(q) ==
    /\ insertion = Repos
    /\ \A p \in Requetes \ {q} : req[p] = Libre
    /\ req[q].tache = "reconciliation"
    /\ req[q].etape \in {"reinitialiser", "marquer", "regles", "candidats", "lot",
                         "salaire", "credits", "defaut"}

(* What it knows of the rows at each of its steps. *)
Avancee(q) ==
    LET d == req[q]
    IN  /\ d.etape \in {"reinitialiser", "marquer"} => d.cibles = Apparies(Mouvements)
        /\ d.etape = "marquer" =>
              \A t \in Stockees : lignes[t].interne => lignes[t].categorie = VirementsInternes
        /\ d.etape \in {"regles", "candidats", "lot", "salaire", "credits", "defaut"} =>
              MarquesFaites
        /\ d.etape \in {"candidats", "lot"} =>
              /\ ResteAFaire(q) \subseteq EnVigueur
              /\ \A t \in NonCategorisees, r \in EnVigueur :
                    Correspond(r, t) => r \in ResteAFaire(q)
        /\ d.etape = "lot" => d.cibles = {t \in NonCategorisees : Correspond(d.regle, t)}
        /\ d.etape \in {"salaire", "credits", "defaut"} => PlusDeRegle
        /\ d.etape \in {"credits", "defaut"} => ParDefaut(d.categorie)
        /\ d.etape = "defaut" => d.cibles = {t \in NonCategorisees : Donnees[t].montant >= 0}

Appel(q) == Isolee(q) /\ Avancee(q)

(* The pairing reads the status, the date and the filings by hand. *)
LEMMA MouvementsStables ==
    ASSUME \A t \in Transactions :
             /\ lignes'[t].statut = lignes[t].statut
             /\ lignes'[t].datee = lignes[t].datee
             /\ RangeALaMain(t)' = RangeALaMain(t)
    PROVE  Mouvements' = Mouvements /\ Stockees' = Stockees
<1> DEFINE D == {u \in Stockees : lignes[u].datee}
           M(t) == [id |-> t, compte |-> Donnees[t].compte, montant |-> Donnees[t].montant,
                    date |-> Donnees[t].date, mots |-> Donnees[t].mots,
                    rangeALaMain |-> RangeALaMain(t)]
<1>1. Stockees' = Stockees
  BY DEF Stockees
<1>2. D' = D
  BY DEF Stockees
<1>3. \A t \in D : M(t)' = M(t)
  BY DEF Stockees
<1>4. Mouvements = {M(t) : t \in D}
  BY DEF Mouvements
<1>5. Mouvements' = {M(t)' : t \in D'}
  BY DEF Mouvements
<1> HIDE DEF D, M
<1> QED
  BY <1>1, <1>2, <1>3, <1>4, <1>5

(* Only rows that are stored are paired. *)
LEMMA AppariesStockees == Apparies(Mouvements) \subseteq Stockees
<1> SUFFICES ASSUME NEW t \in Apparies(Mouvements) PROVE t \in Stockees
  OBVIOUS
<1>1. PICK m \in Mouvements : t = m.id
  BY DEF Apparies
<1>2. PICK u \in Stockees : m = [id |-> u, compte |-> Donnees[u].compte,
                                 montant |-> Donnees[u].montant, date |-> Donnees[u].date,
                                 mots |-> Donnees[u].mots, rangeALaMain |-> RangeALaMain(u)]
  BY <1>1 DEF Mouvements
<1> QED
  BY <1>1, <1>2

LEMMA TablesDeLAppelIntactes ==
    ASSUME UNCHANGED <<lignes, categories, regles>>
    PROVE  /\ Mouvements' = Mouvements /\ Stockees' = Stockees
           /\ NonCategorisees' = NonCategorisees /\ EnVigueur' = EnVigueur
           /\ MarquesFaites' <=> MarquesFaites
           /\ PlusDeRegle' <=> PlusDeRegle
           /\ PlusDeCredit' <=> PlusDeCredit
           /\ \A c : ParDefaut(c)' <=> ParDefaut(c)
<1>1. Mouvements' = Mouvements
  BY DEF Mouvements, Stockees, RangeALaMain
<1>2. NonCategorisees' = NonCategorisees /\ EnVigueur' = EnVigueur /\ Stockees' = Stockees
  BY TablesLuesIntactes
<1>3. \A c : ParDefaut(c)' <=> ParDefaut(c)
  BY DEF ParDefaut, Existe
<1> QED
  BY <1>1, <1>2, <1>3 DEF MarquesFaites, PlusDeRegle, PlusDeCredit, Correspond

(* A category given to rows that had none moves no mark. *)
LEMMA MarquesRestent ==
    ASSUME TablesSaines, MarquesFaites, NEW S \in SUBSET NonCategorisees, NEW c \in Categories, NEW r,
           RegleEcrite(S, c, r)
    PROVE  MarquesFaites' /\ NonCategorisees' = NonCategorisees \ S
<1>0. lignes \in [Transactions -> Lignes] /\ c # Sans
  BY ConstantesCategorisation DEF TablesSaines, TypesTables
<1>1. ASSUME NEW t \in Transactions
      PROVE  /\ lignes'[t].statut = lignes[t].statut /\ lignes'[t].datee = lignes[t].datee
             /\ lignes'[t].interne = lignes[t].interne
             /\ t \in S => lignes'[t].categorie = c /\ lignes'[t].source = "rule"
             /\ t \notin S => lignes'[t] = lignes[t]
  BY <1>0, ColonnesParRegle
<1>2. ASSUME NEW t \in S PROVE lignes[t].source = "none" /\ ~lignes[t].interne
  BY DEF NonCategorisees, Stockees, TablesSaines, LigneCoherente
<1>3. ASSUME NEW t \in Transactions PROVE RangeALaMain(t)' = RangeALaMain(t)
  BY <1>1, <1>2 DEF RangeALaMain
<1>4. Mouvements' = Mouvements /\ Stockees' = Stockees
  BY <1>1, <1>3, MouvementsStables
<1>5. MarquesFaites'
  BY <1>1, <1>2, <1>4, AppariesStockees DEF MarquesFaites, Stockees
<1>6. NonCategorisees' = NonCategorisees \ S
  BY <1>0, <1>1, <1>4 DEF NonCategorisees, Stockees
<1> QED
  BY <1>5, <1>6

(* The next rule of the file, or the credits. *)
LEMMA AppelSuite ==
    ASSUME req \in [Requetes -> Demandes], NEW q \in Requetes, Isolee(q), Suite(q),
           req[q].etape \in {"candidats", "lot"}, UNCHANGED insertion, MarquesFaites',
           Range(req[q].file) \subseteq EnVigueur',
           \A t \in NonCategorisees', r \in EnVigueur' :
              Correspond(r, t) => r \in Range(req[q].file)
    PROVE  Appel(q)' /\ req'[q] # Libre
<1>0. req[q] \in Demandes /\ req[q].file \in Seq(Regles) /\ req[q].tache = "reconciliation"
  BY DEF Demandes, Isolee
<1>1. \A p \in Requetes \ {q} : req'[p] = Libre
  BY SuiteDUneSeule DEF Isolee
<1>2. CASE req[q].file # <<>>
  <2>1. req' = [req EXCEPT ![q].etape = "candidats", ![q].regle = Head(req[q].file),
                           ![q].file = Tail(req[q].file), ![q].cibles = {}]
    BY <1>2 DEF Suite
  <2>2. /\ req'[q].etape = "candidats" /\ req'[q].tache = "reconciliation"
        /\ req'[q].regle = Head(req[q].file) /\ req'[q].file = Tail(req[q].file)
    BY <1>0, <2>1 DEF Demandes
  <2>3. ResteAFaire(q)' = Range(req[q].file)
    BY <1>0, <1>2, <2>2, TeteEtReste DEF ResteAFaire
  <2>4. Isolee(q)'
    BY <1>1, <2>2 DEF Isolee
  <2>5. Avancee(q)'
    BY <2>2, <2>3 DEF Avancee, Correspond
  <2> QED
    BY <2>2, <2>4, <2>5 DEF Appel, Libre
<1>3. CASE req[q].file = <<>>
  <2>1. req' = [req EXCEPT ![q].etape = "salaire", ![q].regle = Sans, ![q].cibles = {}]
    BY <1>0, <1>3 DEF Suite
  <2>2. req'[q].etape = "salaire" /\ req'[q].tache = "reconciliation"
    BY <1>0, <2>1 DEF Demandes
  <2>3. Range(req[q].file) = {}
    BY <1>3 DEF Range
  <2>4. PlusDeRegle'
    BY <2>3 DEF PlusDeRegle, Correspond
  <2>5. Isolee(q)'
    BY <1>1, <2>2 DEF Isolee
  <2>6. Avancee(q)'
    BY <2>2, <2>4 DEF Avancee
  <2> QED
    BY <2>2, <2>5, <2>6 DEF Appel, Libre
<1> QED
  BY <1>2, <1>3

LEMMA AppelCandidats ==
    ASSUME TablesSaines, TachesSaines, LimiteSuffisante, NEW q \in Requetes, Appel(q), Candidats(q)
    PROVE  Appel(q)' /\ req'[q] # Libre
<1>0. req \in [Requetes -> Demandes] /\ req[q] \in Demandes
  BY DEF TachesSaines, TypesTaches
<1>1. UNCHANGED <<lignes, categories, regles, insertion>> /\ req[q].etape = "candidats"
  BY DEF Candidats
<1>2. /\ NonCategorisees' = NonCategorisees /\ EnVigueur' = EnVigueur
      /\ MarquesFaites' <=> MarquesFaites
  BY <1>1, TablesDeLAppelIntactes
<1>3. /\ MarquesFaites /\ ResteAFaire(q) \subseteq EnVigueur
      /\ \A t \in NonCategorisees, r \in EnVigueur : Correspond(r, t) => r \in ResteAFaire(q)
  BY <1>1 DEF Appel, Avancee
<1>4. Plafonner(NonCategorisees) = {NonCategorisees}
  BY NonCategoriseesStockees, RienDePlafonne
<1> DEFINE cibles == {t \in NonCategorisees : Correspond(req[q].regle, t)}
<1>5. IF cibles = {} THEN Suite(q)
      ELSE req' = [req EXCEPT ![q].etape = "lot", ![q].cibles = cibles]
  BY <1>4 DEF Candidats
<1>6. CASE cibles = {}
  <2>1. \A t \in NonCategorisees, r \in EnVigueur :
          Correspond(r, t) => r \in Range(req[q].file)
    BY <1>3, <1>6 DEF ResteAFaire
  <2> QED
    BY <1>0, <1>1, <1>2, <1>3, <1>5, <1>6, <2>1, AppelSuite DEF Appel, ResteAFaire
<1>7. CASE cibles # {}
  <2>1. req' = [req EXCEPT ![q].etape = "lot", ![q].cibles = cibles]
    BY <1>5, <1>7
  <2>2. /\ req'[q].etape = "lot" /\ req'[q].cibles = cibles /\ req'[q].regle = req[q].regle
        /\ req'[q].file = req[q].file /\ req'[q].tache = req[q].tache
        /\ \A p \in Requetes \ {q} : req'[p] = req[p]
    BY <1>0, <2>1 DEF Demandes
  <2>3. Isolee(q)'
    BY <1>1, <2>2 DEF Isolee, Appel
  <2>4. ResteAFaire(q)' = ResteAFaire(q)
    BY <2>2 DEF ResteAFaire
  <2>5. Avancee(q)'
    BY <1>2, <1>3, <2>2, <2>4 DEF Avancee, Correspond
  <2> QED
    BY <2>2, <2>3, <2>5 DEF Appel, Libre
<1> QED
  BY <1>6, <1>7

LEMMA AppelLot ==
    ASSUME TablesSaines, TachesSaines, NEW q \in Requetes, Appel(q), Lot(q)
    PROVE  Appel(q)' /\ req'[q] # Libre
<1> DEFINE r == req[q].regle
           c == RegleDe[r].categorie
           S == Touchees(req[q].cibles)
<1>0. req \in [Requetes -> Demandes] /\ req[q] \in Demandes
  BY DEF TachesSaines, TypesTaches
<1>1. req[q].etape = "lot" /\ UNCHANGED <<categories, regles, insertion>>
  BY DEF Lot
<1>2. /\ MarquesFaites /\ ResteAFaire(q) \subseteq EnVigueur
      /\ \A t \in NonCategorisees, s \in EnVigueur : Correspond(s, t) => s \in ResteAFaire(q)
      /\ req[q].cibles = {t \in NonCategorisees : Correspond(r, t)}
  BY <1>1 DEF Appel, Avancee
<1>3. r \in EnVigueur /\ r \in Regles /\ Existe(c)
  BY <1>2 DEF ResteAFaire, EnVigueur, TablesSaines, TypesTables, Range
<1>4. RegleEcrite(S, c, r) /\ Suite(q)
  BY <1>3 DEF Lot, Ecrire, ClefRespectee, RegleEcrite
<1>5. S = req[q].cibles
  <2>1. ASSUME NEW t \in NonCategorisees PROVE lignes[t].source = "none"
    BY DEF NonCategorisees, Stockees, TablesSaines, LigneCoherente
  <2> QED
    BY <1>2, <2>1 DEF Touchees
<1>6. S \in SUBSET NonCategorisees /\ c \in Categories
  BY <1>2, <1>3, <1>5, ConstantesCategorisation
<1>7. MarquesFaites' /\ NonCategorisees' = NonCategorisees \ S
  BY <1>2, <1>4, <1>6, MarquesRestent
<1>8. EnVigueur' = EnVigueur
  BY <1>1 DEF EnVigueur, Existe
<1>9. \A t \in NonCategorisees', s \in EnVigueur' :
        Correspond(s, t) => s \in Range(req[q].file)
  BY <1>2, <1>5, <1>7, <1>8 DEF ResteAFaire
<1> QED
  BY <1>0, <1>1, <1>2, <1>4, <1>7, <1>8, <1>9, AppelSuite DEF Appel, ResteAFaire

LEMMA AppelListerRegles ==
    ASSUME TablesSaines, TachesSaines, NEW q \in Requetes, Appel(q), ListerRegles(q)
    PROVE  Appel(q)' /\ req'[q] # Libre
<1>0. req \in [Requetes -> Demandes] /\ req[q] \in Demandes
  BY DEF TachesSaines, TypesTaches
<1>1. UNCHANGED <<lignes, categories, regles, insertion>> /\ req[q].etape = "regles"
  BY DEF ListerRegles
<1>2. /\ NonCategorisees' = NonCategorisees /\ EnVigueur' = EnVigueur
      /\ MarquesFaites' <=> MarquesFaites
      /\ PlusDeRegle' <=> PlusDeRegle
  BY <1>1, TablesDeLAppelIntactes
<1>3. MarquesFaites
  BY <1>1 DEF Appel, Avancee
<1>4. PICK file \in Listes :
        req' = [req EXCEPT ![q] = IF file = <<>> THEN [req[q] EXCEPT !.etape = "salaire"]
                                  ELSE [req[q] EXCEPT !.etape = "candidats", !.regle = Head(file),
                                                      !.file = Tail(file)]]
  BY DEF ListerRegles
<1>5. Range(file) = EnVigueur
  BY DEF Listes
<1>6. file \in Seq(Regles)
  <2>1. EnVigueur \subseteq Regles
    BY DEF EnVigueur, TablesSaines, TypesTables, Range
  <2>2. PICK n \in 0..Len(regles) : file \in [1..n -> EnVigueur]
    BY <1>4 DEF Listes
  <2>3. n \in Nat
    BY <2>2 DEF TablesSaines, TypesTables
  <2> QED
    BY <2>1, <2>2, <2>3
<1>7. CASE file = <<>>
  <2>1. /\ req'[q].etape = "salaire" /\ req'[q].tache = req[q].tache
        /\ \A p \in Requetes \ {q} : req'[p] = req[p]
    BY <1>0, <1>4, <1>7 DEF Demandes
  <2>2. PlusDeRegle
    BY <1>5, <1>7 DEF PlusDeRegle, Range
  <2>3. Isolee(q)'
    BY <1>1, <2>1 DEF Isolee, Appel
  <2>4. Avancee(q)'
    BY <1>2, <1>3, <2>1, <2>2 DEF Avancee
  <2> QED
    BY <2>1, <2>3, <2>4 DEF Appel, Libre
<1>8. CASE file # <<>>
  <2>1. /\ req'[q].etape = "candidats" /\ req'[q].tache = req[q].tache
        /\ req'[q].regle = Head(file) /\ req'[q].file = Tail(file)
        /\ \A p \in Requetes \ {q} : req'[p] = req[p]
    BY <1>0, <1>4, <1>8 DEF Demandes
  <2>2. ResteAFaire(q)' = EnVigueur
    BY <1>5, <1>6, <1>8, <2>1, TeteEtReste DEF ResteAFaire
  <2>3. Isolee(q)'
    BY <1>1, <2>1 DEF Isolee, Appel
  <2>4. Avancee(q)'
    BY <1>2, <1>3, <2>1, <2>2 DEF Avancee
  <2> QED
    BY <2>1, <2>3, <2>4 DEF Appel, Libre
<1> QED
  BY <1>7, <1>8

LEMMA AppelSalaire ==
    ASSUME TablesSaines, TachesSaines, NEW q \in Requetes, Appel(q), ChoisirSalaire(q)
    PROVE  (Appel(q)' /\ req'[q] # Libre) \/ (Fini' /\ Terminer(q))
<1>0. req \in [Requetes -> Demandes] /\ req[q] \in Demandes
  BY DEF TachesSaines, TypesTaches
<1>1. UNCHANGED <<lignes, categories, regles, insertion>> /\ req[q].etape = "salaire"
  BY DEF ChoisirSalaire
<1>2. /\ MarquesFaites' <=> MarquesFaites
      /\ PlusDeRegle' <=> PlusDeRegle
      /\ PlusDeCredit' <=> PlusDeCredit
      /\ \A c : ParDefaut(c)' <=> ParDefaut(c)
  BY <1>1, TablesDeLAppelIntactes
<1>3. MarquesFaites /\ PlusDeRegle
  BY <1>1 DEF Appel, Avancee
<1>4. ASSUME NEW c \in Categories, ParDefaut(c),
             req' = [req EXCEPT ![q].etape = "credits", ![q].categorie = c]
      PROVE  Appel(q)' /\ req'[q] # Libre
  <2>1. /\ req'[q].etape = "credits" /\ req'[q].tache = req[q].tache
        /\ req'[q].categorie = c
        /\ \A p \in Requetes \ {q} : req'[p] = req[p]
    BY <1>0, <1>4 DEF Demandes
  <2>2. Isolee(q)'
    BY <1>1, <2>1 DEF Isolee, Appel
  <2>3. ParDefaut(c)'
    BY <1>2, <1>4
  <2>4. ParDefaut(req[q].categorie)'
    BY <2>1, <2>3 DEF ParDefaut, Existe
  <2>5. Avancee(q)'
    BY <1>2, <1>3, <2>1, <2>4 DEF Avancee
  <2> QED
    BY <2>1, <2>2, <2>5 DEF Appel, Libre
<1>5. (\A c \in Categories : ~ParDefaut(c)) => Fini'
  BY <1>2, <1>3 DEF Fini, PlusDeCredit
<1> QED
  BY <1>4, <1>5 DEF ChoisirSalaire

(* The rows without a source are those without a category. *)
LEMMA CreditsSansCategorie ==
    ASSUME TablesSaines PROVE CreditsNonCategorises = NonCategorisees
BY DEF TablesSaines, LigneCoherente, CreditsNonCategorises, NonCategorisees, Stockees

LEMMA AppelCredits ==
    ASSUME TablesSaines, TachesSaines, LimiteSuffisante, NEW q \in Requetes, Appel(q), ListerCredits(q)
    PROVE  (Appel(q)' /\ req'[q] # Libre) \/ (Fini' /\ Terminer(q))
<1>0. req \in [Requetes -> Demandes] /\ req[q] \in Demandes
  BY DEF TachesSaines, TypesTaches
<1>1. UNCHANGED <<lignes, categories, regles, insertion>> /\ req[q].etape = "credits"
  BY DEF ListerCredits
<1>2. /\ MarquesFaites' <=> MarquesFaites
      /\ PlusDeRegle' <=> PlusDeRegle
      /\ PlusDeCredit' <=> PlusDeCredit
      /\ NonCategorisees' = NonCategorisees
      /\ \A c : ParDefaut(c)' <=> ParDefaut(c)
  BY <1>1, TablesDeLAppelIntactes
<1>3. MarquesFaites /\ PlusDeRegle /\ ParDefaut(req[q].categorie)
  BY <1>1 DEF Appel, Avancee
<1> DEFINE credits == {t \in NonCategorisees : Donnees[t].montant >= 0}
<1>4. IF credits = {} THEN Terminer(q)
      ELSE req' = [req EXCEPT ![q].etape = "defaut", ![q].cibles = credits]
  <2>1. Plafonner(CreditsNonCategorises) = {NonCategorisees}
    BY CreditsSansCategorie, NonCategoriseesStockees, RienDePlafonne
  <2> QED
    BY <2>1 DEF ListerCredits
<1>5. CASE credits = {}
  <2>1. PlusDeCredit
    BY <1>5 DEF PlusDeCredit
  <2> QED
    BY <1>2, <1>3, <1>4, <1>5, <2>1 DEF Fini
<1>6. CASE credits # {}
  <2>1. req' = [req EXCEPT ![q].etape = "defaut", ![q].cibles = credits]
    BY <1>4, <1>6
  <2>2. /\ req'[q].etape = "defaut" /\ req'[q].tache = req[q].tache
        /\ req'[q].categorie = req[q].categorie /\ req'[q].cibles = credits
        /\ \A p \in Requetes \ {q} : req'[p] = req[p]
    BY <1>0, <2>1 DEF Demandes
  <2>3. Isolee(q)'
    BY <1>1, <2>2 DEF Isolee, Appel
  <2>4. ParDefaut(req[q].categorie)'
    BY <1>1, <1>3, <2>2 DEF ParDefaut, Existe
  <2>5. Avancee(q)'
    BY <1>2, <1>3, <2>2, <2>4 DEF Avancee
  <2> QED
    BY <2>2, <2>3, <2>5 DEF Appel, Libre
<1> QED
  BY <1>5, <1>6

LEMMA AppelDefaut ==
    ASSUME TablesSaines, TachesSaines, NEW q \in Requetes, Appel(q), ParDefautEnLot(q)
    PROVE  Fini' /\ Terminer(q)
<1> DEFINE c == req[q].categorie
           S == Touchees(req[q].cibles)
<1>1. /\ req[q].etape = "defaut" /\ Terminer(q)
      /\ UNCHANGED <<categories, regles, insertion>>
  BY DEF ParDefautEnLot
<1>2. /\ MarquesFaites /\ PlusDeRegle /\ ParDefaut(c)
      /\ req[q].cibles = {t \in NonCategorisees : Donnees[t].montant >= 0}
  BY <1>1 DEF Appel, Avancee
<1>3. c \in Categories /\ Existe(c)
  BY <1>2, ConstantesCategorisation DEF ParDefaut
<1>4. RegleEcrite(S, c, Sans)
  BY <1>3 DEF ParDefautEnLot, Ecrire, ClefRespectee, RegleEcrite
<1>5. S = req[q].cibles
  <2>1. ASSUME NEW t \in NonCategorisees PROVE lignes[t].source = "none"
    BY DEF NonCategorisees, Stockees, TablesSaines, LigneCoherente
  <2> QED
    BY <1>2, <2>1 DEF Touchees
<1>6. S \in SUBSET NonCategorisees
  BY <1>2, <1>5
<1>7. MarquesFaites' /\ NonCategorisees' = NonCategorisees \ S
  BY <1>2, <1>3, <1>4, <1>6, MarquesRestent
<1>8. EnVigueur' = EnVigueur
  BY <1>1 DEF EnVigueur, Existe
<1>9. PlusDeRegle'
  BY <1>2, <1>7, <1>8 DEF PlusDeRegle, Correspond
<1>10. PlusDeCredit'
  BY <1>2, <1>5, <1>7 DEF PlusDeCredit
<1> QED
  BY <1>1, <1>7, <1>9, <1>10 DEF Fini

LEMMA AppelReinitialiser ==
    ASSUME TablesSaines, TachesSaines, NEW q \in Requetes, Appel(q), Reinitialiser(q)
    PROVE  Appel(q)' /\ req'[q] # Libre
<1> DEFINE S == {t \in Stockees : lignes[t].interne /\ lignes[t].categorie # VirementsInternes}
<1>0. /\ req \in [Requetes -> Demandes] /\ req[q] \in Demandes
      /\ lignes \in [Transactions -> Lignes]
  BY DEF TachesSaines, TypesTaches, TablesSaines, TypesTables
<1>1. /\ req[q].etape = "reinitialiser"
      /\ lignes' = [t \in Transactions |-> IF t \in S THEN [lignes[t] EXCEPT !.interne = FALSE]
                                           ELSE lignes[t]]
      /\ req' = [req EXCEPT ![q].etape = "marquer"]
      /\ UNCHANGED <<categories, regles, insertion>>
  BY DEF Reinitialiser, Ecrire
<1>2. \A t \in Transactions :
        /\ lignes'[t].statut = lignes[t].statut /\ lignes'[t].datee = lignes[t].datee
        /\ lignes'[t].categorie = lignes[t].categorie /\ lignes'[t].source = lignes[t].source
        /\ t \in S => ~lignes'[t].interne
        /\ t \notin S => lignes'[t] = lignes[t]
  BY <1>0, <1>1 DEF Lignes
<1>3. \A t \in Transactions : RangeALaMain(t)' = RangeALaMain(t)
  BY <1>2 DEF RangeALaMain
<1>4. Mouvements' = Mouvements /\ Stockees' = Stockees
  BY <1>2, <1>3, MouvementsStables
<1>5. req[q].cibles = Apparies(Mouvements)
  BY <1>1 DEF Appel, Avancee
<1>6. /\ req'[q].etape = "marquer" /\ req'[q].tache = req[q].tache
      /\ req'[q].cibles = req[q].cibles
      /\ \A p \in Requetes \ {q} : req'[p] = req[p]
  BY <1>0, <1>1 DEF Demandes
<1>7. ASSUME NEW t \in Stockees', lignes'[t].interne PROVE lignes'[t].categorie = VirementsInternes
  <2>1. t \in Transactions /\ t \in Stockees
    BY <1>4 DEF Stockees
  <2>2. t \notin S
    BY <1>2, <1>7, <2>1
  <2> QED
    BY <1>2, <1>7, <2>1, <2>2
<1>8. Isolee(q)'
  BY <1>1, <1>6 DEF Isolee, Appel
<1>9. Avancee(q)'
  BY <1>4, <1>5, <1>6, <1>7 DEF Avancee
<1> QED
  BY <1>6, <1>8, <1>9 DEF Appel, Libre

LEMMA AppelMarquer ==
    ASSUME TablesSaines, TachesSaines, NEW q \in Requetes, Appel(q), Marquer(q)
    PROVE  Appel(q)' /\ req'[q] # Libre
<1> DEFINE S == {t \in req[q].cibles : ~lignes[t].interne}
<1>0. /\ req \in [Requetes -> Demandes] /\ req[q] \in Demandes
      /\ lignes \in [Transactions -> Lignes]
  BY DEF TachesSaines, TypesTaches, TablesSaines, TypesTables
<1>1. /\ req[q].etape = "marquer"
      /\ lignes' = [t \in Transactions |-> IF t \in S THEN Marquee(lignes[t]) ELSE lignes[t]]
      /\ req' = [req EXCEPT ![q].etape = "regles", ![q].cibles = {}]
      /\ UNCHANGED <<categories, regles, insertion>>
  BY DEF Marquer, Ecrire
<1>2. ASSUME NEW t \in Transactions
      PROVE  /\ lignes'[t].statut = lignes[t].statut /\ lignes'[t].datee = lignes[t].datee
             /\ t \in S => lignes'[t].interne /\ lignes'[t].source # "rule"
             /\ t \in S /\ lignes[t].source = "manual" =>
                   /\ lignes'[t].categorie = lignes[t].categorie
                   /\ lignes'[t].source = "manual"
             /\ t \in S /\ lignes[t].source # "manual" => lignes'[t].source # "manual"
             /\ t \notin S => lignes'[t] = lignes[t]
  <2>1. lignes[t] \in Lignes
    BY <1>0
  <2>2. CASE t \in S
    <3>1. lignes'[t] = Marquee(lignes[t])
      BY <1>1, <2>2
    <3> QED
      BY <2>1, <2>2, <3>1 DEF Marquee, Lignes, Sources
  <2>3. CASE t \notin S
    BY <1>1, <2>3
  <2> QED
    BY <2>2, <2>3
<1>3. \A t \in Transactions : RangeALaMain(t)' = RangeALaMain(t)
  BY <1>2 DEF RangeALaMain
<1>4. Mouvements' = Mouvements /\ Stockees' = Stockees
  BY <1>2, <1>3, MouvementsStables
<1>5. /\ req[q].cibles = Apparies(Mouvements)
      /\ \A t \in Stockees : lignes[t].interne => lignes[t].categorie = VirementsInternes
  BY <1>1 DEF Appel, Avancee
<1>6. /\ req'[q].etape = "regles" /\ req'[q].tache = req[q].tache
      /\ \A p \in Requetes \ {q} : req'[p] = req[p]
  BY <1>0, <1>1 DEF Demandes
<1>7. MarquesFaites'
  <2>1. ASSUME NEW t \in Apparies(Mouvements) PROVE lignes'[t].interne
    <3>1. t \in Transactions
      BY AppariesStockees DEF Stockees
    <3> QED
      BY <1>2, <1>5, <3>1
  <2>2. ASSUME NEW t \in Stockees, lignes'[t].interne
        PROVE  \/ lignes'[t].categorie = VirementsInternes
               \/ t \in Apparies(Mouvements) /\ lignes'[t].source # "rule"
    <3>1. t \in Transactions
      BY DEF Stockees
    <3>2. CASE t \in S
      BY <1>2, <1>5, <3>1, <3>2
    <3>3. CASE t \notin S
      BY <1>2, <1>5, <2>2, <3>1, <3>3
    <3> QED
      BY <3>2, <3>3
  <2> QED
    BY <1>4, <2>1, <2>2 DEF MarquesFaites
<1>8. Isolee(q)'
  BY <1>1, <1>6 DEF Isolee, Appel
<1>9. Avancee(q)'
  BY <1>6, <1>7 DEF Avancee
<1> QED
  BY <1>6, <1>8, <1>9 DEF Appel, Libre

(* Whatever the call does next, it goes on or it has finished its work. *)
LEMMA AppelAvance ==
    ASSUME TablesSaines, TachesSaines, LimiteSuffisante, NEW q \in Requetes, Appel(q), Poursuivre(q)
    PROVE  (Appel(q)' /\ req'[q] # Libre) \/ (Fini' /\ Terminer(q))
<1>1. ~Ranger(q)
  BY DEF Ranger, Appel, Isolee
<1> QED
  BY <1>1, AppelCandidats, AppelLot, AppelReinitialiser, AppelMarquer, AppelListerRegles,
     AppelSalaire, AppelCredits, AppelDefaut DEF Poursuivre

-------------------------------------------------------------------------------
(* What the history variables say of the call they follow. *)
Observation ==
    /\ reconcilie => Fini
    /\ seule # Sans => seule \in Requetes /\ ~reconcilie /\ Appel(seule)
    /\ avant # Sans => seule # Sans

LEMMA AppelCommence ==
    ASSUME TablesSaines, TachesSaines, RienEnCours, NEW q \in Requetes, Commencer(q),
           req'[q].tache = "reconciliation"
    PROVE  Appel(q)' /\ Apparier(q) /\ req'[q].etape = "reinitialiser"
<1>0. req \in [Requetes -> Demandes] /\ req[q] \in Demandes
  BY DEF TachesSaines, TypesTaches
<1>1. ~\E r \in Regles : CreerRegle(q, r)
  <2>1. \A r \in Regles : CreerRegle(q, r) => req'[q].tache = "regle"
    BY <1>0 DEF CreerRegle, Libre
  <2> QED
    BY <2>1
<1>2. ~\E t \in Transactions, c \in Categories : Choisir(q, t, c)
  <2>1. \A t \in Transactions, c \in Categories : Choisir(q, t, c) => req'[q].tache = "choix"
    BY <1>0 DEF Choisir, Libre
  <2> QED
    BY <2>1
<1>3. Apparier(q)
  BY <1>1, <1>2 DEF Commencer
<1>4. /\ req'[q].etape = "reinitialiser" /\ req'[q].tache = "reconciliation"
      /\ req'[q].cibles = Apparies(Mouvements)
      /\ \A p \in Requetes \ {q} : req'[p] = Libre
      /\ insertion' = Repos /\ UNCHANGED <<lignes, categories, regles>>
  BY <1>0, <1>3 DEF Apparier, Libre, RienEnCours
<1>5. Mouvements' = Mouvements
  BY <1>4, TablesDeLAppelIntactes
<1> QED
  BY <1>3, <1>4, <1>5 DEF Appel, Isolee, Avancee

LEMMA ObservationInductive ==
    LimiteSuffisante /\ Invariant /\ Observation /\ [NextObserve]_<<vars, observation>>
       => Observation'
<1> SUFFICES ASSUME LimiteSuffisante, Invariant, Observation,
                    [NextObserve]_<<vars, observation>>
             PROVE  Observation'
  OBVIOUS
<1>0. TablesSaines /\ TachesSaines
  BY InvariantEnDeux
<1>1. ASSUME seule' = Sans, reconcilie' = FALSE, avant' = Sans PROVE Observation'
  BY <1>1 DEF Observation
<1>2. ASSUME NEW q \in Requetes, Commencer(q), NoterDebut(q) PROVE Observation'
  <2>1. CASE RienEnCours /\ req'[q].tache = "reconciliation"
    <3>1. seule' = q /\ reconcilie' = FALSE
      BY <1>2, <2>1 DEF NoterDebut
    <3>2. Appel(q)'
      BY <1>0, <1>2, <2>1, AppelCommence
    <3>3. q # Sans
      BY RequetesReconnues
    <3>4. Appel(seule)'
      BY <3>1, <3>2 DEF Appel, Isolee, Avancee, ResteAFaire
    <3> QED
      BY <3>1, <3>3, <3>4 DEF Observation
  <2>2. CASE ~(RienEnCours /\ req'[q].tache = "reconciliation")
    BY <1>1, <1>2, <2>2 DEF NoterDebut
  <2> QED
    BY <2>1, <2>2
<1>3. ASSUME NEW q \in Requetes, Poursuivre(q), NoterSuite(q), seule = q PROVE Observation'
  <2>1. Appel(q) /\ ~reconcilie
    BY <1>3, RequetesReconnues DEF Observation
  <2>2. CASE Fini' /\ Terminer(q)
    <3>1. req'[q] = Libre
      BY <1>0, <2>2 DEF Terminer, TachesSaines, TypesTaches
    <3>2. seule' = Sans /\ avant' = Sans
      BY <1>3, <3>1 DEF NoterSuite
    <3> QED
      BY <2>2, <3>2 DEF Observation
  <2>3. CASE Appel(q)' /\ req'[q] # Libre
    <3>1. UNCHANGED observation
      BY <1>3, <2>3 DEF NoterSuite
    <3>2. Appel(seule)'
      BY <1>3, <2>3, <3>1 DEF observation, Appel, Isolee, Avancee, ResteAFaire
    <3> QED
      BY <1>3, <2>1, <3>1, <3>2 DEF Observation, observation
  <2> QED
    BY <1>0, <1>3, <2>1, <2>2, <2>3, AppelAvance
<1>4. ASSUME NEW q \in Requetes, NoterSuite(q), seule # q PROVE Observation'
  BY <1>1, <1>4 DEF NoterSuite
<1>5. CASE UNCHANGED <<vars, observation>>
  <2>1. /\ Fini' <=> Fini
        /\ UNCHANGED <<lignes, categories, regles, insertion, req>> /\ UNCHANGED observation
    BY <1>5, TablesDeLAppelIntactes DEF vars, Fini
  <2>2. Appel(seule)' <=> Appel(seule)
    <3>1. /\ Mouvements' = Mouvements /\ Stockees' = Stockees
          /\ NonCategorisees' = NonCategorisees /\ EnVigueur' = EnVigueur
          /\ MarquesFaites' <=> MarquesFaites
          /\ PlusDeRegle' <=> PlusDeRegle
          /\ \A c : ParDefaut(c)' <=> ParDefaut(c)
      BY <2>1, TablesDeLAppelIntactes
    <3>2. seule' = seule /\ req' = req /\ insertion' = insertion /\ lignes' = lignes
      BY <2>1 DEF observation
    <3>3. Isolee(seule)' <=> Isolee(seule)
      BY <3>2 DEF Isolee
    <3>4. ParDefaut(req[seule].categorie)' <=> ParDefaut(req[seule].categorie)
      BY <2>1, <3>2 DEF ParDefaut, Existe
    <3>5. Avancee(seule)' <=> Avancee(seule)
      BY <3>1, <3>2, <3>4 DEF Avancee, ResteAFaire, Correspond
    <3> QED
      BY <3>3, <3>5 DEF Appel
  <2> QED
    BY <2>1, <2>2 DEF Observation, observation
<1> QED
  BY <1>1, <1>2, <1>3, <1>4, <1>5 DEF NextObserve

(* handlers/transactions.rs:29-64: a call that runs undisturbed repairs what *)
(* any race left: the transfers, then the rules, then the credits.           *)
THEOREM ReconciliationToujoursComplete ==
    LimiteSuffisante /\ SpecObserve => []ReconciliationComplete
<1>1. InitObserve => Observation
  BY DEF InitObserve, Observation
<1>2. InitObserve => Invariant
  BY InvariantInit DEF InitObserve
<1>3. Invariant /\ [NextObserve]_<<vars, observation>> => Invariant'
  BY PasObserve, InvariantInductif
<1>4. LimiteSuffisante => []LimiteSuffisante
  <2> SUFFICES ASSUME LimiteSuffisante PROVE []LimiteSuffisante
    OBVIOUS
  <2> QED
    BY PTL
<1>5. Observation => ReconciliationComplete
  BY DEF Observation, ReconciliationComplete, Fini, MarquesFaites, PlusDeRegle, PlusDeCredit
<1> QED
  BY <1>1, <1>2, <1>3, <1>4, <1>5, ObservationInductive, PTL DEF SpecObserve

-------------------------------------------------------------------------------
(* A table of rows where neither a rule nor the default has anything to do. *)
PlusRienDans(table) ==
    \A t \in {u \in Transactions : /\ table[u].statut # "absente"
                                   /\ table[u].categorie = Sans /\ ~table[u].interne} :
        /\ \A r \in EnVigueur : ~Correspond(r, t)
        /\ Donnees[t].montant >= 0 => \A c \in Categories : ~ParDefaut(c)

(* The reset took the mark of row t, or left the row alone. *)
Demarquee(t) ==
    IF avant[t].statut # "absente" /\ avant[t].interne /\ avant[t].categorie # VirementsInternes
    THEN lignes[t] = [avant[t] EXCEPT !.interne = FALSE]
    ELSE lignes[t] = avant[t]

(* The marks the call is going to put are those of avant. *)
MarquesDAvant(cibles) ==
    \A t \in Transactions :
        /\ t \in cibles => avant[t].interne /\ avant[t].statut # "absente"
        /\ avant[t].statut # "absente" /\ avant[t].interne =>
              \/ avant[t].categorie = VirementsInternes
              \/ t \in cibles /\ avant[t].source # "rule"

(* A call on reconciled rows: what it has done so far comes back to nothing. *)
Reprise(q) ==
    /\ avant \in [Transactions -> Lignes]
    /\ \A t \in Transactions : LigneCoherente(avant[t])
    /\ PlusRienDans(avant)
    /\ req[q].etape \in {"reinitialiser", "marquer", "regles", "candidats", "salaire", "credits"}
    /\ req[q].etape \in {"reinitialiser", "marquer"} => MarquesDAvant(req[q].cibles)
    /\ req[q].etape = "marquer" => \A t \in Transactions : Demarquee(t)
    /\ req[q].etape # "marquer" => lignes = avant

(* Nothing the table says of avant moves during the call. *)
LEMMA AvantResteLu ==
    ASSUME UNCHANGED <<avant, categories, regles>>, NEW q, Reprise(q)
    PROVE  /\ avant' \in [Transactions -> Lignes]
           /\ \A t \in Transactions : LigneCoherente(avant[t])'
           /\ PlusRienDans(avant)'
<1>1. EnVigueur' = EnVigueur /\ \A c : ParDefaut(c)' <=> ParDefaut(c)
  BY DEF EnVigueur, ParDefaut, Existe
<1>2. avant \in [Transactions -> Lignes] /\ \A t \in Transactions : LigneCoherente(avant[t])
  BY DEF Reprise
<1>3. \A t \in Transactions : LigneCoherente(avant[t])'
  BY <1>1, <1>2 DEF LigneCoherente
<1>4. PlusRienDans(avant)'
  BY <1>1 DEF Reprise, PlusRienDans, Correspond
<1> QED
  BY <1>2, <1>3, <1>4

LEMMA LignesEgales ==
    ASSUME NEW l \in Lignes, NEW m \in Lignes,
           m.statut = l.statut, m.datee = l.datee, m.categorie = l.categorie,
           m.source = l.source, m.regle = l.regle, m.interne = l.interne
    PROVE  m = l
BY DEF Lignes

(* What the mark puts back. *)
LEMMA MarqueRemise ==
    ASSUME NEW l \in Lignes, LigneCoherente(l), l.interne, l.source # "rule"
    PROVE  Marquee([l EXCEPT !.interne = FALSE]) = l
<1> DEFINE m == [l EXCEPT !.interne = FALSE]
<1>1. /\ l.source \in {"none", "manual"} /\ l.interne = TRUE
      /\ l.source = "none" => l.categorie = Sans /\ l.regle = Sans
  BY DEF LigneCoherente, Lignes, Sources
<1>2. /\ m.source = l.source /\ m.categorie = l.categorie /\ m.regle = l.regle
      /\ m.statut = l.statut /\ m.datee = l.datee /\ m.interne = FALSE
  BY DEF Lignes
<1>3. m \in Lignes
  BY DEF Lignes
<1>4. Marquee(m) \in Lignes
  BY <1>3 DEF Marquee, Lignes, Sources
<1>5. /\ Marquee(m).statut = l.statut /\ Marquee(m).datee = l.datee
      /\ Marquee(m).categorie = l.categorie /\ Marquee(m).source = l.source
      /\ Marquee(m).regle = l.regle /\ Marquee(m).interne = TRUE
  BY <1>1, <1>2, <1>3 DEF Marquee, Lignes
<1>6. Marquee(m).interne = l.interne
  BY <1>1, <1>5
<1>7. Marquee(m) = l
  <2> HIDE DEF m
  <2> QED
    BY <1>4, <1>5, <1>6, LignesEgales
<1> QED
  BY <1>7

(* A call starts on reconciled rows. *)
LEMMA RepriseCommence ==
    ASSUME TablesSaines, TachesSaines, Fini, NEW q \in Requetes, Apparier(q),
           req'[q].etape = "reinitialiser", avant' = lignes
    PROVE  Reprise(q)'
<1>1. /\ req'[q].cibles = Apparies(Mouvements)
      /\ UNCHANGED <<lignes, categories, regles>>
  <2>1. req' = [req EXCEPT ![q] = [Libre EXCEPT !.etape = "reinitialiser",
                                                !.tache = "reconciliation",
                                                !.cibles = Apparies(Mouvements)]]
    BY DEF Apparier
  <2> QED
    BY <2>1 DEF Apparier, TachesSaines, TypesTaches, Libre
<1>2. lignes \in [Transactions -> Lignes] /\ \A t \in Transactions : LigneCoherente(lignes[t])
  BY DEF TablesSaines, TypesTables
<1>3. EnVigueur' = EnVigueur /\ \A c : ParDefaut(c)' <=> ParDefaut(c)
  BY <1>1 DEF EnVigueur, ParDefaut, Existe
<1>4. PlusRienDans(avant)'
  <2>1. \A t \in {u \in Transactions : /\ lignes[u].statut # "absente"
                                      /\ lignes[u].categorie = Sans /\ ~lignes[u].interne} :
          t \in NonCategorisees
    BY DEF NonCategorisees, Stockees
  <2>2. PlusRienDans(lignes)
    BY <2>1 DEF PlusRienDans, Fini, PlusDeRegle, PlusDeCredit
  <2> QED
    BY <1>1, <1>3, <2>2 DEF PlusRienDans, Correspond
<1>5. \A t \in Transactions : LigneCoherente(avant[t])'
  BY <1>1, <1>2, <1>3 DEF LigneCoherente
<1>6. MarquesDAvant(req[q].cibles)'
  BY <1>1, AppariesStockees DEF MarquesDAvant, Fini, MarquesFaites, Stockees
<1> QED
  BY <1>1, <1>2, <1>4, <1>5, <1>6 DEF Reprise

LEMMA RepriseReinitialiser ==
    ASSUME TablesSaines, TachesSaines, NEW q \in Requetes, Reprise(q), Reinitialiser(q),
           UNCHANGED avant
    PROVE  Reprise(q)'
<1> DEFINE S == {t \in Stockees : lignes[t].interne /\ lignes[t].categorie # VirementsInternes}
<1>0. req \in [Requetes -> Demandes] /\ req[q] \in Demandes
  BY DEF TachesSaines, TypesTaches
<1>1. /\ req[q].etape = "reinitialiser"
      /\ lignes' = [t \in Transactions |-> IF t \in S THEN [lignes[t] EXCEPT !.interne = FALSE]
                                           ELSE lignes[t]]
      /\ req' = [req EXCEPT ![q].etape = "marquer"]
      /\ UNCHANGED <<categories, regles>>
  BY DEF Reinitialiser, Ecrire
<1>2. lignes = avant /\ MarquesDAvant(req[q].cibles)
  BY <1>1 DEF Reprise
<1>3. req'[q].etape = "marquer" /\ req'[q].cibles = req[q].cibles
  BY <1>0, <1>1 DEF Demandes
<1>4. ASSUME NEW t \in Transactions PROVE Demarquee(t)'
  <2>1. lignes'[t] = IF t \in S THEN [avant[t] EXCEPT !.interne = FALSE] ELSE avant[t]
    BY <1>1, <1>2
  <2>2. t \in S <=> /\ avant[t].statut # "absente" /\ avant[t].interne
                    /\ avant[t].categorie # VirementsInternes
    BY <1>2 DEF Stockees
  <2> HIDE DEF S
  <2> QED
    BY <2>1, <2>2 DEF Demarquee
<1>5. MarquesDAvant(req[q].cibles)'
  BY <1>2, <1>3 DEF MarquesDAvant
<1> QED
  BY <1>1, <1>3, <1>4, <1>5, AvantResteLu DEF Reprise

LEMMA RepriseMarquer ==
    ASSUME TablesSaines, TachesSaines, NEW q \in Requetes, Reprise(q), Marquer(q),
           UNCHANGED avant
    PROVE  Reprise(q)'
<1> DEFINE S == {t \in req[q].cibles : ~lignes[t].interne}
<1>0. /\ req \in [Requetes -> Demandes] /\ req[q] \in Demandes
      /\ avant \in [Transactions -> Lignes]
      /\ \A t \in Transactions : LigneCoherente(avant[t])
  BY DEF TachesSaines, TypesTaches, Reprise
<1>1. /\ req[q].etape = "marquer"
      /\ lignes' = [t \in Transactions |-> IF t \in S THEN Marquee(lignes[t]) ELSE lignes[t]]
      /\ req' = [req EXCEPT ![q].etape = "regles", ![q].cibles = {}]
      /\ UNCHANGED <<categories, regles>>
  BY DEF Marquer, Ecrire
<1>2. (\A t \in Transactions : Demarquee(t)) /\ MarquesDAvant(req[q].cibles)
  BY <1>1 DEF Reprise
<1>3. req'[q].etape = "regles"
  BY <1>0, <1>1 DEF Demandes
<1>4. ASSUME NEW t \in Transactions PROVE lignes'[t] = avant[t]
  <2>0. avant[t] \in Lignes /\ LigneCoherente(avant[t])
    BY <1>0
  <2>1. /\ t \in req[q].cibles => avant[t].interne /\ avant[t].statut # "absente"
        /\ avant[t].statut # "absente" /\ avant[t].interne =>
              \/ avant[t].categorie = VirementsInternes
              \/ t \in req[q].cibles /\ avant[t].source # "rule"
    BY <1>2 DEF MarquesDAvant
  <2>2. CASE /\ avant[t].statut # "absente" /\ avant[t].interne
             /\ avant[t].categorie # VirementsInternes
    <3>1. lignes[t] = [avant[t] EXCEPT !.interne = FALSE]
      BY <1>2, <2>2 DEF Demarquee
    <3>2. ~lignes[t].interne
      BY <2>0, <3>1 DEF Lignes
    <3>3. t \in S
      BY <2>1, <2>2, <3>2
    <3>4. lignes'[t] = Marquee(lignes[t])
      BY <1>1, <3>3
    <3> QED
      BY <2>0, <2>1, <2>2, <3>1, <3>4, MarqueRemise
  <2>3. CASE ~(/\ avant[t].statut # "absente" /\ avant[t].interne
               /\ avant[t].categorie # VirementsInternes)
    <3>1. lignes[t] = avant[t]
      BY <1>2, <2>3 DEF Demarquee
    <3>2. t \notin S
      BY <2>1, <3>1
    <3> QED
      BY <1>1, <3>1, <3>2
  <2> QED
    BY <2>2, <2>3
<1>5. lignes' = avant'
  BY <1>0, <1>1, <1>4
<1> QED
  BY <1>1, <1>3, <1>5, AvantResteLu DEF Reprise

(* The rules and the credits find nothing to do. *)
LEMMA RepriseEnLecture ==
    ASSUME TablesSaines, TachesSaines, LimiteSuffisante, NEW q \in Requetes, Appel(q), Reprise(q),
           Candidats(q) \/ ListerRegles(q) \/ ChoisirSalaire(q) \/ ListerCredits(q)
    PROVE  /\ lignes' = avant
           /\ UNCHANGED <<categories, regles>>
           /\ req'[q].etape \in {"candidats", "salaire", "credits"} \/ Terminer(q)
<1>0. /\ req \in [Requetes -> Demandes] /\ req[q] \in Demandes
      /\ req[q].tache = "reconciliation"
  BY DEF TachesSaines, TypesTaches, Appel, Isolee
<1>1. /\ UNCHANGED <<lignes, categories, regles>>
      /\ req[q].etape \in {"regles", "candidats", "salaire", "credits"}
  BY DEF Candidats, ListerRegles, ChoisirSalaire, ListerCredits
<1>2. lignes = avant /\ PlusRienDans(lignes)
  BY <1>1 DEF Reprise
<1>3. \A t \in NonCategorisees :
        /\ \A r \in EnVigueur : ~Correspond(r, t)
        /\ Donnees[t].montant >= 0 => \A c \in Categories : ~ParDefaut(c)
  BY <1>2 DEF PlusRienDans, NonCategorisees, Stockees
<1>4. Plafonner(NonCategorisees) = {NonCategorisees}
  BY NonCategoriseesStockees, RienDePlafonne
<1>5. CASE Candidats(q)
  <2>1. req[q].regle \in EnVigueur
    BY <1>5 DEF Candidats, Appel, Avancee, ResteAFaire
  <2>2. {t \in NonCategorisees : Correspond(req[q].regle, t)} = {}
    BY <1>3, <2>1
  <2>3. Suite(q)
    BY <1>4, <1>5, <2>2 DEF Candidats
  <2>4. req'[q].etape \in {"candidats", "salaire"}
    BY <1>0, <2>3 DEF Suite, Demandes
  <2> QED
    BY <1>1, <1>2, <2>4
<1>6. CASE ListerRegles(q)
  <2>1. PICK file \in Listes :
          req' = [req EXCEPT ![q] = IF file = <<>> THEN [req[q] EXCEPT !.etape = "salaire"]
                                    ELSE [req[q] EXCEPT !.etape = "candidats", !.regle = Head(file),
                                                        !.file = Tail(file)]]
    BY <1>6 DEF ListerRegles
  <2>2. req'[q].etape \in {"candidats", "salaire"}
    <3>1. CASE file = <<>>
      BY <1>0, <2>1, <3>1 DEF Demandes
    <3>2. CASE file # <<>>
      BY <1>0, <2>1, <3>2 DEF Demandes
    <3> QED
      BY <3>1, <3>2
  <2> QED
    BY <1>1, <1>2, <2>2
<1>7. CASE ChoisirSalaire(q)
  BY <1>0, <1>1, <1>2, <1>7 DEF ChoisirSalaire, Demandes
<1>8. CASE ListerCredits(q)
  <2>1. ParDefaut(req[q].categorie) /\ req[q].categorie \in Categories
    BY <1>8, ConstantesCategorisation DEF ListerCredits, Appel, Avancee, ParDefaut
  <2>2. {t \in NonCategorisees : Donnees[t].montant >= 0} = {}
    BY <1>3, <2>1
  <2>3. Terminer(q)
    BY <1>4, <1>8, <2>2, CreditsSansCategorie DEF ListerCredits
  <2> QED
    BY <1>1, <1>2, <2>3
<1> QED
  BY <1>5, <1>6, <1>7, <1>8

(* From one step of the call to the next, and at its answer. *)
LEMMA RepriseAvance ==
    ASSUME TablesSaines, TachesSaines, LimiteSuffisante, NEW q \in Requetes, Appel(q), Reprise(q),
           Poursuivre(q)
    PROVE  /\ UNCHANGED avant /\ req'[q] # Libre => Reprise(q)'
           /\ Terminer(q) => lignes' = avant
<1>0. req \in [Requetes -> Demandes]
  BY DEF TachesSaines, TypesTaches
<1>1. Terminer(q) => req'[q] = Libre
  BY <1>0 DEF Terminer
<1>2. ~Lot(q) /\ ~ParDefautEnLot(q) /\ ~Ranger(q)
  BY DEF Reprise, Lot, ParDefautEnLot, Ranger
<1>3. CASE Reinitialiser(q)
  BY <1>1, <1>3, AppelReinitialiser, RepriseReinitialiser
<1>4. CASE Marquer(q)
  BY <1>1, <1>4, AppelMarquer, RepriseMarquer
<1>5. CASE Candidats(q) \/ ListerRegles(q) \/ ChoisirSalaire(q) \/ ListerCredits(q)
  <2>1. /\ lignes' = avant
        /\ UNCHANGED <<categories, regles>>
        /\ req'[q].etape \in {"candidats", "salaire", "credits"} \/ Terminer(q)
    BY <1>5, RepriseEnLecture
  <2>2. ASSUME UNCHANGED avant, req'[q] # Libre PROVE Reprise(q)'
    BY <1>1, <2>1, <2>2, AvantResteLu DEF Reprise
  <2> QED
    BY <2>1, <2>2
<1> QED
  BY <1>2, <1>3, <1>4, <1>5 DEF Poursuivre

RepriseSuivie == avant # Sans => Reprise(seule)

LEMMA RepriseInductive ==
    LimiteSuffisante /\ Invariant /\ Observation /\ RepriseSuivie
      /\ [NextObserve]_<<vars, observation>>
       => RepriseSuivie' /\ (avant # Sans /\ reconcilie' => lignes' = avant)
<1> SUFFICES ASSUME LimiteSuffisante, Invariant, Observation, RepriseSuivie,
                    [NextObserve]_<<vars, observation>>
             PROVE  RepriseSuivie' /\ (avant # Sans /\ reconcilie' => lignes' = avant)
  OBVIOUS
<1>0. TablesSaines /\ TachesSaines
  BY InvariantEnDeux
<1>1. ASSUME reconcilie' = FALSE, avant' = Sans
      PROVE  RepriseSuivie' /\ (avant # Sans /\ reconcilie' => lignes' = avant)
  BY <1>1 DEF RepriseSuivie
<1>2. ASSUME NEW q \in Requetes, Commencer(q), NoterDebut(q)
      PROVE  RepriseSuivie' /\ (avant # Sans /\ reconcilie' => lignes' = avant)
  <2>1. reconcilie' = FALSE
    BY <1>2 DEF NoterDebut
  <2>2. CASE RienEnCours /\ req'[q].tache = "reconciliation" /\ reconcilie
    <3>1. seule' = q /\ avant' = lignes
      BY <1>2, <2>2 DEF NoterDebut
    <3>2. Reprise(q)'
      BY <1>0, <1>2, <2>2, <3>1, AppelCommence, RepriseCommence DEF Observation
    <3>3. Reprise(seule)'
      BY <3>1, <3>2 DEF Reprise
    <3> QED
      BY <2>1, <3>3 DEF RepriseSuivie
  <2>3. CASE ~(RienEnCours /\ req'[q].tache = "reconciliation" /\ reconcilie)
    BY <1>1, <1>2, <2>1, <2>3 DEF NoterDebut
  <2> QED
    BY <2>2, <2>3
<1>3. ASSUME NEW q \in Requetes, Poursuivre(q), NoterSuite(q), seule = q, avant # Sans
      PROVE  RepriseSuivie' /\ (avant # Sans /\ reconcilie' => lignes' = avant)
  <2>1. Appel(q) /\ Reprise(q) /\ ~reconcilie
    BY <1>3, RequetesReconnues DEF Observation, RepriseSuivie
  <2>2. /\ UNCHANGED avant /\ req'[q] # Libre => Reprise(q)'
        /\ Terminer(q) => lignes' = avant
        /\ (Appel(q)' /\ req'[q] # Libre) \/ (Fini' /\ Terminer(q))
    BY <1>0, <1>3, <2>1, AppelAvance, RepriseAvance
  <2>3. CASE req'[q] = Libre
    BY <1>3, <2>2, <2>3 DEF NoterSuite, RepriseSuivie
  <2>4. CASE req'[q] # Libre
    <3>1. UNCHANGED observation
      BY <1>3, <2>4 DEF NoterSuite
    <3>2. Reprise(seule)'
      BY <1>3, <2>2, <2>4, <3>1 DEF observation, Reprise
    <3> QED
      BY <2>1, <3>1, <3>2 DEF RepriseSuivie, observation
  <2> QED
    BY <2>3, <2>4
<1>4. ASSUME NEW q \in Requetes, NoterSuite(q), seule = q, avant = Sans
      PROVE  RepriseSuivie' /\ (avant # Sans /\ reconcilie' => lignes' = avant)
  BY <1>4 DEF NoterSuite, RepriseSuivie, observation
<1>5. ASSUME NEW q \in Requetes, NoterSuite(q), seule # q
      PROVE  RepriseSuivie' /\ (avant # Sans /\ reconcilie' => lignes' = avant)
  BY <1>1, <1>5 DEF NoterSuite
<1>6. CASE UNCHANGED <<vars, observation>>
  <2>1. UNCHANGED <<lignes, categories, regles, req, seule, reconcilie, avant>>
    BY <1>6 DEF vars, observation
  <2>2. EnVigueur' = EnVigueur /\ \A c : ParDefaut(c)' <=> ParDefaut(c)
    BY <2>1 DEF EnVigueur, ParDefaut, Existe
  <2>3. ASSUME avant # Sans PROVE Reprise(seule)'
    <3>1. Reprise(seule)
      BY <2>3 DEF RepriseSuivie
    <3>2. /\ MarquesDAvant(req[seule].cibles)' <=> MarquesDAvant(req[seule].cibles)
          /\ \A t : Demarquee(t)' <=> Demarquee(t)
      BY <2>1 DEF MarquesDAvant, Demarquee
    <3>3. /\ avant' \in [Transactions -> Lignes]
          /\ \A t \in Transactions : LigneCoherente(avant[t])'
          /\ PlusRienDans(avant)'
      BY <2>1, <3>1, AvantResteLu
    <3> QED
      BY <2>1, <3>1, <3>2, <3>3 DEF Reprise
  <2>4. avant # Sans => ~reconcilie'
    BY <2>1 DEF Observation
  <2> QED
    BY <2>1, <2>3, <2>4 DEF RepriseSuivie
<1> QED
  BY <1>1, <1>2, <1>3, <1>4, <1>5, <1>6 DEF NextObserve

(* README.md:77, « reconciliation idempotente »: a second undisturbed call   *)
(* ends on the rows it started from, although its reset takes marks away.    *)
THEOREM ReconciliationToujoursIdempotente ==
    LimiteSuffisante /\ SpecObserve => Idempotente
<1>1. InitObserve => Invariant /\ Observation /\ RepriseSuivie
  BY InvariantInit DEF InitObserve, Observation, RepriseSuivie
<1>2. Invariant /\ [NextObserve]_<<vars, observation>> => Invariant'
  BY PasObserve, InvariantInductif
<1>3. LimiteSuffisante => []LimiteSuffisante
  <2> SUFFICES ASSUME LimiteSuffisante PROVE []LimiteSuffisante
    OBVIOUS
  <2> QED
    BY PTL
<1>4. LimiteSuffisante /\ SpecObserve => [](Invariant /\ Observation /\ RepriseSuivie)
  BY <1>1, <1>2, <1>3, ObservationInductive, RepriseInductive, PTL DEF SpecObserve
<1>5. LimiteSuffisante /\ Invariant /\ Observation /\ RepriseSuivie
        /\ [NextObserve]_<<vars, observation>>
        => [avant # Sans /\ reconcilie' => lignes' = avant]_<<vars, observation>>
  BY RepriseInductive
<1> QED
  BY <1>3, <1>4, <1>5, PTL DEF SpecObserve, Idempotente

=============================================================================
