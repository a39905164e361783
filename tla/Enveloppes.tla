----------------------------- MODULE Enveloppes -----------------------------
(* The envelopes beside the monthly screens: the owner files transactions in   *)
(* them by hand (handlers/enveloppes.rs), and GET /enveloppes joins in memory  *)
(* two SELECTs, the envelopes then what was spent in each of them              *)
(* (repository/enveloppes.rs), while another device creates, deletes and files.*)
(*                                                                             *)
(* One request of the owner is answered at a time, a screen of Previsions or   *)
(* the envelopes; the writes of the other device come in between.              *)
EXTENDS Previsions

CONSTANTS
    Budgets,       \* the envelopes, by identifier
    Affectables    \* the operations the owner files in them

ASSUME EnveloppesBienFormees ==
    /\ Affectables \subseteq Operations
    /\ Aucune \notin Budgets

VARIABLES
    enveloppe,     \* envelope -> neuve, existe or supprimee
    affectee,      \* operation -> its envelope, or Aucune
    suivi,         \* the request on the envelopes being answered
    fideles        \* history: <<operation, envelope>>, so since the request began

varsEnveloppes == <<vars, enveloppe, affectee, suivi, fideles>>

\* listees: first SELECT; lignes: envelope -> operations added up; vise: the
\* envelope an update answers for; presentes: history, those that existed all
\* along.
SuiviRepos == [etape |-> "repos", vise |-> Aucune, listees |-> {}, lignes |-> Vide, presentes |-> {}]

Existantes == {e \in Budgets : enveloppe[e] = "existe"}
Affectations == {<<o, affectee[o]>> : o \in {p \in Affectables : affectee[p] # Aucune}}
SuiviEnCours == suivi.etape \in {"lister", "consommer"}

(********************************* the answer ********************************)

Ouvrir(vise) ==
    /\ ~EnCours /\ ~SuiviEnCours
    /\ suivi' = [SuiviRepos EXCEPT !.etape = "lister", !.vise = vise, !.presentes = Existantes]
    /\ fideles' = Affectations
    /\ lecture' = Repos
    /\ remue' = FALSE
    /\ redatees' = {}
    /\ UNCHANGED <<donnees, ecritures, enveloppe, affectee>>

ListerDemande == Ouvrir(Aucune)

\* UPDATE ... RETURNING, 404 when it returns nothing; then the whole list again.
ModifierEnveloppe(e) == e \in Existantes /\ Ouvrir(e)

ListerEnveloppes ==
    /\ suivi.etape = "lister"
    /\ suivi' = [suivi EXCEPT !.etape = "consommer", !.listees = Existantes]
    /\ UNCHANGED <<vars, enveloppe, affectee, fideles>>

Consommees(e) == {o \in Affectables : affectee[o] = e}

\* Mutant: one SELECT for each envelope.
LireUneConsommation ==
    /\ suivi.etape = "consommer"
    /\ \E e \in suivi.listees \ DOMAIN suivi.lignes :
         LET lignes == [x \in DOMAIN suivi.lignes \cup {e} |->
                           IF x = e THEN Consommees(e) ELSE suivi.lignes[x]] IN
         suivi' = [suivi EXCEPT !.lignes = lignes,
                                !.etape = IF DOMAIN lignes = suivi.listees THEN "rendue" ELSE @]
    /\ UNCHANGED <<vars, enveloppe, affectee, fideles>>

\* An update keeps the line of its envelope, at zero when it is not listed.
LireConsommations ==
    /\ suivi.etape = "consommer"
    /\ LET montrees == IF suivi.vise = Aucune THEN suivi.listees ELSE {suivi.vise} IN
       suivi' = [suivi EXCEPT !.etape = "rendue",
                   !.lignes = [e \in montrees |-> IF e \in suivi.listees THEN Consommees(e) ELSE {}]]
    /\ UNCHANGED <<vars, enveloppe, affectee, fideles>>

(******************************* the other device ****************************)

CreerEnveloppe(e) ==
    /\ Ecrire
    /\ enveloppe[e] = "neuve"
    /\ enveloppe' = [enveloppe EXCEPT ![e] = "existe"]
    /\ UNCHANGED <<donnees, lecture, redatees, affectee, suivi, fideles>>

\* The foreign key puts NULL in the transactions of the envelope.
SupprimerEnveloppe(e) ==
    /\ Ecrire
    /\ enveloppe[e] = "existe"
    /\ enveloppe' = [enveloppe EXCEPT ![e] = "supprimee"]
    /\ affectee' = [o \in Affectables |-> IF affectee[o] = e THEN Aucune ELSE affectee[o]]
    /\ suivi' = [suivi EXCEPT !.presentes = @ \ {e}]
    /\ fideles' = {f \in fideles : f[2] # e}
    /\ UNCHANGED <<donnees, lecture, redatees>>

\* One UPDATE: a stored transaction, an envelope that exists or none at all.
Affecter(o, e) ==
    /\ Ecrire
    /\ o \in enregistrees
    /\ e \in Existantes \cup {Aucune} /\ e # affectee[o]
    /\ affectee' = [affectee EXCEPT ![o] = e]
    /\ fideles' = {f \in fideles : f[1] # o}
    /\ UNCHANGED <<donnees, lecture, redatees, enveloppe, suivi>>

(******************************* specification *******************************)

\* The owner already has an envelope, and filed an operation in one of them.
InitEnveloppes ==
    /\ Init
    /\ enveloppe \in [Budgets -> {"neuve", "existe"}]
    /\ Existantes # {}
    /\ affectee \in [Affectables -> Existantes \cup {Aucune}]
    /\ \A o \in Affectables \ Anterieures : affectee[o] = Aucune
    /\ suivi = SuiviRepos
    /\ fideles = {}

Ecran ==
    \/ /\ ~SuiviEnCours
       /\ \E e \in Ecrans, m \in MoisDemandes : Demander(e, m)
       /\ suivi' = SuiviRepos
       /\ fideles' = {}
       /\ UNCHANGED <<enveloppe, affectee>>
    \/ /\ \/ Lire \/ Synchroniser \/ Modifier \/ \E o \in Operations : Annoncer(o) \/ Passer(o)
       /\ UNCHANGED <<enveloppe, affectee, suivi, fideles>>

NextEnveloppes ==
    \/ Ecran
    \/ ListerDemande \/ ListerEnveloppes \/ LireConsommations
    \/ \E e \in Budgets : ModifierEnveloppe(e) \/ CreerEnveloppe(e) \/ SupprimerEnveloppe(e)
    \/ \E o \in Affectables, e \in Budgets \cup {Aucune} : Affecter(o, e)

SpecEnveloppes == InitEnveloppes /\ [][NextEnveloppes]_varsEnveloppes

(********************************* properties ********************************)

\* An answer on the envelopes is one the owner can add up, whatever the other
\* device moves meanwhile: no operation is in two lines, one that stayed in an
\* envelope shown is in its line, and no envelope that existed all along is
\* missing (repository/enveloppes.rs:95-126: envelopes first, then one SELECT
\* of all that is filed).
EnveloppeRecoupee ==
    suivi.etape = "rendue" =>
        /\ \A e, f \in DOMAIN suivi.lignes : e # f => suivi.lignes[e] \cap suivi.lignes[f] = {}
        /\ \A f \in fideles : f[2] \in DOMAIN suivi.lignes => f[1] \in suivi.lignes[f[2]]
        /\ suivi.vise = Aucune => suivi.presentes \subseteq DOMAIN suivi.lignes

=============================================================================
