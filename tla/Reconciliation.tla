---------------------------- MODULE Reconciliation ----------------------------
(***************************************************************************)
(* What a call of recategoriser achieves when nothing else runs while it   *)
(* does: the specification Categorisation with three history variables     *)
(* that tell such a call apart.  Whatever happened before, requests cut     *)
(* half-way and races included, the call starts from the rows it finds.    *)
(***************************************************************************)
EXTENDS Categorisation

VARIABLES
    seule,          \* the call that has had the database to itself, or Sans
    reconcilie,     \* such a call has just ended and nothing happened since
    avant           \* the rows such a call started from, if reconciled, or Sans

ASSUME RequetesReconnues == Sans \notin Requetes

observation == <<seule, reconcilie, avant>>

InitObserve ==
    /\ Init
    /\ seule = Sans
    /\ reconcilie = FALSE
    /\ avant = Sans

RienEnCours == insertion = Repos /\ \A q \in Requetes : req[q] = Libre

NoterDebut(q) ==
    LET isolee == RienEnCours /\ req'[q].tache = "reconciliation"
    IN  /\ seule' = IF isolee THEN q ELSE Sans
        /\ avant' = IF isolee /\ reconcilie THEN lignes ELSE Sans
        /\ reconcilie' = FALSE

NoterSuite(q) ==
    IF seule = q
    THEN IF req'[q] = Libre
         THEN seule' = Sans /\ reconcilie' = TRUE /\ avant' = Sans
         ELSE UNCHANGED observation
    ELSE seule' = Sans /\ reconcilie' = FALSE /\ avant' = Sans

NextObserve ==
    \/ /\ Worker \/ PasCategorie \/ \E q \in Requetes : Interrompre(q)
       /\ seule' = Sans /\ reconcilie' = FALSE /\ avant' = Sans
    \/ \E q \in Requetes : Commencer(q) /\ NoterDebut(q)
    \/ \E q \in Requetes : Poursuivre(q) /\ NoterSuite(q)

SpecObserve == InitObserve /\ [][NextObserve]_<<vars, observation>>

-------------------------------------------------------------------------------
(* handlers/transactions.rs:29: the call repairs the data by itself.  The   *)
(* transfers that are excluded are those the pairing finds now, and those of  *)
(* the system category; a transfer carries no automatic category; every      *)
(* other row has one if a rule or the default gives one.                     *)
ReconciliationComplete ==
    reconcilie =>
        /\ \A t \in Apparies(Mouvements) : lignes[t].interne
        /\ \A t \in Stockees : lignes[t].interne =>
              \/ lignes[t].categorie = VirementsInternes
              \/ t \in Apparies(Mouvements) /\ lignes[t].source # "rule"
        /\ \A t \in NonCategorisees :
              /\ \A r \in EnVigueur : ~Correspond(r, t)
              /\ Donnees[t].montant >= 0 => \A c \in Categories : ~ParDefaut(c)

(* README.md:77, « reconciliation idempotente »: the portal calls it at each  *)
(* load; on reconciled rows the reset, the mark and the batches end where    *)
(* they began.                                                              *)
Idempotente ==
    [][avant # Sans /\ reconcilie' => lignes' = avant]_<<vars, observation>>

=============================================================================
