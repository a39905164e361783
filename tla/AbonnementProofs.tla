-------------------------- MODULE AbonnementProofs --------------------------
(***************************************************************************)
(* What outlives an announced deletion (Abonnement.ResteExplique), for     *)
(* every set of owners and of consents and every number of messages, lost  *)
(* links, failed statements, stops and restarts.                           *)
(***************************************************************************)
EXTENDS Abonnement, SequenceTheorems, TLAPS

(* Where the task may stand, and what it then holds: an owner from the     *)
(* message to the last DELETE, nothing between two messages.               *)
Effacement == {"listage", "revocation", "consents"}

Tache ==
    /\ boucle \in {"attente", "pause", "eteinte"} \cup Effacement
    /\ boucle \in Effacement => enCours \in Proprietaires
    /\ boucle \notin Effacement => enCours = Aucun

Formes ==
    /\ courtier \in Seq(Messages)
    /\ recus \in Seq(Messages)
    /\ Tache
    /\ consents \in [Proprietaires -> SUBSET Ids]
    /\ comptes \in [Proprietaires -> SUBSET Ids]
    /\ annonces \subseteq Proprietaires

(* A deletion that is neither on its way nor lost has been carried out; a   *)
(* consent recorded since has been noted, and only it has accounts.         *)
Aboutie(p) ==
    /\ p \in effaces
    /\ comptes[p] \subseteq consents[p]
    /\ consents[p] \subseteq {Nouveau}
    /\ consents[p] # {} => p \in tardifs

Invariant ==
    /\ Formes
    /\ \A p \in annonces : EnRoute(p) \/ p \in manques \/ Aboutie(p)

-------------------------------------------------------------------------------
(* The two ends of a queue (rumqttc hands the packets out in order,        *)
(* relay/abonne.rs:67).                                                    *)
LEMMA FileAllongee ==
    ASSUME NEW S, NEW s \in Seq(S), NEW e \in S
    PROVE  /\ Append(s, e) \in Seq(S)
           /\ ToSet(Append(s, e)) = ToSet(s) \cup {e}
<1>1. /\ Append(s, e) \in Seq(S)
      /\ Len(Append(s, e)) = Len(s) + 1
      /\ \A i \in 1 .. Len(s) : Append(s, e)[i] = s[i]
      /\ Append(s, e)[Len(s) + 1] = e
  BY AppendProperties
<1>2. Len(s) \in Nat /\ DOMAIN s = 1 .. Len(s) /\ DOMAIN Append(s, e) = 1 .. (Len(s) + 1)
  BY <1>1, LenProperties
<1>3. 1 .. (Len(s) + 1) = 1 .. Len(s) \cup {Len(s) + 1}
  BY <1>2
<1> QED
  BY <1>1, <1>2, <1>3 DEF ToSet

(* The handler gets the oldest packet, and the others keep theirs.         *)
LEMMA FileEntamee ==
    ASSUME NEW S, NEW s \in Seq(S), s # <<>>
    PROVE  /\ Head(s) \in S
           /\ Tail(s) \in Seq(S)
           /\ ToSet(s) = {Head(s)} \cup ToSet(Tail(s))
<1>1. /\ Head(s) \in S
      /\ Tail(s) \in Seq(S)
      /\ Head(s) = s[1]
      /\ Len(Tail(s)) = Len(s) - 1
      /\ \A i \in 1 .. Len(Tail(s)) : Tail(s)[i] = s[i + 1]
  BY HeadTailProperties
<1>2. Len(s) \in Nat \ {0} /\ DOMAIN s = 1 .. Len(s) /\ DOMAIN Tail(s) = 1 .. (Len(s) - 1)
  BY <1>1, LenProperties, EmptySeq
<1>3. ASSUME NEW x
      PROVE  x \in ToSet(s) <=> x = Head(s) \/ x \in ToSet(Tail(s))
  <2>1. ASSUME x \in ToSet(s) PROVE x = Head(s) \/ x \in ToSet(Tail(s))
    <3>1. PICK i \in 1 .. Len(s) : x = s[i]
      BY <2>1, <1>2 DEF ToSet
    <3>2. CASE i = 1
      BY <3>1, <3>2, <1>1
    <3>3. CASE i # 1
      <4>1. i - 1 \in 1 .. Len(Tail(s)) /\ Tail(s)[i - 1] = s[i]
        BY <3>3, <1>1, <1>2
      <4> QED
        BY <4>1, <3>1, <1>1, <1>2 DEF ToSet
    <3> QED
      BY <3>2, <3>3
  <2>2. ASSUME x = Head(s) \/ x \in ToSet(Tail(s)) PROVE x \in ToSet(s)
    <3>1. CASE x = Head(s)
      BY <3>1, <1>1, <1>2 DEF ToSet
    <3>2. CASE x \in ToSet(Tail(s))
      <4>1. PICK i \in 1 .. Len(Tail(s)) : x = Tail(s)[i]
        BY <3>2, <1>1, <1>2 DEF ToSet
      <4>2. i + 1 \in 1 .. Len(s) /\ x = s[i + 1]
        BY <4>1, <1>1, <1>2
      <4> QED
        BY <4>2, <1>2 DEF ToSet
    <3> QED
      BY <2>2, <3>1, <3>2
  <2> QED
    BY <2>1, <2>2
<1> QED
  BY <1>1, <1>3

-------------------------------------------------------------------------------
(* No step leaves an announced deletion without its message, its loss or   *)
(* its end.                                                                *)
LEMMA InvariantGarde == Invariant /\ [Next]_vars => Invariant'
<1> USE ConstantesAbonnement DEF Messages, Ids, Effacement, processus, tables, requetes,
                                 histoire
<1> SUFFICES ASSUME Invariant, [Next]_vars
             PROVE  Invariant'
  OBVIOUS
<1>f. Formes
  BY DEF Invariant
<1>a. \A p \in annonces : EnRoute(p) \/ p \in manques \/ Aboutie(p)
  BY DEF Invariant
<1>1. CASE Interrompre
  <2>1. Formes'
    BY <1>f, <1>1 DEF Formes, Tache, Interrompre
  <2>2. \A p \in annonces' : (EnRoute(p) \/ p \in manques \/ Aboutie(p))'
    BY <1>f, <1>a, <1>1 DEF Formes, Tache, EnRoute, Aboutie, Interrompre
  <2> QED
    BY <2>1, <2>2 DEF Invariant
<1>2. CASE Reprendre
  <2>1. Formes'
    BY <1>f, <1>2 DEF Formes, Tache, Reprendre
  <2>2. \A p \in annonces' : (EnRoute(p) \/ p \in manques \/ Aboutie(p))'
    BY <1>f, <1>a, <1>2 DEF Formes, Tache, EnRoute, Aboutie, Reprendre
  <2> QED
    BY <2>1, <2>2 DEF Invariant
<1>3. CASE Abonner
  <2>1. Formes'
    BY <1>f, <1>3 DEF Formes, Tache, Abonner
  <2>2. \A p \in annonces' : (EnRoute(p) \/ p \in manques \/ Aboutie(p))'
    BY <1>f, <1>a, <1>3 DEF Formes, Tache, EnRoute, Aboutie, Abonner
  <2> QED
    BY <2>1, <2>2 DEF Invariant
<1>4. CASE Recevoir
  <2>a. Head(courtier) \in Messages /\ Tail(courtier) \in Seq(Messages)
        /\ ToSet(courtier) = {Head(courtier)} \cup ToSet(Tail(courtier))
    BY <1>f, <1>4, FileEntamee DEF Formes, Recevoir
  <2>b. recus' \in Seq(Messages) /\ ToSet(recus') = ToSet(recus) \cup {Head(courtier)}
    BY <1>f, <1>4, <2>a, FileAllongee DEF Formes, Recevoir
  <2>1. Formes'
    BY <1>f, <1>4, <2>a, <2>b DEF Formes, Tache, Recevoir
  <2>2. \A p \in annonces' : (EnRoute(p) \/ p \in manques \/ Aboutie(p))'
    BY <1>f, <1>a, <1>4, <2>a, <2>b DEF Formes, Tache, EnRoute, Aboutie, Recevoir
  <2> QED
    BY <2>1, <2>2 DEF Invariant
<1>5. CASE Traiter
  <2>a. Head(recus) \in Messages /\ Tail(recus) \in Seq(Messages)
        /\ ToSet(recus) = {Head(recus)} \cup ToSet(Tail(recus))
    BY <1>f, <1>5, FileEntamee DEF Formes, Traiter
  <2>1. Formes'
    BY <1>f, <1>5, <2>a DEF Formes, Tache, Traiter
  <2>2. \A p \in annonces' : (EnRoute(p) \/ p \in manques \/ Aboutie(p))'
    BY <1>f, <1>a, <1>5, <2>a DEF Formes, Tache, EnRoute, Aboutie, Traiter
  <2> QED
    BY <2>1, <2>2 DEF Invariant
<1>6. CASE Lister
  <2>1. Formes'
    BY <1>f, <1>6 DEF Formes, Tache, Lister
  <2>2. \A p \in annonces' : (EnRoute(p) \/ p \in manques \/ Aboutie(p))'
    BY <1>f, <1>a, <1>6 DEF Formes, Tache, EnRoute, Aboutie, Lister
  <2> QED
    BY <2>1, <2>2 DEF Invariant
<1>7. ASSUME NEW k \in Ids, Revoquer(k)
      PROVE  Invariant'
  <2>1. Formes'
    BY <1>f, <1>7 DEF Formes, Tache, Revoquer
  <2>2. \A p \in annonces' : (EnRoute(p) \/ p \in manques \/ Aboutie(p))'
    BY <1>f, <1>a, <1>7 DEF Formes, Tache, EnRoute, Aboutie, Revoquer
  <2> QED
    BY <2>1, <2>2 DEF Invariant
<1>8. CASE SupprimerComptes
  <2>1. Formes'
    BY <1>f, <1>8 DEF Formes, Tache, SupprimerComptes
  <2>2. \A p \in annonces' : (EnRoute(p) \/ p \in manques \/ Aboutie(p))'
    BY <1>f, <1>a, <1>8 DEF Formes, Tache, EnRoute, Aboutie, SupprimerComptes
  <2> QED
    BY <2>1, <2>2 DEF Invariant
<1>9. CASE SupprimerConsents
  <2>1. Formes'
    BY <1>f, <1>9 DEF Formes, Tache, SupprimerConsents
  <2>2. \A p \in annonces' : (EnRoute(p) \/ p \in manques \/ Aboutie(p))'
    BY <1>f, <1>a, <1>9 DEF Formes, Tache, EnRoute, Aboutie, SupprimerConsents
  <2> QED
    BY <2>1, <2>2 DEF Invariant
<1>10. ASSUME NEW msg \in Messages, Publier(msg)
      PROVE  Invariant'
  <2>1. Formes'
    BY <1>f, <1>10 DEF Formes, Tache, Publier
  <2>2. ToSet(Append(courtier, msg)) = ToSet(courtier) \cup {msg}
    BY <1>f, FileAllongee DEF Formes
  <2>3. \A p \in annonces' : (EnRoute(p) \/ p \in manques \/ Aboutie(p))'
    BY <1>f, <1>a, <1>10, <2>2 DEF Formes, Tache, EnRoute, Aboutie, Publier
  <2> QED
    BY <2>1, <2>3 DEF Invariant
<1>11. CASE LienRompt
  <2>1. Formes'
    BY <1>f, <1>11 DEF Formes, Tache, LienRompt
  <2>2. \A p \in annonces' : (EnRoute(p) \/ p \in manques \/ Aboutie(p))'
    BY <1>f, <1>a, <1>11 DEF Formes, Tache, EnRoute, Aboutie, LienRompt
  <2> QED
    BY <2>1, <2>2 DEF Invariant
<1>12. CASE BanqueMuette
  <2>1. Formes'
    BY <1>f, <1>12 DEF Formes, Tache, BanqueMuette
  <2>2. \A p \in annonces' : (EnRoute(p) \/ p \in manques \/ Aboutie(p))'
    BY <1>f, <1>a, <1>12 DEF Formes, Tache, EnRoute, Aboutie, BanqueMuette
  <2> QED
    BY <2>1, <2>2 DEF Invariant
<1>13. CASE EffacementEchoue
  <2>1. Formes'
    BY <1>f, <1>13 DEF Formes, Tache, EffacementEchoue
  <2>2. \A p \in annonces' : (EnRoute(p) \/ p \in manques \/ Aboutie(p))'
    BY <1>f, <1>a, <1>13 DEF Formes, Tache, EnRoute, Aboutie, EffacementEchoue
  <2> QED
    BY <2>1, <2>2 DEF Invariant
<1>14. CASE Eteindre
  <2>1. Formes'
    BY <1>f, <1>14 DEF Formes, Tache, Eteindre
  <2>2. \A p \in annonces' : (EnRoute(p) \/ p \in manques \/ Aboutie(p))'
    BY <1>f, <1>a, <1>14 DEF Formes, Tache, EnRoute, Aboutie, Eteindre
  <2> QED
    BY <2>1, <2>2 DEF Invariant
<1>15. CASE Demarrer
  <2>1. Formes'
    BY <1>f, <1>15 DEF Formes, Tache, Demarrer
  <2>2. \A p \in annonces' : (EnRoute(p) \/ p \in manques \/ Aboutie(p))'
    BY <1>f, <1>a, <1>15 DEF Formes, Tache, EnRoute, Aboutie, Demarrer
  <2> QED
    BY <2>1, <2>2 DEF Invariant
<1>16. ASSUME NEW p \in Proprietaires, Creer(p)
      PROVE  Invariant'
  <2>1. Formes'
    BY <1>f, <1>16 DEF Formes, Tache, Creer
  <2>2. \A x \in annonces' : (EnRoute(x) \/ x \in manques \/ Aboutie(x))'
    BY <1>f, <1>a, <1>16 DEF Formes, Tache, EnRoute, Aboutie, Creer
  <2> QED
    BY <2>1, <2>2 DEF Invariant
<1>17. ASSUME NEW p \in Proprietaires, EnregistrerInitie(p)
      PROVE  Invariant'
  <2>1. Formes'
    BY <1>f, <1>17 DEF Formes, Tache, EnregistrerInitie
  <2>2. \A x \in annonces' : (EnRoute(x) \/ x \in manques \/ Aboutie(x))'
    BY <1>f, <1>a, <1>17 DEF Formes, Tache, EnRoute, Aboutie, EnregistrerInitie
  <2> QED
    BY <2>1, <2>2 DEF Invariant
<1>18. ASSUME NEW p \in Proprietaires, Rappeler(p)
      PROVE  Invariant'
  <2>1. Formes'
    BY <1>f, <1>18 DEF Formes, Tache, Rappeler
  <2>2. \A x \in annonces' : (EnRoute(x) \/ x \in manques \/ Aboutie(x))'
    BY <1>f, <1>a, <1>18 DEF Formes, Tache, EnRoute, Aboutie, Rappeler
  <2> QED
    BY <2>1, <2>2 DEF Invariant
<1>19. ASSUME NEW p \in Proprietaires, Activer(p)
      PROVE  Invariant'
  <2>1. Formes'
    BY <1>f, <1>19 DEF Formes, Tache, Activer
  <2>2. \A x \in annonces' : (EnRoute(x) \/ x \in manques \/ Aboutie(x))'
    BY <1>f, <1>a, <1>19 DEF Formes, Tache, EnRoute, Aboutie, Activer
  <2> QED
    BY <2>1, <2>2 DEF Invariant
<1>20. ASSUME NEW p \in Proprietaires, Inserer(p)
      PROVE  Invariant'
  <2>1. Formes'
    BY <1>f, <1>20 DEF Formes, Tache, Inserer
  <2>2. \A x \in annonces' : (EnRoute(x) \/ x \in manques \/ Aboutie(x))'
    BY <1>f, <1>a, <1>20 DEF Formes, Tache, EnRoute, Aboutie, Inserer
  <2> QED
    BY <2>1, <2>2 DEF Invariant
<1>21. ASSUME NEW p \in Proprietaires, Terminer(p)
      PROVE  Invariant'
  <2>1. Formes'
    BY <1>f, <1>21 DEF Formes, Tache, Terminer
  <2>2. \A x \in annonces' : (EnRoute(x) \/ x \in manques \/ Aboutie(x))'
    BY <1>f, <1>a, <1>21 DEF Formes, Tache, EnRoute, Aboutie, Terminer
  <2> QED
    BY <2>1, <2>2 DEF Invariant
<1>22. CASE UNCHANGED vars
  BY <1>22 DEF Invariant, Formes, Tache, EnRoute, Aboutie, vars
<1> QED
  BY <1>1, <1>2, <1>3, <1>4, <1>5, <1>6, <1>7, <1>8, <1>9, <1>10, <1>11, <1>12, <1>13, <1>14, <1>15, <1>16, <1>17, <1>18,
   <1>19, <1>20, <1>21, <1>22 DEF Next, Boucle

(* Before the first message there is nothing to explain.                   *)
LEMMA InvariantInitial == Init => Invariant
<1> SUFFICES ASSUME Init
             PROVE  Invariant
  OBVIOUS
<1>1. <<>> \in Seq(Messages)
  BY EmptySeq
<1> QED
  BY <1>1 DEF Init, Invariant, Formes, Tache, Effacement, Ids

(* What the property adds to the loop: the message an owner's deletion      *)
(* still has, its loss, or the traces of its end.                          *)
THEOREM InvariantDuSuivi == Spec => []Invariant
BY InvariantInitial, InvariantGarde, PTL DEF Spec

(* The rows that outlive the announced deletion of their owner have one of  *)
(* the three explanations, whatever the order of the messages, the links    *)
(* and the stops (relay/handler.rs:27-60, domain/effacement.rs:81-89).      *)
THEOREM ResteToujoursExplique == Spec => []ResteExplique
<1>1. Invariant => ResteExplique
  BY ConstantesAbonnement DEF Invariant, Formes, Aboutie, ResteExplique
<1> QED
  BY <1>1, InvariantDuSuivi, PTL

=============================================================================
