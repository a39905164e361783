-------------------------------- MODULE Relais --------------------------------
(***************************************************************************)
(* The events of the synchronisation on their way to the broker            *)
(* (relay/publisher.rs), and the graceful stop of the process (main.rs,    *)
(* worker/synchro.rs).  The worker awaits a place in a bounded queue for   *)
(* each event; an MQTT client empties the queue while it has a link; the   *)
(* stop waits for the worker.                                              *)
(*                                                                         *)
(* An event is <<n, k>>: the k-th event of the n-th synchronisation since  *)
(* the process started.                                                    *)
(***************************************************************************)
EXTENDS Naturals, Sequences, SequencesExt

CONSTANTS
    Capacite,       \* places of the queue (AsyncClient::new, 32)
    Longueurs,      \* how many events one synchronisation may publish
    MaxSyncs,       \* bound: synchronisations the process begins
    MaxCoupures     \* bound: links that break

ASSUME ConstantesRelais ==
    /\ Capacite \in Nat \ {0}
    /\ Longueurs \subseteq Nat \ {0}
    /\ MaxSyncs \in Nat
    /\ MaxCoupures \in Nat

VARIABLES
    phase,          \* of main: serving, waiting for the worker, over
    permis,         \* the permit Notify keeps for the worker
    tache,          \* of the worker: between cycles, in a cycle, ended
    restants,       \* accounts the cycle has not begun
    syncs,          \* synchronisations begun
    aPublier,       \* events of the synchronisation under way not accepted yet
    canal,          \* the queue between the worker and the MQTT client
    enVol,          \* what the client holds, sent or not, and not acknowledged
    lien,           \* the client's connection
    emis,           \* history: events the queue has accepted
    recus,          \* history: events as the broker first received them
    coupures        \* links broken so far

worker == <<tache, restants, syncs, aPublier>>
client == <<enVol, lien, recus, coupures>>
vars == <<phase, permis, tache, restants, syncs, aPublier, canal, enVol, lien, emis,
          recus, coupures>>

Init ==
    /\ phase = "service"
    /\ permis = FALSE
    /\ tache = "attente"
    /\ restants = 0
    /\ syncs = 0
    /\ aPublier = <<>>
    /\ canal = <<>>
    /\ enVol = <<>>
    /\ lien = FALSE
    /\ emis = {}
    /\ recus = <<>>
    /\ coupures = 0

Vivant == phase # "fini"

-------------------------------------------------------------------------------
(* The worker. *)

(* A tick: the cycle lists some accounts. *)
DebutCycle ==
    /\ tache = "attente"
    /\ tache' = "cycle"
    /\ restants' \in 0 .. (MaxSyncs - syncs)
    /\ UNCHANGED <<phase, permis, syncs, aPublier, canal, emis, client>>

(* Each account in turn publishes its start, and up to four more events. *)
DebutSync ==
    /\ tache = "cycle"
    /\ aPublier = <<>>
    /\ restants > 0
    /\ restants' = restants - 1
    /\ syncs' = syncs + 1
    /\ \E n \in Longueurs : aPublier' = [k \in 1..n |-> <<syncs + 1, k>>]
    /\ UNCHANGED <<phase, permis, tache, canal, emis, client>>

(* Mutant: try_publish, which drops the event when the queue is full. *)
PublierSansAttendre ==
    /\ aPublier # <<>>
    /\ canal' = IF Len(canal) < Capacite THEN Append(canal, Head(aPublier)) ELSE canal
    /\ emis' = emis \cup {Head(aPublier)}
    /\ aPublier' = Tail(aPublier)
    /\ UNCHANGED <<phase, permis, tache, restants, syncs, client>>

(* Mutant: every event is published by a task of its own. *)
PublierDetache ==
    /\ aPublier # <<>>
    /\ Len(canal) < Capacite
    /\ \E i \in 0 .. Len(canal) :
         canal' = SubSeq(canal, 1, i) \o <<Head(aPublier)>> \o SubSeq(canal, i + 1, Len(canal))
    /\ emis' = emis \cup {Head(aPublier)}
    /\ aPublier' = Tail(aPublier)
    /\ UNCHANGED <<phase, permis, tache, restants, syncs, client>>

(* publier_evenement: the event waits for a place. *)
Publier ==
    /\ aPublier # <<>>
    /\ Len(canal) < Capacite
    /\ canal' = Append(canal, Head(aPublier))
    /\ emis' = emis \cup {Head(aPublier)}
    /\ aPublier' = Tail(aPublier)
    /\ UNCHANGED <<phase, permis, tache, restants, syncs, client>>

(* The signature fails: the event is ignored. *)
Ignorer ==
    /\ aPublier # <<>>
    /\ aPublier' = Tail(aPublier)
    /\ UNCHANGED <<phase, permis, tache, restants, syncs, canal, emis, client>>

FinCycle ==
    /\ tache = "cycle"
    /\ aPublier = <<>>
    /\ restants = 0
    /\ tache' = "attente"
    /\ UNCHANGED <<phase, permis, restants, syncs, aPublier, canal, emis, client>>

(* The other branch of select!, looked at between two cycles. *)
FinTache ==
    /\ tache = "attente"
    /\ permis
    /\ permis' = FALSE
    /\ tache' = "terminee"
    /\ UNCHANGED <<phase, restants, syncs, aPublier, canal, emis, client>>

-------------------------------------------------------------------------------
(* main: the signal ends the HTTP server, then the subscriber, and then     *)
(* the worker is asked to stop and awaited.                                 *)

(* Mutant: notify_waiters, which wakes a task only if it is waiting. *)
DemanderArretSansPermis ==
    /\ phase = "service"
    /\ phase' = "arret"
    /\ permis' = (tache = "attente")
    /\ UNCHANGED <<worker, canal, emis, client>>

(* notify_one: the permit is kept until the worker looks. *)
DemanderArret ==
    /\ phase = "service"
    /\ phase' = "arret"
    /\ permis' = TRUE
    /\ UNCHANGED <<worker, canal, emis, client>>

(* The runtime is dropped with main: what the client held is lost. *)
Finir ==
    /\ phase = "arret"
    /\ tache = "terminee"
    /\ phase' = "fini"
    /\ canal' = <<>>
    /\ enVol' = <<>>
    /\ lien' = FALSE
    /\ UNCHANGED <<permis, worker, emis, recus, coupures>>

-------------------------------------------------------------------------------
(* The MQTT client and the broker (rumqttc, external): the loop task polls  *)
(* the client for ever, with a pause of five seconds after an error.        *)

Noter(vus, e) == IF e \in ToSet(vus) THEN vus ELSE Append(vus, e)

NoterTous(vus, paquets) == FoldLeft(Noter, vus, paquets)

(* The broker receives the next event of the queue. *)
Livrer ==
    /\ lien
    /\ canal # <<>>
    /\ recus' = Noter(recus, Head(canal))
    /\ canal' = Tail(canal)
    /\ enVol' = Append(enVol, Head(canal))
    /\ UNCHANGED <<phase, permis, worker, emis, lien, coupures>>

Accuser ==
    /\ lien
    /\ enVol # <<>>
    /\ enVol' = Tail(enVol)
    /\ UNCHANGED <<phase, permis, worker, canal, emis, lien, recus, coupures>>

(* The client takes the whole queue into its list of pending packets. *)
Couper ==
    /\ lien
    /\ coupures < MaxCoupures
    /\ coupures' = coupures + 1
    /\ lien' = FALSE
    /\ enVol' = enVol \o canal
    /\ canal' = <<>>
    /\ UNCHANGED <<phase, permis, worker, emis, recus>>

(* Mutant: the loop task ends at the first error. *)
RelierUneFois ==
    /\ Vivant
    /\ ~lien
    /\ coupures = 0
    /\ lien' = TRUE
    /\ UNCHANGED <<phase, permis, worker, canal, enVol, emis, recus, coupures>>

(* A new session forgets the pending packets; a session the broker has     *)
(* kept sends them again, before anything else, all of them unless it is   *)
(* cut once more and lost.                                                 *)
Relier ==
    /\ Vivant
    /\ ~lien
    /\ lien' = TRUE
    /\ enVol' = <<>>
    /\ \E n \in 0 .. Len(enVol) : recus' = NoterTous(recus, SubSeq(enVol, 1, n))
    /\ UNCHANGED <<phase, permis, worker, canal, emis, coupures>>

Worker == DebutCycle \/ DebutSync \/ Publier \/ Ignorer \/ FinCycle \/ FinTache

Client == Livrer \/ Accuser \/ Couper \/ Relier

Next == Worker \/ DemanderArret \/ Finir \/ Client

Spec == Init /\ [][Next]_vars

(* The tasks are polled for ever.  select! draws one of its ready branches  *)
(* at random, hence the strong fairness of the stop.                        *)
EquiteTaches ==
    /\ WF_vars(DebutSync)
    /\ WF_vars(Publier)
    /\ WF_vars(FinCycle)
    /\ SF_vars(FinTache)
    /\ WF_vars(Finir)
    /\ WF_vars(Livrer)
    /\ WF_vars(Accuser)

(* The broker comes back: an assumption on the environment. *)
SpecEquitable == Spec /\ EquiteTaches /\ WF_vars(Relier)

-------------------------------------------------------------------------------
(***************************************************************************)
(* Properties.                                                             *)
(***************************************************************************)

Avant(e, f) == e[1] < f[1] \/ (e[1] = f[1] /\ e[2] < f[2])

(* synchroniser_compte publishes the start before the outcome and one      *)
(* account after the other: the broker sees the events first in that       *)
(* order, whatever is lost, repeated or delayed by a broken link.          *)
OrdreConserve ==
    \A i, j \in DOMAIN recus : i < j => Avant(recus[i], recus[j])

(* The queue is full but the link holds: an accepted event is received, or *)
(* on its way, as long as no link has broken and the process lives.        *)
RienPerduEnLigne ==
    coupures = 0 /\ Vivant => emis \subseteq ToSet(recus) \cup ToSet(canal)

(* What the broker makes of the queue, order and content.                  *)
RelaisFidele == OrdreConserve /\ RienPerduEnLigne

(* scrum249_worker.rs:35, the worker "s'arrête proprement": a signal that   *)
(* comes in the middle of a cycle is not lost, and main ends.               *)
ArretTermine == phase = "arret" ~> phase = "fini"

(* scrum250_non_blocage.rs:185, "la_synchro_aboutit_meme_si_le_publisher_  *)
(* est_sollicite": no synchronisation stays in front of the queue for ever. *)
SyncPubliee == aPublier # <<>> ~> aPublier = <<>>

=============================================================================
