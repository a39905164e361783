----------------------------- MODULE SynchroTours -----------------------------
(***************************************************************************)
(* The turns of the accounts in the synchronisation: a history beside      *)
(* SynchroComptes that counts, for an account that is due and waits, the   *)
(* slots the others have been given.  The steps are those of               *)
(* SynchroComptes; nothing reads the history.                              *)
(***************************************************************************)
EXTENDS SynchroComptes

VARIABLE
    depasse         \* depasse[c][d]: slots d got while c was due and waited

varsTours == <<vars, depasse>>

(* A slot was reserved for the account in this step. *)
SertCompte(d) == comptes'[d].prochaine # comptes[d].prochaine

(* The wait of an account starts over with its own slot, and ends when it  *)
(* is no longer due: its row, its consent, or its quota of the day.        *)
Noter ==
    depasse' = [c \in Comptes |-> [d \in Comptes |->
                  IF SertCompte(c) \/ ~Echeant(c, temps) \/ ~Echeant(c, temps)' THEN 0
                  ELSE depasse[c][d] + (IF SertCompte(d) THEN 1 ELSE 0)]]

InitTours == Init /\ depasse = [c \in Comptes |-> [d \in Comptes |-> 0]]
NextTours == Next /\ Noter

SpecTours == InitTours /\ [][NextTours]_varsTours
SpecToursEquitable == SpecTours /\ Equite

-------------------------------------------------------------------------------
(* While an account is due and waits, no other account is given more than  *)
(* two slots, whatever cycles run over, are abandoned on a failed          *)
(* statement or are cut by a stop or a crash: the first in a cycle that    *)
(* listed before the account was due, the second in one that listed both   *)
(* and found the other older (domain/synchro.rs:154-163,                   *)
(* repository/bank_accounts.rs:413-424).                                   *)
TourRespecte ==
    \A c, d \in Comptes : depasse[c][d] <= 2

===============================================================================
