---------------------------- MODULE MCRecurrences ----------------------------
(* Six operations of one counterparty and one of another.  Four monthly ones
   whose amounts drift past the tolerance, one at the same date as another,
   one without a date, so that clusters split, tie and lose a member.  Dates
   and references change from one label to the next. *)
EXTENDS Recurrences

MCOperations == 1 .. 7
MCLibelles ==
    << <<"PRLV", "SEPA", "FREE", "REF", "6619">>, <<"PRLV", "SEPA", "FREE", "07/07/26">>,
       <<"PRLV", "FREE", "AOUT">>, <<"FREE">>, <<"CB", "FREE", "12/05">>, <<"FREE", "MANDAT">>,
       <<"PRLV", "SEPA", "FREE", "MOBILE", "REF", "6619">> >>
MCMontant == <<1000, 1060, 1100, 1120, 1050, 1060, 1000>>
MCDate == <<0, 30, 61, 91, 30, 61, 61>>
MCSansDate == {6}

=============================================================================
