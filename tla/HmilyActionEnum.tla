--------------------------- MODULE HmilyActionEnum ---------------------------
(***************************************************************************)
(* The status codes that the console and the hmily runtime share through   *)
(* the status columns of hmily_transaction_global and                      *)
(* hmily_transaction_participant (enums/HmilyActionEnum.java).             *)
(***************************************************************************)
EXTENDS Integers

PRE_TRY    == 0
TRYING     == 1
CONFIRMING == 2
CANCELING  == 3
DELETE     == 4     \* logically deleted: the row stays, its work is over
DEATH      == 8     \* the retry limit was exceeded, nobody retries any more

Status == {PRE_TRY, TRYING, CONFIRMING, CANCELING, DELETE, DEATH}

\* The phases in which the runtime still works on a participant.
LiveStatus == {PRE_TRY, TRYING, CONFIRMING, CANCELING}

=============================================================================
