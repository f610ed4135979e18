---------------------------- MODULE MCNavigation ----------------------------
(* The login page (chunk 5) and two pages inside manage (chunk 4).            *)
EXTENDS Navigation

MCRecordsOf == [p \in Pages |->
    CASE p = "/" -> <<"login">>
      [] p = "/transactionRecoveryInfo" -> <<"manage", "list">>
      [] p = "/adminSet" -> <<"manage", "adminSet">>]
=============================================================================
