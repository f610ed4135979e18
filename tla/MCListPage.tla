----------------------------- MODULE MCListPage -----------------------------
(* Small instances of ListPage.                                             *)
EXTENDS ListPage

CONSTANTS MaxTrans, MaxSize

MCTrans == 1..MaxTrans
MCSizes == 1..MaxSize
=============================================================================
