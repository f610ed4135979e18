---------------------------- MODULE MongoRepository ----------------------------
(***************************************************************************)
(* The console on MongoDB (MongoHmilyRepositoryService over                 *)
(* MongodbTemplateService): the same repository methods, one action per     *)
(* operation on a document.  They differ from the relational ones in what   *)
(* they learn from the store: an update reports how many documents it      *)
(* changed, a lookup returns a list that may be empty.                      *)
(***************************************************************************)
EXTENDS AdminServer

\* The fields of a document of hmily_transaction_global, and the one
\* getCompensationInfo looks the transaction up by.
TransactionFields ==
    {"trans_id", "app_name", "status", "trans_type", "retry", "version", "create_time", "update_time"}
LookupField == "transaction_id"

FindTransactions(p) ==
    {t \in {TransOf[p]} : global[t] \in Status /\ LookupField \in TransactionFields}

-----------------------------------------------------------------------------
\* MongoDB removes the documents of one delete one after the other.
DeleteDocument(w) ==
    /\ At(w, "delete")
    /\ \E p \in call[w].ids : Stored(p) /\ participant' = AfterDelete({p})
    /\ UNCHANGED <<global, decision, serverVars>>

\* Slip: the answer does not wait for the removal.
DeleteUnacknowledged(w) ==
    /\ At(w, "delete")
    /\ Answer(w, "removed")
    /\ UNCHANGED <<storeVars, interrupted, faults>>

DeleteDone(w) ==
    /\ At(w, "delete")
    /\ \A p \in call[w].ids : ~ Stored(p)
    /\ Answer(w, "removed")
    /\ UNCHANGED <<storeVars, interrupted, faults>>

\* Slip: only a live document counts as updated.
ModifiedLive(p, n) == Live(p) /\ participant[p].retry # n

\* update() returns the modified count: 0 when there is no such document and
\* also when the document already holds this retry count.
Modified(p, n) == Stored(p) /\ participant[p].retry # n

SetRetry(w) ==
    /\ At(w, "setRetry")
    /\ \E p \in call[w].ids :
         /\ participant' = AfterSetRetry(p, call[w].retry)
         /\ \/ /\ Modified(p, call[w].retry)
               /\ Goto(w, "resetStatus")
               /\ UNCHANGED interrupted
            \/ /\ ~ Modified(p, call[w].retry)
               /\ Answer(w, "notUpdated")
               /\ interrupted' = interrupted \ {p}
    /\ UNCHANGED <<global, decision, faults>>

\* The count of this second update is not looked at.
ResetStatus(w) ==
    /\ At(w, "resetStatus")
    /\ \E p \in call[w].ids : participant' = AfterResetStatus(p)
    /\ interrupted' = interrupted \ call[w].ids
    /\ Answer(w, "updated")
    /\ UNCHANGED <<global, decision, faults>>

\* Slip: the answer for a document that is not there is missing.
FindParticipantStored(w) ==
    /\ At(w, "findParticipant")
    /\ \E p \in call[w].ids : Stored(p) /\ Goto(w, "findTransaction")
    /\ UNCHANGED <<storeVars, interrupted, faults>>

FindParticipant(w) ==
    /\ At(w, "findParticipant")
    /\ \E p \in call[w].ids : IF Stored(p) THEN Goto(w, "findTransaction")
                                           ELSE Answer(w, "noData")
    /\ UNCHANGED <<storeVars, interrupted, faults>>

\* Without a transaction document the branch counts as one to cancel.
Compensation(found) ==
    CASE found = {} -> "cancel"
      [] \E t \in found : global[t] = CANCELING  -> "cancel"
      [] \E t \in found : global[t] = CONFIRMING -> "confirm"
      [] OTHER -> "notRequired"

FindTransaction(w) ==
    /\ At(w, "findTransaction")
    /\ \E p \in call[w].ids : Answer(w, Compensation(FindTransactions(p)))
    /\ UNCHANGED <<storeVars, interrupted, faults>>

\* An operation throws, before or after the document was changed.
StatementFails(w) ==
    /\ call[w].pc \in Statements
    /\ faults < MaxFaults
    /\ faults' = faults + 1
    /\ Answer(w, "failed")
    /\ \/ /\ UNCHANGED participant
          /\ interrupted' = IF At(w, "resetStatus") THEN interrupted \cup call[w].ids ELSE interrupted
       \/ /\ At(w, "delete")
          /\ \E done \in SUBSET call[w].ids : participant' = AfterDelete(done)
          /\ UNCHANGED interrupted
       \/ /\ At(w, "setRetry")
          /\ \E p \in call[w].ids : participant' = AfterSetRetry(p, call[w].retry)
          /\ interrupted' = interrupted \cup call[w].ids
       \/ /\ At(w, "resetStatus")
          /\ \E p \in call[w].ids : participant' = AfterResetStatus(p)
          /\ interrupted' = interrupted \ call[w].ids
    /\ UNCHANGED <<global, decision>>

WorkerStep(w) ==
    \/ DeleteDocument(w) \/ DeleteDone(w) \/ SetRetry(w) \/ ResetStatus(w)
    \/ FindParticipant(w) \/ FindTransaction(w)
    \/ Respond(w)

Init == StoreInit /\ ServerInit

Next ==
    \/ \E w \in Workers : Request(w) \/ WorkerStep(w) \/ StatementFails(w)
    \/ Crash
    \/ RuntimeStep /\ UNCHANGED serverVars

Spec == Init /\ [][Next]_vars

FairSpec == Spec /\ \A w \in Workers : WF_vars(WorkerStep(w))

-----------------------------------------------------------------------------
(* README.md:36-37: as long as nothing fails, a participant with retries     *)
(* left is dead only between the two operations of an update, although the   *)
(* second one is skipped whenever the first reports that nothing changed.    *)
NoneStrandedWithoutFaults ==
    faults = 0 => \A p \in Parts : Stranded(p) => Reviving(p)

(* MongoHmilyRepositoryService.java:150-155: the cancel method is named for a *)
(* transaction in its cancel phase, the confirm method for one in its        *)
(* confirm phase.  So a transaction whose row says that it was confirmed     *)
(* when it is looked up is not one to cancel.  Refuted: no look up finds it.  *)
ConfirmedIsNotCancelled ==
    [][\A w \in Workers : \A p \in call[w].ids :
          At(w, "findTransaction") /\ global[TransOf[p]] = CONFIRMING
             => call'[w].answer # "cancel"]_vars

=============================================================================
