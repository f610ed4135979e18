----------------------------- MODULE DbRepository -----------------------------
(***************************************************************************)
(* The console on a relational repository                                   *)
(* (AbstractHmilyRepositoryService and its MySQL subclass): the repository  *)
(* methods that change or inspect participants, one action per SQL          *)
(* statement.  JdbcTemplate.execute reports no row count here, so an update *)
(* runs both of its statements whatever they find.                          *)
(***************************************************************************)
EXTENDS AdminServer

DeleteRows(w) ==
    /\ At(w, "delete")
    /\ participant' = AfterDelete(call[w].ids)
    /\ Answer(w, "removed")
    /\ UNCHANGED <<global, decision, interrupted, faults>>

\* Slip: the status is left alone when the first statement changed nothing.
SetRetryIfModified(w) ==
    /\ At(w, "setRetry")
    /\ \E p \in call[w].ids :
         /\ participant' = AfterSetRetry(p, call[w].retry)
         /\ \/ participant' # participant /\ Goto(w, "resetStatus") /\ UNCHANGED interrupted
            \/ /\ participant' = participant
               /\ Answer(w, "notUpdated")
               /\ interrupted' = interrupted \ {p}
    /\ UNCHANGED <<global, decision, faults>>

SetRetry(w) ==
    /\ At(w, "setRetry")
    /\ \E p \in call[w].ids : participant' = AfterSetRetry(p, call[w].retry)
    /\ Goto(w, "resetStatus")
    /\ UNCHANGED <<global, decision, interrupted, faults>>

ResetStatus(w) ==
    /\ At(w, "resetStatus")
    /\ \E p \in call[w].ids : participant' = AfterResetStatus(p)
    /\ interrupted' = interrupted \ call[w].ids
    /\ Answer(w, "updated")
    /\ UNCHANGED <<global, decision, faults>>

\* Slip: the answer for a row that is not there is missing.
FindParticipantStored(w) ==
    /\ At(w, "findParticipant")
    /\ \E p \in call[w].ids : Stored(p) /\ Goto(w, "findTransaction")
    /\ UNCHANGED <<storeVars, interrupted, faults>>

\* queryForMap throws when there is no row.
FindParticipant(w) ==
    /\ At(w, "findParticipant")
    /\ \E p \in call[w].ids : IF Stored(p) THEN Goto(w, "findTransaction")
                                           ELSE Answer(w, "failed")
    /\ UNCHANGED <<storeVars, interrupted, faults>>

\* Slip: what is not to be confirmed is to be cancelled.
CompensationOfTwo(status) == IF status = CONFIRMING THEN "confirm" ELSE "cancel"

Compensation(status) ==
    CASE status = CANCELING  -> "cancel"
      [] status = CONFIRMING -> "confirm"
      [] OTHER               -> "notRequired"

\* The transaction is looked up with the trans_id read a statement earlier.
FindTransaction(w) ==
    /\ At(w, "findTransaction")
    /\ \E p \in call[w].ids :
         Answer(w, IF global[TransOf[p]] \in Status
                     THEN Compensation(global[TransOf[p]]) ELSE "failed")
    /\ UNCHANGED <<storeVars, interrupted, faults>>

\* A statement throws: its call ends there.  The statement may have been
\* executed before the connection broke.
StatementFails(w) ==
    /\ call[w].pc \in Statements
    /\ faults < MaxFaults
    /\ faults' = faults + 1
    /\ Answer(w, "failed")
    /\ \/ /\ UNCHANGED participant
          /\ interrupted' = IF At(w, "resetStatus") THEN interrupted \cup call[w].ids ELSE interrupted
       \/ /\ At(w, "delete")
          /\ participant' = AfterDelete(call[w].ids)
          /\ UNCHANGED interrupted
       \/ /\ At(w, "setRetry")
          /\ \E p \in call[w].ids : participant' = AfterSetRetry(p, call[w].retry)
          /\ interrupted' = interrupted \cup call[w].ids
       \/ /\ At(w, "resetStatus")
          /\ \E p \in call[w].ids : participant' = AfterResetStatus(p)
          /\ interrupted' = interrupted \ call[w].ids
    /\ UNCHANGED <<global, decision>>

\* What a thread does of its own accord once it has a request.
WorkerStep(w) ==
    \/ DeleteRows(w) \/ SetRetry(w) \/ ResetStatus(w)
    \/ FindParticipant(w) \/ FindTransaction(w)
    \/ Respond(w)

Init == StoreInit /\ ServerInit

Next ==
    \/ \E w \in Workers : Request(w) \/ WorkerStep(w) \/ StatementFails(w)
    \/ Crash
    \/ RuntimeStep /\ UNCHANGED serverVars

Spec == Init /\ [][Next]_vars

\* The container runs every thread, and a statement returns or throws.
FairSpec == Spec /\ \A w \in Workers : WF_vars(WorkerStep(w))

=============================================================================
