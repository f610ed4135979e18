------------------------- MODULE MongoRepositoryProofs -------------------------
(***************************************************************************)
(* Proofs about MongoRepository, for any number of transactions,            *)
(* participants, threads and faults and any retry limits.                   *)
(***************************************************************************)
EXTENDS MongoRepository, AdminServerProofs

-----------------------------------------------------------------------------
(* Type correctness.                                                        *)

LEMMA TypeStatementFails ==
    ASSUME TypeInv, NEW w \in Workers, StatementFails(w)
    PROVE  TypeInv'
<1> USE DEF TypeInv
<1>1. CallsOK'
  <2>1. "failed" \in Answers
    BY DEF Answers
  <2> QED BY <2>1, CallAnswered DEF StatementFails
<1>2. faults' \in 0 .. MaxFaults
  BY MaxFaultsAssumption DEF StatementFails
<1>3. interrupted' \subseteq Parts
  BY CallFacts DEF StatementFails
<1>4. participant' \in [Parts -> Rows]
  <2>0. call[w].ids \in SUBSET Parts /\ call[w].retry \in Accepted
    BY CallFacts
  <2>1. CASE UNCHANGED participant
    BY <2>1 DEF StoreTypeOK
  <2>2. ASSUME NEW done \in SUBSET call[w].ids, participant' = AfterDelete(done)
        PROVE  participant' \in [Parts -> Rows]
    <3>1. done \in SUBSET Parts
      BY <2>0
    <3> QED BY <2>2, <3>1, EffectsType DEF StoreTypeOK
  <2>3. CASE \E p \in call[w].ids : participant' = AfterSetRetry(p, call[w].retry)
    BY <2>0, <2>3, EffectsType DEF StoreTypeOK
  <2>4. CASE \E p \in call[w].ids : participant' = AfterResetStatus(p)
    BY <2>0, <2>4, EffectsType DEF StoreTypeOK
  <2> QED BY <2>1, <2>2, <2>3, <2>4 DEF StatementFails
<1> QED BY <1>1, <1>2, <1>3, <1>4 DEF StatementFails, StoreTypeOK

(* What a compensation question can be answered with. *)
LEMMA CompensationType ==
    ASSUME NEW S
    PROVE  Compensation(S) \in Answers \ {"removed"}
BY DEF Compensation, Answers

LEMMA TypeWorkerStep ==
    ASSUME TypeInv, NEW w \in Workers, WorkerStep(w)
    PROVE  TypeInv'
<1> USE DEF TypeInv
<1>0. {"removed", "updated", "notUpdated", "noData"} \subseteq Answers
  BY DEF Answers
<1>1. CASE DeleteDocument(w)
  <2>1. PICK p \in call[w].ids : participant' = AfterDelete({p})
    BY <1>1 DEF DeleteDocument
  <2>2. {p} \in SUBSET Parts
    BY <2>1, CallFacts
  <2>3. participant' \in [Parts -> Rows]
    BY <2>1, <2>2, EffectsType DEF StoreTypeOK
  <2> QED BY <1>1, <2>3 DEF DeleteDocument, StoreTypeOK, CallsOK, serverVars
<1>2. CASE DeleteDone(w)
  BY <1>0, <1>2, CallAnswered DEF DeleteDone, StoreTypeOK, storeVars
<1>3. CASE SetRetry(w)
  <2>1. PICK p \in call[w].ids :
           /\ participant' = AfterSetRetry(p, call[w].retry)
           /\ \/ Goto(w, "resetStatus") /\ UNCHANGED interrupted
              \/ Answer(w, "notUpdated") /\ interrupted' = interrupted \ {p}
    BY <1>3 DEF SetRetry
  <2>2. participant' \in [Parts -> Rows]
    BY <2>1, CallFacts, EffectsType DEF StoreTypeOK
  <2>3. CallsOK'
    <3>1. /\ "resetStatus" \in Statements
          /\ call[w].answer = "none" /\ \E q \in Parts : call[w].ids = {q}
      BY <1>3, CallFacts DEF SetRetry, At, Statements
    <3> QED BY <1>0, <2>1, <3>1, CallMoved, CallAnswered
  <2> QED BY <1>3, <2>1, <2>2, <2>3 DEF SetRetry, StoreTypeOK
<1>4. CASE ResetStatus(w)
  <2>1. CallsOK'
    BY <1>0, <1>4, CallAnswered DEF ResetStatus
  <2>2. participant' \in [Parts -> Rows]
    BY <1>4, CallFacts, EffectsType DEF ResetStatus, StoreTypeOK
  <2> QED BY <1>4, <2>1, <2>2 DEF ResetStatus, StoreTypeOK
<1>5. CASE FindParticipant(w)
  <2>1. CASE Answer(w, "noData")
    BY <1>0, <1>5, <2>1, CallAnswered DEF FindParticipant, StoreTypeOK, storeVars
  <2>2. CASE Goto(w, "findTransaction")
    <3>1. /\ "findTransaction" \in Statements
          /\ call[w].answer = "none" /\ \E p \in Parts : call[w].ids = {p}
      BY <1>5, CallFacts DEF FindParticipant, At, Statements
    <3> QED BY <1>5, <2>2, <3>1, CallMoved DEF FindParticipant, StoreTypeOK, storeVars
  <2> QED BY <1>5, <2>1, <2>2 DEF FindParticipant
<1>6. CASE FindTransaction(w)
  <2>1. PICK a \in Answers : Answer(w, a)
    BY <1>6, CompensationType DEF FindTransaction
  <2> QED BY <1>6, <2>1, CallAnswered DEF FindTransaction, StoreTypeOK, storeVars
<1>7. CASE Respond(w)
  <2>1. NoCall \in Calls /\ Shaped(NoCall)
    BY RetryRangeFacts DEF NoCall, Calls, Shaped
  <2> QED BY <1>7, <2>1, CallReplaced DEF Respond, StoreTypeOK, storeVars
<1> QED BY <1>1, <1>2, <1>3, <1>4, <1>5, <1>6, <1>7 DEF WorkerStep

LEMMA TypeStep ==
    ASSUME TypeInv, [Next]_vars
    PROVE  TypeInv'
BY ServerStepType, TypeWorkerStep, TypeStatementFails DEF Next, ServerStep

LEMMA SpecTypeInv == Spec => []TypeInv
<1>1. Init => TypeInv
  BY InitType DEF Init
<1>2. TypeInv /\ [Next]_vars => TypeInv'
  BY TypeStep
<1> QED BY <1>1, <1>2, PTL DEF Spec

(* Type correctness: documents and calls keep their types, and no document   *)
(* gets a retry count that                                                   *)
(* HmilyRepositoryController.updateHmilyParticipantRetry refuses.            *)
THEOREM TypeCorrect == Spec => []TypeOK
<1>1. TypeInv => TypeOK
  BY TypeInvImpliesTypeOK
<1> QED BY <1>1, SpecTypeInv, PTL

-----------------------------------------------------------------------------
(* Calls.  A step of a thread changes its own call only; it says "removed"   *)
(* only at the end of a removal.                                            *)

LEMMA StepCall ==
    ASSUME TypeInv, NEW w \in Workers,
           Request(w) \/ WorkerStep(w) \/ StatementFails(w)
    PROVE  \E c : call' = [call EXCEPT ![w] = c]
<1>1. ASSUME NEW a, Answer(w, a)
      PROVE  \E c : call' = [call EXCEPT ![w] = c]
  <2>1. call' = [call EXCEPT ![w] = [call[w] EXCEPT !.pc = "answered", !.answer = a]]
    BY <1>1 DEF Answer, TypeInv, CallsOK, Calls
  <2> QED BY <2>1
<1>2. ASSUME NEW s, Goto(w, s)
      PROVE  \E c : call' = [call EXCEPT ![w] = c]
  <2>1. call' = [call EXCEPT ![w] = [call[w] EXCEPT !.pc = s]]
    BY <1>2 DEF Goto
  <2> QED BY <2>1
<1>3. CASE Request(w)
  BY <1>3, RequestCalls DEF TypeInv
<1>4. CASE DeleteDocument(w)
  <2>1. call' = [call EXCEPT ![w] = call[w]]
    BY <1>4 DEF DeleteDocument, serverVars, TypeInv, CallsOK
  <2> QED BY <2>1
<1>5. CASE WorkerStep(w)
  BY <1>1, <1>2, <1>4, <1>5
     DEF WorkerStep, DeleteDone, SetRetry, ResetStatus, FindParticipant,
         FindTransaction, Respond
<1>6. CASE StatementFails(w)
  BY <1>1, <1>6 DEF StatementFails
<1> QED BY <1>3, <1>5, <1>6

CallStep(w) ==
    \/ call'[w] = call[w]
    \/ call'[w].ids \subseteq KnownIds /\ call'[w].answer # "removed"
    \/ SameIds(w) /\ call'[w].answer # "removed"
    \/ SameIds(w) /\ DeleteDone(w)

LEMMA CallSteps ==
    ASSUME TypeInv, [Next]_vars, NEW w \in Workers
    PROVE  CallStep(w)
<1> USE DEF TypeInv
<1>1. ASSUME NEW v \in Workers, v # w, Request(v) \/ WorkerStep(v) \/ StatementFails(v)
      PROVE  CallStep(w)
  <2>1. PICK c : call' = [call EXCEPT ![v] = c]
    BY <1>1, StepCall
  <2>2. call'[w] = call[w]
    BY <1>1, <2>1 DEF CallsOK
  <2> QED BY <2>2 DEF CallStep
<1>2. CASE Request(w)
  BY <1>2, RequestedCall DEF CallStep
<1>3. CASE StatementFails(w)
  BY <1>3, AnsweredCall DEF StatementFails, Answers, CallStep
<1>4. CASE WorkerStep(w)
  <2>0. {"removed", "updated", "notUpdated", "noData"} \subseteq Answers
    BY DEF Answers
  <2>1. ASSUME NEW a \in Answers \ {"removed"}, Answer(w, a)
        PROVE  CallStep(w)
    BY <2>1, AnsweredCall DEF CallStep
  <2>2. ASSUME NEW s, Goto(w, s), ~ At(w, "answered")
        PROVE  CallStep(w)
    BY <2>2, MovedCall, CallFacts DEF CallStep
  <2>3. CASE DeleteDocument(w)
    BY <2>3 DEF DeleteDocument, serverVars, CallStep
  <2>4. CASE DeleteDone(w)
    BY <2>0, <2>4, AnsweredCall DEF DeleteDone, CallStep
  <2>5. CASE SetRetry(w)
    BY <2>0, <2>1, <2>2, <2>5 DEF SetRetry, At
  <2>6. CASE ResetStatus(w)
    BY <2>0, <2>1, <2>6 DEF ResetStatus
  <2>7. CASE FindParticipant(w)
    BY <2>0, <2>1, <2>2, <2>7 DEF FindParticipant, At
  <2>8. CASE FindTransaction(w)
    BY <2>1, <2>8, CompensationType DEF FindTransaction
  <2>9. CASE Respond(w)
    BY <2>9 DEF Respond, NoCall, CallsOK, CallStep
  <2> QED BY <1>4, <2>3, <2>4, <2>5, <2>6, <2>7, <2>8, <2>9 DEF WorkerStep
<1>5. CASE Crash
  BY <1>5 DEF Crash, NoCall, CallStep
<1>6. CASE UNCHANGED call
  BY <1>6 DEF CallStep
<1> QED BY <1>1, <1>2, <1>3, <1>4, <1>5, <1>6 DEF Next, serverVars, vars

-----------------------------------------------------------------------------
(* What a step does to the documents: one of the three operations, or       *)
(* nothing, or a step of the runtime.                                       *)

Operation ==
    \/ \E ids \in SUBSET Parts : participant' = AfterDelete(ids)
    \/ \E p \in Parts, n \in Accepted : participant' = AfterSetRetry(p, n)
    \/ \E p \in Parts : participant' = AfterResetStatus(p)

LEMMA StoreSteps ==
    ASSUME TypeInv, [Next]_vars
    PROVE  UNCHANGED participant \/ Operation \/ RuntimeStep
<1>1. ASSUME NEW w \in Workers, WorkerStep(w)
      PROVE  UNCHANGED participant \/ Operation
  <2>1. call[w].ids \in SUBSET Parts /\ call[w].retry \in Accepted
    BY CallFacts DEF TypeInv
  <2>2. CASE DeleteDocument(w)
    <3>1. PICK p \in call[w].ids : participant' = AfterDelete({p})
      BY <2>2 DEF DeleteDocument
    <3>2. {p} \in SUBSET Parts
      BY <2>1
    <3> QED BY <3>1, <3>2 DEF Operation
  <2>3. CASE SetRetry(w)
    BY <2>1, <2>3 DEF SetRetry, Operation
  <2>4. CASE ResetStatus(w)
    BY <2>1, <2>4 DEF ResetStatus, Operation
  <2>5. CASE DeleteDone(w) \/ FindParticipant(w) \/ FindTransaction(w) \/ Respond(w)
    BY <2>5 DEF DeleteDone, FindParticipant, FindTransaction, Respond, storeVars
  <2> QED BY <1>1, <2>2, <2>3, <2>4, <2>5 DEF WorkerStep
<1>2. ASSUME NEW w \in Workers, StatementFails(w)
      PROVE  UNCHANGED participant \/ Operation
  <2>1. /\ \A done \in SUBSET call[w].ids : done \in SUBSET Parts
        /\ call[w].ids \in SUBSET Parts /\ call[w].retry \in Accepted
    BY CallFacts DEF TypeInv
  <2> QED BY <1>2, <2>1 DEF StatementFails, Operation
<1>3. CASE (\E w \in Workers : Request(w)) \/ Crash \/ UNCHANGED vars
  BY <1>3, RequestKeeps DEF Crash, storeVars, vars
<1> QED BY <1>1, <1>2, <1>3 DEF Next

(* README.md:49-53.                                                         *)
LEMMA FinalStep ==
    ASSUME TypeInv, Final, [Next]_vars
    PROVE  Final'
<1> SUFFICES ASSUME NEW w \in Workers, NEW p \in call'[w].ids
             PROVE  /\ Known(p)'
                    /\ call'[w].answer = "removed" => participant'[p].status = GONE
  BY DEF Final
<1>0. ASSUME NEW q \in Parts
      PROVE  /\ Known(q) => Known(q)'
             /\ participant[q].status = GONE => participant'[q].status = GONE
  <2>1. CASE UNCHANGED participant
    BY <2>1 DEF Known
  <2> QED BY <2>1, StoreSteps, EffectsMonotone, RuntimeMonotone DEF Operation
<1>1. ASSUME NEW q \in call[w].ids
      PROVE  q \in Parts /\ Known(q)
  BY CallFacts DEF Final, TypeInv
<1>2. CASE call'[w] = call[w]
  BY <1>0, <1>1, <1>2 DEF Final
<1>3. CASE call'[w].ids \subseteq KnownIds /\ call'[w].answer # "removed"
  BY <1>0, <1>3 DEF KnownIds
<1>4. CASE SameIds(w) /\ call'[w].answer # "removed"
  BY <1>0, <1>1, <1>4 DEF SameIds
<1>5. CASE SameIds(w) /\ DeleteDone(w)
  <2>1. p \in Parts /\ Known(p) /\ ~ Stored(p)
    BY <1>1, <1>5 DEF SameIds, DeleteDone
  <2>2. participant[p].status = GONE
    BY <2>1 DEF Known, Stored, TypeInv, StoreTypeOK, Rows
  <2> QED BY <1>0, <2>1, <2>2
<1> QED BY <1>2, <1>3, <1>4, <1>5, CallSteps DEF CallStep

(* README.md:49-53: documents are removed one by one, yet the success of a   *)
(* removal means that all of them are gone, and nothing brings one back.     *)
THEOREM RemovalIsFinal == Spec => []RemoveIsFinal
<1>1. Init => Final
  BY DEF Init, ServerInit, Final, NoCall
<1>2. TypeInv /\ Final /\ [Next]_vars => Final'
  BY FinalStep
<1>3. Final => RemoveIsFinal
  BY FinalIsFinal
<1> QED BY <1>1, <1>2, <1>3, SpecTypeInv, PTL DEF Spec

-----------------------------------------------------------------------------
(* No participant is stranded as long as nothing fails.  The second          *)
(* operation of an update is skipped only when the first one changed         *)
(* nothing: then a dead participant with retries left had them before, and   *)
(* another update is about to revive it.                                    *)

LEMMA UnmodifiedStays ==
    ASSUME TypeInv, NEW p \in Parts, NEW n, ~ Modified(p, n)
    PROVE  AfterSetRetry(p, n) = participant
<1>1. CASE ~ Stored(p)
  BY <1>1 DEF AfterSetRetry
<1>2. CASE Stored(p) /\ participant[p].retry = n
  <2>1. participant[p] = [status |-> participant[p].status, retry |-> n]
    BY <1>2 DEF TypeInv, StoreTypeOK, Rows
  <2>2. [participant[p] EXCEPT !.retry = n] = participant[p]
    BY <2>1
  <2>3. [participant EXCEPT ![p] = participant[p]] = participant
    BY DEF TypeInv, StoreTypeOK
  <2> QED BY <1>2, <2>2, <2>3 DEF AfterSetRetry
<1> QED BY <1>1, <1>2 DEF Modified

LEMMA StrandedStep ==
    ASSUME TypeInv, TypeInv', NoneStrandedWithoutFaults, [Next]_vars
    PROVE  NoneStrandedWithoutFaults'
<1> SUFFICES ASSUME faults' = 0, NEW q \in Parts, Stranded(q)'
             PROVE  Reviving(q)'
  BY DEF NoneStrandedWithoutFaults
<1>1. ASSUME NEW w \in Workers, UNCHANGED faults, Stranded(q),
             q \notin call[w].ids \/ ~ At(w, "resetStatus"),
             Request(w) \/ WorkerStep(w)
      PROVE  Reviving(q)'
  BY <1>1, StepCall, OthersRevive DEF NoneStrandedWithoutFaults
<1>2. ASSUME NEW w \in Workers, Request(w)
      PROVE  Reviving(q)'
  <2>1. UNCHANGED <<storeVars, faults>> /\ At(w, "idle")
    BY <1>2, RequestKeeps
  <2>2. Stranded(q)
    BY <2>1, EffectsOnStranded DEF storeVars
  <2> QED BY <1>1, <1>2, <2>1, <2>2 DEF At
<1>3. ASSUME NEW w \in Workers, WorkerStep(w)
      PROVE  Reviving(q)'
  <2> USE DEF At
  <2>1. CASE DeleteDocument(w)
    <3>1. PICK p \in call[w].ids : participant' = AfterDelete({p})
      BY <2>1 DEF DeleteDocument
    <3>2. {p} \in SUBSET Parts
      BY <3>1, CallFacts DEF TypeInv
    <3>3. Stranded(q)
      BY <3>1, <3>2, EffectsOnStranded
    <3> QED BY <1>1, <1>3, <2>1, <3>3 DEF DeleteDocument, serverVars
  <2>2. CASE SetRetry(w)
    <3>1. PICK p \in Parts :
             /\ call[w].ids = {p}
             /\ participant' = AfterSetRetry(p, call[w].retry)
             /\ \/ Modified(p, call[w].retry) /\ Goto(w, "resetStatus")
                \/ ~ Modified(p, call[w].retry)
      BY <2>2, CallFacts DEF SetRetry, TypeInv
    <3>2. CASE Goto(w, "resetStatus") /\ p = q
      <4>1. call'[w].pc = "resetStatus" /\ call'[w].ids = {q}
        BY <3>1, <3>2, MovedCall DEF TypeInv, SameIds
      <4> QED BY <4>1 DEF Reviving
    <3>3. CASE p # q \/ ~ Modified(p, call[w].retry)
      <4>1. Stranded(q)
        BY <3>1, <3>3, UnmodifiedStays, EffectsOnStranded, CallFacts DEF TypeInv
      <4> QED BY <1>1, <1>3, <2>2, <4>1 DEF SetRetry
    <3> QED BY <3>1, <3>2, <3>3
  <2>3. CASE ResetStatus(w)
    <3>1. PICK p \in Parts : call[w].ids = {p} /\ participant' = AfterResetStatus(p)
      BY <2>3, CallFacts DEF ResetStatus, TypeInv
    <3>2. p # q /\ Stranded(q)
      BY <3>1, EffectsOnStranded
    <3> QED BY <1>1, <1>3, <2>3, <3>1, <3>2 DEF ResetStatus
  <2>4. CASE DeleteDone(w) \/ FindParticipant(w) \/ FindTransaction(w) \/ Respond(w)
    <3>1. UNCHANGED <<storeVars, faults>> /\ ~ At(w, "resetStatus")
      BY <2>4 DEF DeleteDone, FindParticipant, FindTransaction, Respond
    <3>2. Stranded(q)
      BY <3>1, EffectsOnStranded DEF storeVars
    <3> QED BY <1>1, <1>3, <3>1, <3>2
  <2> QED BY <1>3, <2>1, <2>2, <2>3, <2>4 DEF WorkerStep
<1>4. ASSUME (\E w \in Workers : StatementFails(w)) \/ Crash
      PROVE  FALSE
  BY <1>4, MaxFaultsAssumption DEF StatementFails, Crash, TypeInv
<1>5. CASE RuntimeStep /\ UNCHANGED serverVars
  <2>1. Stranded(q)
    BY <1>5, RuntimeStrandsNobody
  <2> QED BY <1>5, <2>1 DEF NoneStrandedWithoutFaults, serverVars, Reviving, At
<1>6. CASE UNCHANGED vars
  BY <1>6 DEF NoneStrandedWithoutFaults, vars, Stranded, Reviving, At
<1> QED BY <1>2, <1>3, <1>4, <1>5, <1>6 DEF Next

(* README.md:36-37: as long as nothing fails, no participant stays dead with *)
(* retries to go, although an update that changes no count leaves the        *)
(* status alone.                                                            *)
THEOREM NobodyStrandedWithoutFaults == Spec => []NoneStrandedWithoutFaults
<1>1. Init => NoneStrandedWithoutFaults
  BY DEF Init, StoreInit, NoneStrandedWithoutFaults, Stranded, NoRow, UNBORN, DEATH
<1>2. TypeInv /\ TypeInv' /\ NoneStrandedWithoutFaults /\ [Next]_vars
        => NoneStrandedWithoutFaults'
  BY StrandedStep
<1> QED BY <1>1, <1>2, SpecTypeInv, PTL DEF Spec

-----------------------------------------------------------------------------
(* Refinement.                                                              *)

LEMMA StepImplements ==
    ASSUME TypeInv, [Next]_vars
    PROVE  P!Next \/ Life' = Life
<1>1. CASE UNCHANGED participant
  BY <1>1 DEF Life
<1>2. CASE Operation
  BY <1>2, DeleteImplements, SetRetryImplements, ResetStatusImplements DEF Operation
<1>3. CASE RuntimeStep
  BY <1>3, RuntimeImplements
<1> QED BY <1>1, <1>2, <1>3, StoreSteps

(* Every document lives as ParticipantLife says (README.md:34-54), also when *)
(* a removal takes its documents one by one or stops half way.               *)
THEOREM DocumentsLive == Spec => ImplementsParticipantLife
<1>1. Init => P!Init
  BY SameCodes DEF Init, StoreInit, P!Init, Life, NoRow, UNBORN, DEATH
<1>2. TypeInv /\ [Next]_vars => [P!Next]_Life
  BY StepImplements
<1> QED BY <1>1, <1>2, SpecTypeInv, PTL DEF Spec, P!Spec, ImplementsParticipantLife

=============================================================================
