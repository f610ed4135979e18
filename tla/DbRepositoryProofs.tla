-------------------------- MODULE DbRepositoryProofs --------------------------
(***************************************************************************)
(* Proofs about DbRepository, for any number of transactions, participants, *)
(* threads and faults and any retry limits.                                 *)
(***************************************************************************)
EXTENDS DbRepository, AdminServerProofs

-----------------------------------------------------------------------------
(* Type correctness.                                                        *)

LEMMA TypeStatementFails ==
    ASSUME TypeInv, NEW w \in Workers, StatementFails(w)
    PROVE  TypeInv'
<1> USE DEF TypeInv
<1>1. CallsOK'
  <2>1. "failed" \in Answers
    BY DEF Answers
  <2> QED BY <2>1, CallAnswered DEF StatementFails
<1>2. faults' \in 0 .. MaxFaults
  BY MaxFaultsAssumption DEF StatementFails
<1>3. interrupted' \subseteq Parts
  BY CallFacts DEF StatementFails
<1>4. participant' \in [Parts -> Rows]
  BY CallFacts, EffectsType DEF StatementFails, StoreTypeOK
<1> QED BY <1>1, <1>2, <1>3, <1>4 DEF StatementFails, StoreTypeOK

LEMMA TypeWorkerStep ==
    ASSUME TypeInv, NEW w \in Workers, WorkerStep(w)
    PROVE  TypeInv'
<1> USE DEF TypeInv
<1>0. {"removed", "updated", "failed", "confirm", "cancel", "notRequired"} \subseteq Answers
  BY DEF Answers
<1>1. CASE DeleteRows(w)
  <2>1. CallsOK'
    BY <1>0, <1>1, CallAnswered DEF DeleteRows
  <2>2. participant' \in [Parts -> Rows]
    BY <1>1, CallFacts, EffectsType DEF DeleteRows, StoreTypeOK
  <2> QED BY <1>1, <2>1, <2>2 DEF DeleteRows, StoreTypeOK
<1>2. CASE SetRetry(w)
  <2>1. CallsOK'
    <3>1. /\ Goto(w, "resetStatus") /\ "resetStatus" \in Statements
          /\ call[w].answer = "none" /\ \E p \in Parts : call[w].ids = {p}
      BY <1>2, CallFacts DEF SetRetry, At, Statements
    <3> QED BY <3>1, CallMoved
  <2>2. participant' \in [Parts -> Rows]
    BY <1>2, CallFacts, EffectsType DEF SetRetry, StoreTypeOK
  <2> QED BY <1>2, <2>1, <2>2 DEF SetRetry, StoreTypeOK
<1>3. CASE ResetStatus(w)
  <2>1. CallsOK'
    BY <1>0, <1>3, CallAnswered DEF ResetStatus
  <2>2. participant' \in [Parts -> Rows]
    BY <1>3, CallFacts, EffectsType DEF ResetStatus, StoreTypeOK
  <2> QED BY <1>3, <2>1, <2>2 DEF ResetStatus, StoreTypeOK
<1>4. CASE FindParticipant(w)
  <2>1. CASE Answer(w, "failed")
    BY <1>0, <1>4, <2>1, CallAnswered DEF FindParticipant, StoreTypeOK, storeVars
  <2>2. CASE Goto(w, "findTransaction")
    <3>1. /\ "findTransaction" \in Statements
          /\ call[w].answer = "none" /\ \E p \in Parts : call[w].ids = {p}
      BY <1>4, CallFacts DEF FindParticipant, At, Statements
    <3> QED BY <1>4, <2>2, <3>1, CallMoved DEF FindParticipant, StoreTypeOK, storeVars
  <2> QED BY <1>4, <2>1, <2>2 DEF FindParticipant
<1>5. CASE FindTransaction(w)
  <2>1. PICK a \in Answers : Answer(w, a)
    BY <1>0, <1>5 DEF FindTransaction, Compensation
  <2> QED BY <1>5, <2>1, CallAnswered DEF FindTransaction, StoreTypeOK, storeVars
<1>6. CASE Respond(w)
  <2>1. NoCall \in Calls /\ Shaped(NoCall)
    BY RetryRangeFacts DEF NoCall, Calls, Shaped
  <2> QED BY <1>6, <2>1, CallReplaced DEF Respond, StoreTypeOK, storeVars
<1> QED BY <1>1, <1>2, <1>3, <1>4, <1>5, <1>6 DEF WorkerStep

LEMMA TypeStep ==
    ASSUME TypeInv, [Next]_vars
    PROVE  TypeInv'
BY ServerStepType, TypeWorkerStep, TypeStatementFails DEF Next, ServerStep

LEMMA SpecTypeInv == Spec => []TypeInv
<1>1. Init => TypeInv
  BY InitType DEF Init
<1>2. TypeInv /\ [Next]_vars => TypeInv'
  BY TypeStep
<1> QED BY <1>1, <1>2, PTL DEF Spec

(* Type correctness: rows and calls keep their types, and no row gets a      *)
(* retry count that HmilyRepositoryController.updateHmilyParticipantRetry    *)
(* refuses.                                                                  *)
THEOREM TypeCorrect == Spec => []TypeOK
<1>1. TypeInv => TypeOK
  BY TypeInvImpliesTypeOK
<1> QED BY <1>1, SpecTypeInv, PTL

-----------------------------------------------------------------------------
(* The calls of other threads, and the calls at a given step.  Every step of *)
(* a thread replaces its own call only.                                     *)

LEMMA StepCall ==
    ASSUME TypeInv, NEW w \in Workers,
           Request(w) \/ WorkerStep(w) \/ StatementFails(w)
    PROVE  \E c : call' = [call EXCEPT ![w] = c]
<1>1. ASSUME NEW a, Answer(w, a)
      PROVE  \E c : call' = [call EXCEPT ![w] = c]
  <2>1. call' = [call EXCEPT ![w] = [call[w] EXCEPT !.pc = "answered", !.answer = a]]
    BY <1>1 DEF Answer, TypeInv, CallsOK, Calls
  <2> QED BY <2>1
<1>2. ASSUME NEW s, Goto(w, s)
      PROVE  \E c : call' = [call EXCEPT ![w] = c]
  <2>1. call' = [call EXCEPT ![w] = [call[w] EXCEPT !.pc = s]]
    BY <1>2 DEF Goto
  <2> QED BY <2>1
<1>3. CASE Request(w)
  BY <1>3, RequestCalls DEF TypeInv
<1>4. CASE WorkerStep(w)
  BY <1>1, <1>2, <1>4
     DEF WorkerStep, DeleteRows, SetRetry, ResetStatus, FindParticipant,
         FindTransaction, Respond
<1>5. CASE StatementFails(w)
  BY <1>1, <1>5 DEF StatementFails
<1> QED BY <1>3, <1>4, <1>5

-----------------------------------------------------------------------------
(* No participant is stranded.                                              *)

LEMMA StrandedStep ==
    ASSUME TypeInv, TypeInv', NoneStranded, [Next]_vars
    PROVE  NoneStranded'
<1> SUFFICES ASSUME NEW q \in Parts, Stranded(q)'
             PROVE  Reviving(q)' \/ q \in interrupted'
  BY DEF NoneStranded
<1>0. Stranded(q) => Reviving(q) \/ q \in interrupted
  BY DEF NoneStranded
<1>1. ASSUME NEW w \in Workers, Stranded(q), q \notin call[w].ids \/ ~ At(w, "resetStatus"),
             Request(w) \/ WorkerStep(w) \/ StatementFails(w),
             q \in interrupted => q \in interrupted'
      PROVE  Reviving(q)' \/ q \in interrupted'
  BY <1>0, <1>1, StepCall, OthersRevive
<1>2. ASSUME NEW w \in Workers, Request(w)
      PROVE  Reviving(q)' \/ q \in interrupted'
  <2>1. UNCHANGED <<storeVars, interrupted>> /\ At(w, "idle")
    BY <1>2, RequestKeeps
  <2>2. Stranded(q)
    BY <2>1, EffectsOnStranded DEF storeVars
  <2> QED BY <1>1, <1>2, <2>1, <2>2 DEF At
<1>3. ASSUME NEW w \in Workers, WorkerStep(w)
      PROVE  Reviving(q)' \/ q \in interrupted'
  <2> USE DEF At
  <2>1. CASE DeleteRows(w)
    <3>1. Stranded(q)
      BY <2>1, EffectsOnStranded, CallFacts DEF DeleteRows, TypeInv
    <3> QED BY <1>1, <1>3, <2>1, <3>1 DEF DeleteRows
  <2>2. CASE SetRetry(w)
    <3>1. PICK p \in Parts : /\ call[w].ids = {p}
                             /\ participant' = AfterSetRetry(p, call[w].retry)
      BY <2>2, CallFacts DEF SetRetry, TypeInv
    <3>2. CASE p = q
      <4>1. call'[w] = [call[w] EXCEPT !.pc = "resetStatus"]
        BY <2>2 DEF SetRetry, Goto, TypeInv, CallsOK
      <4>2. call'[w].pc = "resetStatus" /\ call'[w].ids = call[w].ids
        BY <4>1 DEF TypeInv, CallsOK, Calls
      <4> QED BY <3>1, <3>2, <4>2 DEF Reviving
    <3>3. CASE p # q
      <4>1. Stranded(q)
        BY <3>1, <3>3, EffectsOnStranded, CallFacts DEF TypeInv
      <4> QED BY <1>1, <1>3, <2>2, <4>1 DEF SetRetry
    <3> QED BY <3>2, <3>3
  <2>3. CASE ResetStatus(w)
    <3>1. PICK p \in Parts : call[w].ids = {p} /\ participant' = AfterResetStatus(p)
      BY <2>3, CallFacts DEF ResetStatus, TypeInv
    <3>2. p # q /\ Stranded(q)
      BY <3>1, EffectsOnStranded
    <3> QED BY <1>1, <1>3, <2>3, <3>1, <3>2 DEF ResetStatus
  <2>4. CASE FindParticipant(w) \/ FindTransaction(w) \/ Respond(w)
    <3>1. UNCHANGED <<storeVars, interrupted>> /\ ~ At(w, "resetStatus")
      BY <2>4 DEF FindParticipant, FindTransaction, Respond
    <3>2. Stranded(q)
      BY <3>1, EffectsOnStranded DEF storeVars
    <3> QED BY <1>1, <1>3, <3>1, <3>2
  <2> QED BY <1>3, <2>1, <2>2, <2>3, <2>4 DEF WorkerStep
<1>4. ASSUME NEW w \in Workers, StatementFails(w)
      PROVE  Reviving(q)' \/ q \in interrupted'
  <2> USE DEF At
  <2>0. call[w].ids \in SUBSET Parts /\ call[w].retry \in Accepted
    BY CallFacts DEF TypeInv
  <2>1. CASE /\ UNCHANGED participant
             /\ interrupted' = IF At(w, "resetStatus") THEN interrupted \cup call[w].ids
                                                       ELSE interrupted
    <3>1. Stranded(q)
      BY <2>1, EffectsOnStranded
    <3> QED BY <1>1, <1>4, <2>1, <3>1
  <2>2. CASE /\ At(w, "delete")
             /\ participant' = AfterDelete(call[w].ids)
             /\ UNCHANGED interrupted
    <3>1. Stranded(q)
      BY <2>0, <2>2, EffectsOnStranded
    <3> QED BY <1>1, <1>4, <2>2, <3>1
  <2>3. CASE /\ At(w, "setRetry")
             /\ \E p \in call[w].ids : participant' = AfterSetRetry(p, call[w].retry)
             /\ interrupted' = interrupted \cup call[w].ids
    <3>1. q \in call[w].ids \/ Stranded(q)
      BY <2>0, <2>3, EffectsOnStranded
    <3> QED BY <1>1, <1>4, <2>3, <3>1
  <2>4. CASE /\ At(w, "resetStatus")
             /\ \E p \in call[w].ids : participant' = AfterResetStatus(p)
             /\ interrupted' = interrupted \ call[w].ids
    <3>1. PICK p \in Parts : call[w].ids = {p} /\ participant' = AfterResetStatus(p)
      BY <2>4, CallFacts DEF TypeInv
    <3>2. p # q /\ Stranded(q)
      BY <3>1, EffectsOnStranded
    <3> QED BY <1>1, <1>4, <2>4, <3>1, <3>2
  <2> QED BY <1>4, <2>1, <2>2, <2>3, <2>4 DEF StatementFails
<1>5. CASE Crash
  <2>1. Stranded(q)
    BY <1>5, EffectsOnStranded DEF Crash, storeVars
  <2>2. Reviving(q) => q \in interrupted'
    BY <1>5 DEF Crash, Reviving
  <2> QED BY <1>0, <1>5, <2>1, <2>2 DEF Crash
<1>6. CASE RuntimeStep /\ UNCHANGED serverVars
  <2>1. Stranded(q)
    BY <1>6, RuntimeStrandsNobody
  <2> QED BY <1>0, <1>6, <2>1 DEF serverVars, Reviving, At
<1>7. CASE UNCHANGED vars
  BY <1>0, <1>7 DEF vars, Stranded, Reviving, At
<1> QED BY <1>2, <1>3, <1>4, <1>5, <1>6, <1>7 DEF Next

(* README.md:36-37: an edit whose two statements are run leaves no           *)
(* participant dead with retries to go, whatever other edits, removals,      *)
(* retries, crashes and failures happen in between.                          *)
THEOREM NobodyStranded == Spec => []NoneStranded
<1>1. Init => NoneStranded
  BY DEF Init, StoreInit, NoneStranded, Stranded, NoRow, UNBORN, DEATH
<1>2. TypeInv /\ TypeInv' /\ NoneStranded /\ [Next]_vars => NoneStranded'
  BY StrandedStep
<1> QED BY <1>1, <1>2, SpecTypeInv, PTL DEF Spec

-----------------------------------------------------------------------------
(* Compensation information.  The global row shows the decision as long as   *)
(* it shows a second phase, and a decision is never changed.                 *)

Coordinated ==
    \A t \in Trans :
        /\ global[t] \in {UNBORN, PRE_TRY} => decision[t] = Undecided
        /\ global[t] \in {CONFIRMING, CANCELING} => decision[t] = global[t]

(* What a step can do to the call of a thread. *)
Compensated(w) ==
    \E p \in Parts :
        /\ call[w].ids = {p} /\ SameIds(w)
        /\ call'[w].answer # "removed"
        /\ call'[w].answer = "confirm" => global[TransOf[p]] = CONFIRMING
        /\ call'[w].answer = "cancel"  => global[TransOf[p]] = CANCELING

CallStep(w) ==
    \/ call'[w] = call[w]
    \/ call'[w].ids \subseteq KnownIds /\ call'[w].answer \in {"none", "error"}
    \/ SameIds(w) /\ call'[w].answer \in {"none", "error", "failed", "updated"}
    \/ DeleteRows(w) /\ SameIds(w) /\ call'[w].answer = "removed"
    \/ Compensated(w)

LEMMA CallSteps ==
    ASSUME TypeInv, [Next]_vars, NEW w \in Workers
    PROVE  CallStep(w)
<1> USE DEF TypeInv
<1>2. ASSUME NEW v \in Workers, v # w, Request(v) \/ WorkerStep(v) \/ StatementFails(v)
      PROVE  CallStep(w)
  <2>1. PICK c : call' = [call EXCEPT ![v] = c]
    BY <1>2, StepCall
  <2>2. call'[w] = call[w]
    BY <1>2, <2>1 DEF CallsOK
  <2> QED BY <2>2 DEF CallStep
<1>3. CASE Request(w)
  BY <1>3, RequestedCall DEF CallStep
<1>4. CASE StatementFails(w)
  BY AnsweredCall, <1>4 DEF StatementFails, Answers, CallStep
<1>5. CASE WorkerStep(w)
  <2>1. CASE DeleteRows(w)
    BY AnsweredCall, <2>1 DEF DeleteRows, Answers, CallStep
  <2>2. CASE SetRetry(w)
    <3>1. call[w].answer = "none" /\ Goto(w, "resetStatus")
      BY <2>2, CallFacts DEF SetRetry, At
    <3> QED BY MovedCall, <3>1 DEF CallStep
  <2>3. CASE ResetStatus(w)
    BY AnsweredCall, <2>3 DEF ResetStatus, Answers, CallStep
  <2>4. CASE FindParticipant(w)
    <3>1. CASE Answer(w, "failed")
      BY AnsweredCall, <3>1 DEF Answers, CallStep
    <3>2. CASE Goto(w, "findTransaction")
      <4>1. call[w].answer = "none"
        BY <2>4, CallFacts DEF FindParticipant, At
      <4> QED BY MovedCall, <3>2, <4>1 DEF CallStep
    <3> QED BY <2>4, <3>1, <3>2 DEF FindParticipant
  <2>5. CASE FindTransaction(w)
    <3>1. PICK p \in Parts :
             /\ call[w].ids = {p}
             /\ Answer(w, IF global[TransOf[p]] \in Status
                            THEN Compensation(global[TransOf[p]]) ELSE "failed")
      BY <2>5, CallFacts DEF FindTransaction, At
    <3> DEFINE a == IF global[TransOf[p]] \in Status
                      THEN Compensation(global[TransOf[p]]) ELSE "failed"
    <3>2. /\ a \in Answers /\ a # "removed"
          /\ a = "confirm" => global[TransOf[p]] = CONFIRMING
          /\ a = "cancel"  => global[TransOf[p]] = CANCELING
      BY DEF Compensation, Answers, CONFIRMING, CANCELING
    <3>3. call'[w].answer = a /\ SameIds(w)
      BY AnsweredCall, <3>1, <3>2
    <3>4. Compensated(w)
      BY <3>1, <3>2, <3>3 DEF Compensated
    <3> QED BY <3>4 DEF CallStep
  <2>6. CASE Respond(w)
    BY <2>6 DEF Respond, NoCall, CallsOK, CallStep
  <2> QED BY <1>5, <2>1, <2>2, <2>3, <2>4, <2>5, <2>6 DEF WorkerStep
<1>6. CASE Crash
  BY <1>6 DEF Crash, NoCall, CallStep
<1>7. CASE UNCHANGED call
  BY <1>7 DEF CallStep
<1> QED BY <1>2, <1>3, <1>4, <1>5, <1>6, <1>7 DEF Next, serverVars, vars

LEMMA CoordinatedStep ==
    ASSUME TypeInv, Coordinated, [Next]_vars
    PROVE  /\ Coordinated'
           /\ \A t \in Trans : decision[t] # Undecided => decision'[t] = decision[t]
<1> USE DEF TypeInv, StoreTypeOK, Coordinated
<1>1. CASE UNCHANGED <<global, decision>>
  BY <1>1
<1>2. ASSUME NEW t \in Trans, RuntimeBegin(t)
      PROVE  /\ Coordinated'
             /\ \A u \in Trans : decision[u] # Undecided => decision'[u] = decision[u]
  BY <1>2 DEF RuntimeBegin, UNBORN, PRE_TRY, CONFIRMING, CANCELING
<1>3. ASSUME NEW t \in Trans, RuntimeDecide(t)
      PROVE  /\ Coordinated'
             /\ \A u \in Trans : decision[u] # Undecided => decision'[u] = decision[u]
  BY <1>3 DEF RuntimeDecide, UNBORN, PRE_TRY, CONFIRMING, CANCELING
<1>4. ASSUME NEW t \in Trans, RuntimeEnd(t)
      PROVE  /\ Coordinated'
             /\ \A u \in Trans : decision[u] # Undecided => decision'[u] = decision[u]
  BY <1>4 DEF RuntimeEnd, UNBORN, GONE, PRE_TRY, CONFIRMING, CANCELING, DELETE
<1>5. CASE RuntimeStep
  <2>1. ASSUME NEW p \in Parts, RuntimeJoin(p) \/ RuntimeTried(p) \/ RuntimePhase(p)
                 \/ RuntimeRetry(p) \/ RuntimeGiveUp(p) \/ RuntimeFinish(p)
        PROVE  UNCHANGED <<global, decision>>
    BY <2>1 DEF RuntimeJoin, RuntimeTried, RuntimePhase, RuntimeRetry, RuntimeGiveUp, RuntimeFinish
  <2> QED BY <1>1, <1>2, <1>3, <1>4, <1>5, <2>1 DEF RuntimeStep
<1>6. ASSUME NEW w \in Workers, Request(w) \/ WorkerStep(w) \/ StatementFails(w)
      PROVE  UNCHANGED <<global, decision>>
  BY <1>6, RequestKeeps
          DEF WorkerStep, DeleteRows, SetRetry, ResetStatus, FindParticipant, FindTransaction,
              Respond, StatementFails, storeVars
<1>7. CASE Crash \/ UNCHANGED vars
  BY <1>1, <1>7 DEF Crash, storeVars, vars
<1> QED BY <1>1, <1>5, <1>6, <1>7 DEF Next

LEMMA CompensationStep ==
    ASSUME TypeInv, Coordinated, CompensationMatchesDecision, [Next]_vars
    PROVE  CompensationMatchesDecision'
<1> SUFFICES ASSUME NEW w \in Workers, NEW p \in call'[w].ids
             PROVE  /\ call'[w].answer = "confirm" => decision'[TransOf[p]] = CONFIRMING
                    /\ call'[w].answer = "cancel"  => decision'[TransOf[p]] = CANCELING
  BY DEF CompensationMatchesDecision
<1>0. ASSUME NEW q \in call[w].ids
      PROVE  TransOf[q] \in Trans
  BY TransOfAssumption, CallFacts DEF TypeInv
<1>1. CASE call'[w] = call[w]
  BY <1>0, <1>1, CoordinatedStep
     DEF CompensationMatchesDecision, CONFIRMING, CANCELING, Undecided
<1>2. CASE Compensated(w)
  <2>1. PICK q \in Parts :
           /\ call[w].ids = {q} /\ SameIds(w)
           /\ call'[w].answer = "confirm" => global[TransOf[q]] = CONFIRMING
           /\ call'[w].answer = "cancel"  => global[TransOf[q]] = CANCELING
    BY <1>2 DEF Compensated
  <2>2. p = q /\ q \in call[w].ids
    BY <2>1 DEF SameIds
  <2> QED BY <1>0, <2>1, <2>2, CoordinatedStep
          DEF Coordinated, CONFIRMING, CANCELING, Undecided
<1>3. CASE call'[w].answer \in {"none", "error", "failed", "updated", "removed"}
  BY <1>3
<1> QED BY <1>1, <1>2, <1>3, CallSteps DEF CallStep

(* README.md:22-24, 43-45: compensation information names the phase that     *)
(* was decided for the transaction of the participant asked about.           *)
THEOREM CompensationIsRight == Spec => []CompensationMatchesDecision
<1> DEFINE I == Coordinated /\ CompensationMatchesDecision
<1>1. Init => I
  BY DEF Init, StoreInit, ServerInit, Coordinated, CompensationMatchesDecision,
         NoCall, UNBORN, CONFIRMING, CANCELING
<1>2. TypeInv /\ I /\ [Next]_vars => I'
  BY CoordinatedStep, CompensationStep
<1> QED BY <1>1, <1>2, SpecTypeInv, PTL DEF Spec

-----------------------------------------------------------------------------
(* Removals.  A row that is gone never comes back, and a thread only ever    *)
(* works on participants that have been stored at some time.                 *)

LEMMA GoneStays ==
    ASSUME TypeInv, [Next]_vars, NEW q \in Parts
    PROVE  /\ Known(q) => Known(q)'
           /\ participant[q].status = GONE => participant'[q].status = GONE
<1>1. CASE UNCHANGED participant
  BY <1>1 DEF Known
<1>2. ASSUME NEW w \in Workers, WorkerStep(w) \/ StatementFails(w), ~ UNCHANGED participant
      PROVE  \/ \E ids \in SUBSET Parts : participant' = AfterDelete(ids)
             \/ \E p \in Parts, n \in Accepted : participant' = AfterSetRetry(p, n)
             \/ \E p \in Parts : participant' = AfterResetStatus(p)
  <2>1. call[w].ids \in SUBSET Parts /\ call[w].retry \in Accepted
    BY CallFacts DEF TypeInv
  <2>2. CASE WorkerStep(w)
    BY <1>2, <2>1, <2>2 DEF WorkerStep, DeleteRows, SetRetry, ResetStatus, FindParticipant,
                            FindTransaction, Respond, storeVars
  <2>3. CASE StatementFails(w)
    BY <1>2, <2>1, <2>3 DEF StatementFails
  <2> QED BY <1>2, <2>2, <2>3
<1>3. ASSUME NEW w \in Workers, Request(w)
      PROVE  UNCHANGED participant
  BY <1>3, RequestKeeps DEF storeVars
<1>4. CASE Crash \/ UNCHANGED vars
  BY <1>1, <1>4 DEF Crash, storeVars, vars
<1> QED BY <1>1, <1>2, <1>3, <1>4, EffectsMonotone, RuntimeMonotone DEF Next

LEMMA FinalStep ==
    ASSUME TypeInv, Final, [Next]_vars
    PROVE  Final'
<1> SUFFICES ASSUME NEW w \in Workers, NEW p \in call'[w].ids
             PROVE  /\ Known(p)'
                    /\ call'[w].answer = "removed" => participant'[p].status = GONE
  BY DEF Final
<1>0. ASSUME NEW q \in call[w].ids
      PROVE  q \in Parts /\ Known(q)
  BY CallFacts DEF Final, TypeInv
<1>1. CASE call'[w] = call[w]
  BY <1>0, <1>1, GoneStays DEF Final
<1>2. CASE call'[w].ids \subseteq KnownIds /\ call'[w].answer \in {"none", "error"}
  BY <1>2, GoneStays DEF KnownIds
<1>3. CASE SameIds(w) /\ call'[w].answer # "removed"
  BY <1>0, <1>3, GoneStays DEF SameIds
<1>4. CASE DeleteRows(w) /\ SameIds(w)
  <2>1. p \in Parts /\ p \in call[w].ids /\ Known(p)
    BY <1>0, <1>4 DEF SameIds
  <2>2. participant'[p].status = GONE
    BY <1>4, <2>1
       DEF DeleteRows, AfterDelete, DeletedRow, Stored, Known, TypeInv, StoreTypeOK, Rows
  <2> QED BY <2>1, <2>2, GoneStays
<1> QED BY <1>1, <1>2, <1>3, <1>4, CallSteps DEF CallStep, Compensated

(* README.md:49-53: the rows of a removal that was answered with success are *)
(* gone, and nothing brings them back.                                      *)
THEOREM RemovalIsFinal == Spec => []RemoveIsFinal
<1>1. Init => Final
  BY DEF Init, ServerInit, Final, NoCall
<1>2. TypeInv /\ Final /\ [Next]_vars => Final'
  BY FinalStep
<1>3. Final => RemoveIsFinal
  BY FinalIsFinal
<1> QED BY <1>1, <1>2, <1>3, SpecTypeInv, PTL DEF Spec

-----------------------------------------------------------------------------
(* The console implements ParticipantLife.  Every change of the store is a   *)
(* change of one row, or the removal of some rows at once.                   *)

LEMMA StepImplements ==
    ASSUME TypeInv, [Next]_vars
    PROVE  P!Next \/ Life' = Life
<1>1. CASE UNCHANGED participant
  BY <1>1 DEF Life
<1>2. ASSUME NEW w \in Workers, WorkerStep(w) \/ StatementFails(w)
      PROVE  P!Next \/ Life' = Life
  <2>1. call[w].ids \in SUBSET Parts /\ call[w].retry \in Accepted
    BY CallFacts DEF TypeInv
  <2>2. CASE WorkerStep(w)
    BY <1>1, <2>1, <2>2, DeleteImplements, SetRetryImplements, ResetStatusImplements
       DEF WorkerStep, DeleteRows, SetRetry, ResetStatus, FindParticipant,
           FindTransaction, Respond, storeVars
  <2>3. CASE StatementFails(w)
    BY <1>1, <2>1, <2>3, DeleteImplements, SetRetryImplements, ResetStatusImplements
       DEF StatementFails
  <2> QED BY <1>2, <2>2, <2>3
<1>3. ASSUME NEW w \in Workers, Request(w)
      PROVE  UNCHANGED participant
  BY <1>3, RequestKeeps DEF storeVars
<1>4. CASE Crash \/ UNCHANGED vars
  BY <1>1, <1>4 DEF Crash, storeVars, vars
<1> QED BY <1>1, <1>2, <1>3, <1>4, RuntimeImplements DEF Next

(* Whatever requests, statements, failures, crashes and steps of the runtime *)
(* interleave, every row lives as ParticipantLife says (README.md:34-54).    *)
THEOREM RowsLive == Spec => ImplementsParticipantLife
<1>1. Init => P!Init
  BY SameCodes DEF Init, StoreInit, P!Init, Life, NoRow, UNBORN, DEATH
<1>2. TypeInv /\ [Next]_vars => [P!Next]_Life
  BY StepImplements
<1> QED BY <1>1, <1>2, SpecTypeInv, PTL DEF Spec, P!Spec, ImplementsParticipantLife

=============================================================================
