--------------------------- MODULE AdminServerProofs ---------------------------
(***************************************************************************)
(* Facts about the store, the calls and the requests that do not depend on  *)
(* the repository: DbRepositoryProofs and MongoRepositoryProofs both rest    *)
(* on them.                                                                 *)
(***************************************************************************)
EXTENDS AdminServer, TLAPS

(* Retry counts: what the controller accepts may be in a row, and the        *)
(* runtime's increments stay in the range (AdminServer.RetryRange).          *)
LEMMA RetryRangeFacts ==
    /\ 0 \in Accepted
    /\ Accepted \subseteq RetryRange
    /\ RetryRange \subseteq Int
    /\ \A n \in RetryRange : n < RuntimeRetryMax => n + 1 \in RetryRange
<1>1. 0 \in Accepted /\ Accepted \subseteq Int
  <2>1. 0 \in Accepted
    BY DEF Accepted
  <2>2. \A n \in Accepted : n \in Int
    BY RetryInputsAssumption DEF Accepted
  <2> QED BY <2>1, <2>2, Zenon
<1>2. Accepted \subseteq RetryRange /\ RetryRange \subseteq Int
  BY <1>1, RuntimeRetryMaxAssumption DEF RetryRange
<1>3. ASSUME NEW n \in RetryRange, n < RuntimeRetryMax
      PROVE  n + 1 \in RetryRange
  <2>1. PICK m \in Accepted : n \in {m} \cup (m .. RuntimeRetryMax)
    BY DEF RetryRange
  <2>2. m \in Int /\ n \in Int /\ m <= n
    BY <1>1, <2>1, RuntimeRetryMaxAssumption
  <2>3. n + 1 \in m .. RuntimeRetryMax
    BY <1>3, <2>2, RuntimeRetryMaxAssumption
  <2> QED BY <2>3 DEF RetryRange
<1> QED BY <1>1, <1>2, <1>3

-----------------------------------------------------------------------------
(* Types.                                                                   *)

Rows == [status : Status \cup {UNBORN, GONE}, retry : RetryRange]

StoreTypeOK ==
    /\ global \in [Trans -> Status \cup {UNBORN, GONE}]
    /\ participant \in [Parts -> Rows]
    /\ decision \in [Trans -> {Undecided, CONFIRMING, CANCELING}]

(* The statements' effects keep the types of the rows. *)
LEMMA EffectsType ==
    ASSUME participant \in [Parts -> Rows]
    PROVE  /\ \A ids \in SUBSET Parts : AfterDelete(ids) \in [Parts -> Rows]
           /\ \A p \in Parts, n \in Accepted : AfterSetRetry(p, n) \in [Parts -> Rows]
           /\ \A p \in Parts : AfterResetStatus(p) \in [Parts -> Rows]
<1>1. DeletedRow \in Rows
  BY RetryRangeFacts DEF DeletedRow, Rows
<1>2. PRE_TRY \in Status
  BY DEF Status
<1>3. ASSUME NEW ids \in SUBSET Parts
      PROVE  AfterDelete(ids) \in [Parts -> Rows]
  BY <1>1 DEF AfterDelete
<1>4. ASSUME NEW p \in Parts, NEW n \in Accepted
      PROVE  AfterSetRetry(p, n) \in [Parts -> Rows]
  BY RetryRangeFacts DEF AfterSetRetry, Rows
<1>5. ASSUME NEW p \in Parts
      PROVE  AfterResetStatus(p) \in [Parts -> Rows]
  BY <1>2 DEF AfterResetStatus, Rows
<1> QED BY <1>3, <1>4, <1>5

(* A step of the runtime keeps the types. *)
LEMMA RuntimeType ==
    ASSUME StoreTypeOK, RuntimeStep
    PROVE  StoreTypeOK'
<1> USE DEF StoreTypeOK
<1>0. /\ {PRE_TRY, TRYING, CONFIRMING, CANCELING, DELETE, DEATH} \subseteq Status
      /\ NoRow \in Rows /\ DeletedRow \in Rows
  BY RetryRangeFacts DEF Status, NoRow, DeletedRow, Rows
<1>1. ASSUME NEW t \in Trans, RuntimeBegin(t)
      PROVE  StoreTypeOK'
  BY <1>0, <1>1 DEF RuntimeBegin
<1>2. ASSUME NEW t \in Trans, RuntimeDecide(t)
      PROVE  StoreTypeOK'
  BY <1>0, <1>2 DEF RuntimeDecide
<1>3. ASSUME NEW t \in Trans, RuntimeEnd(t)
      PROVE  StoreTypeOK'
  BY <1>0, <1>3 DEF RuntimeEnd
<1>4. ASSUME NEW p \in Parts, RuntimeJoin(p)
      PROVE  StoreTypeOK'
  BY <1>0, <1>4 DEF RuntimeJoin, Rows
<1>5. ASSUME NEW p \in Parts, RuntimeTried(p)
      PROVE  StoreTypeOK'
  BY <1>0, <1>5 DEF RuntimeTried, Rows
<1>6. ASSUME NEW p \in Parts, RuntimePhase(p)
      PROVE  StoreTypeOK'
  <2>1. decision[TransOf[p]] \in Status
    BY <1>0, <1>6, TransOfAssumption DEF RuntimePhase, Decided
  <2> QED BY <2>1, <1>6 DEF RuntimePhase, Rows
<1>7. ASSUME NEW p \in Parts, RuntimeRetry(p)
      PROVE  StoreTypeOK'
  <2>1. participant[p].retry + 1 \in RetryRange
    BY <1>7, RetryRangeFacts DEF RuntimeRetry, Rows
  <2> QED BY <2>1, <1>7 DEF RuntimeRetry, Rows
<1>8. ASSUME NEW p \in Parts, RuntimeGiveUp(p)
      PROVE  StoreTypeOK'
  BY <1>0, <1>8 DEF RuntimeGiveUp, Rows
<1>9. ASSUME NEW p \in Parts, RuntimeFinish(p)
      PROVE  StoreTypeOK'
  BY <1>0, <1>9 DEF RuntimeFinish, Rows
<1> QED BY <1>1, <1>2, <1>3, <1>4, <1>5, <1>6, <1>7, <1>8, <1>9 DEF RuntimeStep

-----------------------------------------------------------------------------
(* Calls.  A thread in an update or a question works on one participant, and *)
(* has no answer before it has finished.                                    *)

Shaped(c) ==
    /\ c.pc \in {"setRetry", "resetStatus", "findParticipant", "findTransaction"} =>
          \E p \in Parts : c.ids = {p}
    /\ c.pc # "answered" => c.answer = "none"

CallsOK == call \in [Workers -> Calls] /\ \A w \in Workers : Shaped(call[w])

(* How the call of a thread changes: replaced, moved on, or answered. *)
LEMMA CallReplaced ==
    ASSUME CallsOK, NEW w \in Workers, NEW c \in Calls, Shaped(c),
           call' = [call EXCEPT ![w] = c]
    PROVE  CallsOK'
BY DEF CallsOK, Shaped

LEMMA CallMoved ==
    ASSUME CallsOK, NEW w \in Workers, NEW s \in Statements, Goto(w, s),
           \E p \in Parts : call[w].ids = {p}, call[w].answer = "none"
    PROVE  /\ CallsOK'
           /\ call' = [call EXCEPT ![w] = [call[w] EXCEPT !.pc = s]]
<1> DEFINE c == [call[w] EXCEPT !.pc = s]
<1>1. call' = [call EXCEPT ![w] = c]
  BY DEF Goto
<1>2. c \in Calls /\ Shaped(c)
  BY DEF CallsOK, Calls, Shaped
<1> QED BY <1>1, <1>2, CallReplaced

LEMMA CallAnswered ==
    ASSUME CallsOK, NEW w \in Workers, NEW a \in Answers, Answer(w, a)
    PROVE  /\ CallsOK'
           /\ call' = [call EXCEPT ![w] = [call[w] EXCEPT !.pc = "answered", !.answer = a]]
<1> DEFINE c == [call[w] EXCEPT !.pc = "answered", !.answer = a]
<1>1. call' = [call EXCEPT ![w] = c]
  BY DEF CallsOK, Calls, Answer
<1>2. c \in Calls /\ Shaped(c)
  BY DEF CallsOK, Calls, Shaped
<1> QED BY <1>1, <1>2, CallReplaced

(* A request leaves behind a call with validated arguments, and no answer    *)
(* but a refusal.                                                           *)
Fresh(c) ==
    /\ c \in Calls /\ Shaped(c)
    /\ c.pc # "resetStatus"
    /\ c.answer \in {"none", "error", "failed"}

LEMMA RequestCalls ==
    ASSUME CallsOK, NEW w \in Workers, Request(w)
    PROVE  CallsOK' /\ \E c : Fresh(c) /\ call' = [call EXCEPT ![w] = c]
<1>1. SUFFICES \E c : Fresh(c) /\ call' = [call EXCEPT ![w] = c]
  BY CallReplaced DEF Fresh
<1>2. /\ Fresh(Refused)
      /\ \A ids \in SUBSET Parts : Fresh(Accepting("delete", ids, 0))
      /\ \A p \in Parts, n \in Accepted : Fresh(Accepting("setRetry", {p}, n))
      /\ \A p \in Parts : Fresh(Accepting("findParticipant", {p}, 0))
  BY RetryRangeFacts
     DEF Fresh, Refused, Accepting, NoCall, Calls, Shaped, Answers, Statements
<1>3. ASSUME NEW ids \in SUBSET KnownIds, RequestRemove(w, ids)
      PROVE  \E c : Fresh(c) /\ call' = [call EXCEPT ![w] = c]
  <2>1. ids \in SUBSET Parts
    BY DEF KnownIds
  <2>2. CASE call' = [call EXCEPT ![w] = Refused]
    BY <1>2, <2>2
  <2>3. CASE call' = [call EXCEPT ![w] = Accepting("delete", ids, 0)]
    BY <1>2, <2>1, <2>3
  <2> QED BY <1>3, <2>2, <2>3 DEF RequestRemove, Begin
<1>4. ASSUME NEW p \in KnownIds, NEW n \in RetryInputs, RequestUpdate(w, p, n)
      PROVE  \E c : Fresh(c) /\ call' = [call EXCEPT ![w] = c]
  <2>1. p \in Parts
    BY DEF KnownIds
  <2>2. CASE RetryMax < n /\ call' = [call EXCEPT ![w] = Refused]
    BY <1>2, <2>2
  <2>3. CASE ~ (RetryMax < n) /\ call' = [call EXCEPT ![w] = Accepting("setRetry", {p}, n)]
    <3>1. n \in Accepted
      BY <2>3, RetryInputsAssumption, RetryMaxAssumption DEF Accepted
    <3> QED BY <1>2, <2>1, <2>3, <3>1
  <2> QED BY <1>4, <2>2, <2>3 DEF RequestUpdate, Begin
<1>5. ASSUME NEW p \in KnownIds, RequestCompensation(w, p)
      PROVE  \E c : Fresh(c) /\ call' = [call EXCEPT ![w] = c]
  <2>1. p \in Parts
    BY DEF KnownIds
  <2> QED BY <1>2, <1>5, <2>1 DEF RequestCompensation, Begin
<1>6. ASSUME RequestIncomplete(w)
      PROVE  \E c : Fresh(c) /\ call' = [call EXCEPT ![w] = c]
  <2>1. PICK a \in {"error", "failed"} : Answer(w, a)
    BY <1>6 DEF RequestIncomplete
  <2>2. call' = [call EXCEPT ![w] = [call[w] EXCEPT !.pc = "answered", !.answer = a]]
    <3>1. a \in Answers
      BY DEF Answers
    <3> QED BY <2>1, <3>1, CallAnswered
  <2>3. Fresh([call[w] EXCEPT !.pc = "answered", !.answer = a])
    BY DEF Fresh, CallsOK, Calls, Shaped, Answers
  <2> QED BY <2>2, <2>3
<1> QED BY <1>3, <1>4, <1>5, <1>6 DEF Request

-----------------------------------------------------------------------------
(* Type correctness of the whole.                                           *)

TypeInv ==
    /\ StoreTypeOK
    /\ CallsOK
    /\ interrupted \subseteq Parts
    /\ faults \in 0 .. MaxFaults

LEMMA TypeInvImpliesTypeOK ==
    ASSUME TypeInv
    PROVE  TypeOK
BY DEF TypeInv, TypeOK, StoreTypeOK, CallsOK, Rows

(* The initial state is typed. *)
LEMMA InitType ==
    ASSUME StoreInit, ServerInit
    PROVE  TypeInv
<1>1. StoreTypeOK
  BY RetryRangeFacts DEF StoreInit, StoreTypeOK, NoRow, Rows
<1>2. NoCall \in Calls /\ Shaped(NoCall)
  BY RetryRangeFacts DEF NoCall, Calls, Shaped
<1>3. CallsOK
  BY <1>2 DEF ServerInit, CallsOK
<1>4. interrupted \subseteq Parts /\ faults \in 0 .. MaxFaults
  BY MaxFaultsAssumption DEF ServerInit
<1> QED BY <1>1, <1>3, <1>4 DEF TypeInv

(* What a thread's call refers to is in the domains of the store. *)
LEMMA CallFacts ==
    ASSUME CallsOK, NEW w \in Workers
    PROVE  /\ call[w].ids \in SUBSET Parts
           /\ call[w].retry \in Accepted
           /\ ~ At(w, "answered") => call[w].answer = "none"
           /\ call[w].pc \in {"setRetry", "resetStatus", "findParticipant", "findTransaction"} =>
                 \E p \in Parts : call[w].ids = {p}
BY DEF CallsOK, Calls, Shaped, At

(* The steps every repository has in common, and that they keep the types. *)
ServerStep ==
    \/ \E w \in Workers : Request(w)
    \/ Crash
    \/ RuntimeStep /\ UNCHANGED serverVars
    \/ UNCHANGED vars

LEMMA RequestKeeps ==
    ASSUME NEW w \in Workers, Request(w)
    PROVE  At(w, "idle") /\ UNCHANGED <<storeVars, interrupted, faults>>
BY DEF Request, RequestRemove, RequestUpdate, RequestCompensation, RequestIncomplete

LEMMA ServerStepType ==
    ASSUME TypeInv, ServerStep
    PROVE  TypeInv'
<1>1. ASSUME NEW w \in Workers, Request(w)
      PROVE  TypeInv'
  BY <1>1, RequestKeeps, RequestCalls DEF TypeInv, StoreTypeOK, storeVars
<1>2. CASE Crash
  <2>1. NoCall \in Calls /\ Shaped(NoCall)
    BY RetryRangeFacts DEF NoCall, Calls, Shaped
  <2>2. CallsOK'
    BY <1>2, <2>1 DEF Crash, CallsOK
  <2>3. interrupted' \subseteq Parts
    BY <1>2, CallFacts DEF Crash, TypeInv
  <2>4. faults' \in 0 .. MaxFaults
    BY <1>2, MaxFaultsAssumption DEF Crash, TypeInv
  <2> QED BY <1>2, <2>2, <2>3, <2>4 DEF Crash, TypeInv, StoreTypeOK, storeVars
<1>3. CASE RuntimeStep /\ UNCHANGED serverVars
  BY <1>3, RuntimeType DEF TypeInv, CallsOK, serverVars
<1>4. CASE UNCHANGED vars
  BY <1>4 DEF TypeInv, StoreTypeOK, CallsOK, vars
<1> QED BY <1>1, <1>2, <1>3, <1>4 DEF ServerStep

-----------------------------------------------------------------------------
(* What a step does to the call of the thread that takes it, and to the      *)
(* calls of the others.                                                     *)

SameIds(w) == call'[w].ids = call[w].ids

LEMMA AnsweredCall ==
    ASSUME CallsOK, NEW w \in Workers, NEW a \in Answers, Answer(w, a)
    PROVE  SameIds(w) /\ call'[w].answer = a /\ call'[w].pc = "answered"
<1>1. call' = [call EXCEPT ![w] = [call[w] EXCEPT !.pc = "answered", !.answer = a]]
  BY CallAnswered
<1>2. call'[w] = [call[w] EXCEPT !.pc = "answered", !.answer = a]
  BY <1>1 DEF CallsOK
<1> QED BY <1>2 DEF CallsOK, Calls, SameIds

LEMMA MovedCall ==
    ASSUME CallsOK, NEW w \in Workers, NEW s, Goto(w, s)
    PROVE  SameIds(w) /\ call'[w].answer = call[w].answer /\ call'[w].pc = s
<1>1. call'[w] = [call[w] EXCEPT !.pc = s]
  BY DEF Goto, CallsOK
<1> QED BY <1>1 DEF CallsOK, Calls, SameIds

LEMMA RequestedCall ==
    ASSUME CallsOK, NEW w \in Workers, Request(w)
    PROVE  \/ call'[w].ids \subseteq KnownIds /\ call'[w].answer \in {"none", "error"}
           \/ SameIds(w) /\ call'[w].answer \in {"error", "failed"}
<1>1. ASSUME Begin(w, Refused)
      PROVE  call'[w].ids \subseteq KnownIds /\ call'[w].answer = "error"
  <2>1. Refused.ids = {} /\ Refused.answer = "error"
    BY DEF Refused, NoCall
  <2>2. call'[w] = Refused
    BY <1>1 DEF Begin, CallsOK
  <2> QED BY <2>1, <2>2
<1>2. ASSUME NEW s, NEW ids \in SUBSET KnownIds, NEW n, Begin(w, Accepting(s, ids, n))
      PROVE  call'[w].ids \subseteq KnownIds /\ call'[w].answer = "none"
  BY <1>2 DEF Begin, Accepting, CallsOK
<1>3. CASE \E ids \in SUBSET KnownIds : RequestRemove(w, ids)
  BY <1>1, <1>2, <1>3 DEF RequestRemove
<1>4. CASE \E p \in KnownIds, n \in RetryInputs : RequestUpdate(w, p, n)
  BY <1>1, <1>2, <1>4 DEF RequestUpdate
<1>5. CASE \E p \in KnownIds : RequestCompensation(w, p)
  BY <1>2, <1>5 DEF RequestCompensation
<1>6. CASE RequestIncomplete(w)
  <2>1. PICK a \in {"error", "failed"} : Answer(w, a)
    BY <1>6 DEF RequestIncomplete
  <2>2. a \in Answers
    BY DEF Answers
  <2> QED BY <2>1, <2>2, AnsweredCall
<1> QED BY <1>3, <1>4, <1>5, <1>6 DEF Request

(* A participant being revived by another thread still is. *)
LEMMA OthersRevive ==
    ASSUME TypeInv, NEW w \in Workers, NEW c, call' = [call EXCEPT ![w] = c],
           NEW q \in Parts, Reviving(q), ~ (At(w, "resetStatus") /\ q \in call[w].ids)
    PROVE  Reviving(q)'
<1>1. PICK v \in Workers : At(v, "resetStatus") /\ q \in call[v].ids
  BY DEF Reviving
<1>2. v # w
  BY <1>1
<1>3. call'[v] = call[v]
  BY <1>2 DEF TypeInv, CallsOK
<1> QED BY <1>1, <1>3 DEF Reviving, At

-----------------------------------------------------------------------------
(* What the steps do to a row, as far as being stranded goes.               *)

(* What the statements do to one row, as far as being stranded goes. *)
LEMMA EffectsOnStranded ==
    ASSUME TypeInv, NEW q \in Parts, Stranded(q)'
    PROVE  /\ \A ids \in SUBSET Parts : participant' = AfterDelete(ids) => Stranded(q)
           /\ \A p \in Parts, n \in Accepted :
                 participant' = AfterSetRetry(p, n) => p = q \/ Stranded(q)
           /\ \A p \in Parts : participant' = AfterResetStatus(p) => p # q /\ Stranded(q)
           /\ participant' = participant => Stranded(q)
<1> USE DEF Stranded, TypeInv, StoreTypeOK
<1>1. ASSUME NEW ids \in SUBSET Parts, participant' = AfterDelete(ids)
      PROVE  Stranded(q)
  BY <1>1 DEF AfterDelete, DeletedRow, GONE, DEATH
<1>2. ASSUME NEW p \in Parts, NEW n \in Accepted, participant' = AfterSetRetry(p, n), p # q
      PROVE  Stranded(q)
  BY <1>2 DEF AfterSetRetry
<1>3. ASSUME NEW p \in Parts, participant' = AfterResetStatus(p)
      PROVE  p # q /\ Stranded(q)
  BY <1>3 DEF AfterResetStatus, Rows, PRE_TRY, DEATH
<1> QED BY <1>1, <1>2, <1>3

(* The runtime gives a participant up only when its retries are used up. *)
LEMMA RuntimeStrandsNobody ==
    ASSUME TypeInv, RuntimeStep, NEW q \in Parts, Stranded(q)'
    PROVE  Stranded(q)
<1> USE DEF Stranded, TypeInv, StoreTypeOK, Rows, DEATH
<1>1. ASSUME NEW t \in Trans, RuntimeBegin(t) \/ RuntimeDecide(t) \/ RuntimeEnd(t)
      PROVE  Stranded(q)
  BY <1>1 DEF RuntimeBegin, RuntimeDecide, RuntimeEnd
<1>2. ASSUME NEW p \in Parts, RuntimeJoin(p) \/ RuntimeTried(p)
      PROVE  Stranded(q)
  BY <1>2 DEF RuntimeJoin, RuntimeTried, PRE_TRY, TRYING
<1>3. ASSUME NEW p \in Parts, RuntimePhase(p)
      PROVE  Stranded(q)
  <2>1. decision[TransOf[p]] \in {CONFIRMING, CANCELING}
    BY <1>3, TransOfAssumption DEF RuntimePhase, Decided
  <2> QED BY <1>3, <2>1 DEF RuntimePhase, CONFIRMING, CANCELING
<1>4. ASSUME NEW p \in Parts, RuntimeRetry(p)
      PROVE  Stranded(q)
  BY <1>4 DEF RuntimeRetry, Live, LiveStatus, PRE_TRY, TRYING, CONFIRMING, CANCELING
<1>5. ASSUME NEW p \in Parts, RuntimeGiveUp(p)
      PROVE  Stranded(q)
  BY <1>5, RetryRangeFacts, RuntimeRetryMaxAssumption DEF RuntimeGiveUp
<1>6. ASSUME NEW p \in Parts, RuntimeFinish(p)
      PROVE  Stranded(q)
  BY <1>6 DEF RuntimeFinish, DeletedRow, GONE, DELETE
<1> QED BY <1>1, <1>2, <1>3, <1>4, <1>5, <1>6 DEF RuntimeStep

-----------------------------------------------------------------------------
(* A row that is gone never comes back, and a participant that has been      *)
(* stored at some time stays known.                                         *)

(* What a thread works on has been stored at some time, and what it has      *)
(* answered as removed is gone.                                             *)
Final ==
    \A w \in Workers : \A p \in call[w].ids :
        /\ Known(p)
        /\ call[w].answer = "removed" => participant[p].status = GONE

LEMMA FinalIsFinal ==
    ASSUME Final
    PROVE  RemoveIsFinal
BY DEF Final, RemoveIsFinal, Stored, Status, GONE, PRE_TRY, TRYING, CONFIRMING,
       CANCELING, DELETE, DEATH

LEMMA EffectsMonotone ==
    ASSUME TypeInv, NEW q \in Parts,
           \/ \E ids \in SUBSET Parts : participant' = AfterDelete(ids)
           \/ \E p \in Parts, n \in Accepted : participant' = AfterSetRetry(p, n)
           \/ \E p \in Parts : participant' = AfterResetStatus(p)
    PROVE  /\ Known(q) => Known(q)'
           /\ participant[q].status = GONE => participant'[q].status = GONE
<1> USE DEF TypeInv, StoreTypeOK, Known
<1>1. ASSUME NEW ids \in SUBSET Parts, participant' = AfterDelete(ids)
      PROVE  /\ Known(q) => Known(q)'
             /\ participant[q].status = GONE => participant'[q].status = GONE
  BY <1>1 DEF AfterDelete, DeletedRow, UNBORN, GONE
<1>2. ASSUME NEW p \in Parts, NEW n \in Accepted, participant' = AfterSetRetry(p, n)
      PROVE  participant'[q].status = participant[q].status
  BY <1>2 DEF AfterSetRetry, Rows
<1>3. ASSUME NEW p \in Parts, participant' = AfterResetStatus(p)
      PROVE  /\ Known(q) => Known(q)'
             /\ participant[q].status = GONE => participant'[q].status = GONE
  BY <1>3 DEF AfterResetStatus, Rows, PRE_TRY, DEATH, UNBORN, GONE
<1> QED BY <1>1, <1>2, <1>3

LEMMA RuntimeMonotone ==
    ASSUME TypeInv, RuntimeStep, NEW q \in Parts
    PROVE  /\ Known(q) => Known(q)'
           /\ participant[q].status = GONE => participant'[q].status = GONE
<1> USE DEF TypeInv, StoreTypeOK, Rows, Known, UNBORN, GONE
<1>1. ASSUME NEW t \in Trans, RuntimeBegin(t) \/ RuntimeDecide(t) \/ RuntimeEnd(t)
      PROVE  participant' = participant
  BY <1>1 DEF RuntimeBegin, RuntimeDecide, RuntimeEnd
<1>2. ASSUME NEW p \in Parts, RuntimeJoin(p) \/ RuntimeTried(p)
      PROVE  /\ Known(q) => Known(q)'
             /\ participant[q].status = GONE => participant'[q].status = GONE
  BY <1>2 DEF RuntimeJoin, RuntimeTried, PRE_TRY, TRYING
<1>3. ASSUME NEW p \in Parts, RuntimePhase(p)
      PROVE  /\ Known(q) => Known(q)'
             /\ participant[q].status = GONE => participant'[q].status = GONE
  <2>1. decision[TransOf[p]] \in {CONFIRMING, CANCELING}
    BY <1>3, TransOfAssumption DEF RuntimePhase, Decided
  <2> QED BY <1>3, <2>1 DEF RuntimePhase, CONFIRMING, CANCELING, PRE_TRY, TRYING
<1>4. ASSUME NEW p \in Parts, RuntimeRetry(p)
      PROVE  participant'[q].status = participant[q].status
  BY <1>4 DEF RuntimeRetry
<1>5. ASSUME NEW p \in Parts, RuntimeGiveUp(p)
      PROVE  /\ Known(q) => Known(q)'
             /\ participant[q].status = GONE => participant'[q].status = GONE
  BY <1>5 DEF RuntimeGiveUp, Live, LiveStatus, PRE_TRY, TRYING, CONFIRMING, CANCELING, DEATH
<1>6. ASSUME NEW p \in Parts, RuntimeFinish(p)
      PROVE  /\ Known(q) => Known(q)'
             /\ participant[q].status = GONE => participant'[q].status = GONE
  BY <1>6 DEF RuntimeFinish, DeletedRow, CONFIRMING, CANCELING, DELETE
<1> QED BY <1>1, <1>2, <1>3, <1>4, <1>5, <1>6 DEF RuntimeStep

-----------------------------------------------------------------------------
(* The console implements ParticipantLife.  Every change of the store is a   *)
(* change of one row, or the removal of some rows at once.                   *)

LEMMA SameCodes ==
    /\ P!PRE_TRY = PRE_TRY /\ P!TRYING = TRYING /\ P!CONFIRMING = CONFIRMING
    /\ P!CANCELING = CANCELING /\ P!DELETE = DELETE /\ P!DEATH = DEATH
    /\ P!Status = Status /\ P!LiveStatus = LiveStatus
    /\ P!UNBORN = UNBORN /\ P!NoRow = NoRow /\ P!DeletedRow = DeletedRow
    /\ P!Dead = [status |-> DEATH, retry |-> 0]
BY DEF PRE_TRY, TRYING, CONFIRMING, CANCELING, DELETE, DEATH, Status, LiveStatus,
       NoRow, DeletedRow, UNBORN, GONE,
       P!PRE_TRY, P!TRYING, P!CONFIRMING, P!CANCELING, P!DELETE, P!DEATH, P!Status,
       P!LiveStatus, P!NoRow, P!DeletedRow, P!UNBORN, P!GONE, P!Dead

Show(r) == IF r.status = DEATH THEN [status |-> DEATH, retry |-> 0] ELSE r

LEMMA LifeChange ==
    ASSUME TypeInv, NEW p \in Parts, NEW r \in Rows,
           participant' = [participant EXCEPT ![p] = r]
    PROVE  /\ Life' = [Life EXCEPT ![p] = Show(r)]
           /\ Life[p] = Show(participant[p])
BY DEF Life, Show, TypeInv, StoreTypeOK

LEMMA DeleteImplements ==
    ASSUME TypeInv, NEW ids \in SUBSET Parts, participant' = AfterDelete(ids)
    PROVE  P!Next
<1> DEFINE gone == {p \in ids : Stored(p)}
<1>1. Life' = [p \in Parts |-> IF p \in gone THEN DeletedRow ELSE Life[p]]
  BY DEF Life, AfterDelete, DeletedRow, TypeInv, StoreTypeOK, GONE, DEATH
<1>2. \A p \in gone : Life[p].status \in Status
  BY DEF Life, Stored, Status
<1>3. gone \in SUBSET Parts
  OBVIOUS
<1>4. P!Remove(gone)
  BY <1>1, <1>2, SameCodes DEF P!Remove
<1> QED BY <1>3, <1>4 DEF P!Next

LEMMA SetRetryImplements ==
    ASSUME TypeInv, NEW p \in Parts, NEW n \in Accepted, participant' = AfterSetRetry(p, n)
    PROVE  P!Next \/ Life' = Life
<1> DEFINE r == [participant[p] EXCEPT !.retry = n]
<1>1. participant[p] \in Rows
  BY DEF TypeInv, StoreTypeOK
<1>2. r = [status |-> participant[p].status, retry |-> n] /\ r \in Rows /\ n \in RetryRange
  BY <1>1, RetryRangeFacts DEF Rows
<1>3. CASE ~ Stored(p)
  BY <1>3 DEF AfterSetRetry, Life
<1>4. CASE Stored(p) /\ participant[p].status = DEATH
  <2>1. Life' = [Life EXCEPT ![p] = Show(r)] /\ Life[p] = Show(participant[p])
    BY <1>2, <1>4, LifeChange DEF AfterSetRetry
  <2>2. Show(r) = Show(participant[p])
    BY <1>2, <1>4 DEF Show
  <2> QED BY <2>1, <2>2 DEF Life
<1>5. CASE Stored(p) /\ participant[p].status # DEATH
  <2>1. Life' = [Life EXCEPT ![p] = Show(r)] /\ Life[p] = Show(participant[p])
    BY <1>2, <1>5, LifeChange DEF AfterSetRetry
  <2>2. Life[p] = participant[p] /\ Show(r) = r
    BY <1>2, <1>5, <2>1 DEF Show
  <2>3. Life[p].status \in LiveStatus \cup {DELETE}
    BY <1>5, <2>2 DEF Stored, Status, LiveStatus
  <2>4. Life' = [Life EXCEPT ![p].retry = n]
    BY <2>1, <2>2
  <2>5. P!Edit(p)
    BY <1>2, <2>3, <2>4, SameCodes DEF P!Edit
  <2> QED BY <2>5 DEF P!Next
<1> QED BY <1>3, <1>4, <1>5

LEMMA ResetStatusImplements ==
    ASSUME TypeInv, NEW p \in Parts, participant' = AfterResetStatus(p)
    PROVE  P!Next \/ Life' = Life
<1> DEFINE r == [participant[p] EXCEPT !.status = PRE_TRY]
<1>1. participant[p] \in Rows
  BY DEF TypeInv, StoreTypeOK
<1>2. r = [status |-> PRE_TRY, retry |-> participant[p].retry] /\ r \in Rows
  BY <1>1 DEF Rows, Status
<1>3. CASE participant[p].status # DEATH
  BY <1>3 DEF AfterResetStatus, Life
<1>4. CASE participant[p].status = DEATH
  <2>1. Life' = [Life EXCEPT ![p] = Show(r)] /\ Life[p] = Show(participant[p])
    BY <1>2, <1>4, LifeChange DEF AfterResetStatus
  <2>2. Show(r) = r /\ Life[p].status = DEATH
    BY <1>2, <1>4, <2>1 DEF Show, PRE_TRY, DEATH
  <2>3. participant[p].retry \in RetryRange
    BY <1>1 DEF Rows
  <2>4. P!Revive(p)
    BY <1>2, <2>1, <2>2, <2>3, SameCodes DEF P!Revive
  <2> QED BY <2>4 DEF P!Next
<1> QED BY <1>3, <1>4

LEMMA RuntimeImplements ==
    ASSUME TypeInv, RuntimeStep
    PROVE  P!Next \/ Life' = Life
<1> USE DEF PRE_TRY, TRYING, CONFIRMING, CANCELING, DELETE, DEATH, UNBORN, GONE
<1>0. ASSUME NEW p \in Parts
      PROVE  participant[p] \in Rows
  BY DEF TypeInv, StoreTypeOK
<1>1. ASSUME NEW t \in Trans, RuntimeBegin(t) \/ RuntimeDecide(t) \/ RuntimeEnd(t)
      PROVE  Life' = Life
  BY <1>1 DEF RuntimeBegin, RuntimeDecide, RuntimeEnd, Life
<1>2. ASSUME NEW p \in Parts, NEW s \in LiveStatus \cup {DELETE},
             participant[p].status \in LiveStatus,
             s \in P!Later(participant[p].status),
             participant' = [participant EXCEPT ![p].status = s]
      PROVE  P!Next
  <2> DEFINE r == [participant[p] EXCEPT !.status = s]
  <2>1. r = [status |-> s, retry |-> participant[p].retry] /\ r \in Rows
    BY <1>0 DEF Rows, LiveStatus, Status
  <2>2. Life' = [Life EXCEPT ![p] = Show(r)] /\ Life[p] = Show(participant[p])
    BY <1>2, <2>1, LifeChange
  <2>3. Show(r) = r /\ Life[p] = participant[p]
    BY <1>2, <2>1, <2>2 DEF Show, LiveStatus
  <2>4. P!Advance(p)
    BY <1>2, <2>2, <2>3 DEF P!Advance
  <2> QED BY <2>4 DEF P!Next
<1>3. ASSUME NEW p \in Parts, RuntimeJoin(p)
      PROVE  P!Next
  <2> DEFINE r == [participant[p] EXCEPT !.status = PRE_TRY]
  <2>1. r = [status |-> PRE_TRY, retry |-> participant[p].retry] /\ r \in Rows
    BY <1>0 DEF Rows, Status
  <2>2. Life' = [Life EXCEPT ![p] = Show(r)] /\ Life[p] = Show(participant[p])
    BY <1>3, <2>1, LifeChange DEF RuntimeJoin
  <2>3. Show(r) = r /\ Life[p] = participant[p]
    BY <1>3, <2>1, <2>2 DEF Show, RuntimeJoin
  <2>4. P!Join(p)
    BY <1>3, <2>2, <2>3, SameCodes DEF P!Join, RuntimeJoin
  <2> QED BY <2>4 DEF P!Next
<1>4. ASSUME NEW p \in Parts, RuntimeTried(p)
      PROVE  P!Next
  <2>1. TRYING \in P!Later(participant[p].status)
    BY <1>4, SameCodes DEF RuntimeTried, P!Later
  <2> QED BY <1>2, <1>4, <2>1 DEF RuntimeTried, LiveStatus
<1>5. ASSUME NEW p \in Parts, RuntimePhase(p)
      PROVE  P!Next
  <2>1. decision[TransOf[p]] \in {CONFIRMING, CANCELING}
    BY <1>5, TransOfAssumption DEF RuntimePhase, Decided, TypeInv, StoreTypeOK
  <2>2. {CONFIRMING, CANCELING} \subseteq P!Later(participant[p].status)
    BY <1>5, SameCodes DEF RuntimePhase, P!Later
  <2> QED BY <1>2, <1>5, <2>1, <2>2 DEF RuntimePhase, LiveStatus
<1>6. ASSUME NEW p \in Parts, RuntimeRetry(p)
      PROVE  P!Next
  <2> DEFINE r == [participant[p] EXCEPT !.retry = participant[p].retry + 1]
  <2>1. r = [status |-> participant[p].status, retry |-> participant[p].retry + 1] /\ r \in Rows
    BY <1>0, <1>6, RetryRangeFacts DEF Rows, RuntimeRetry
  <2>2. Life' = [Life EXCEPT ![p] = Show(r)] /\ Life[p] = Show(participant[p])
    BY <1>6, <2>1, LifeChange DEF RuntimeRetry
  <2>3. Show(r) = r /\ Life[p] = participant[p]
    BY <1>6, <2>1, <2>2 DEF Show, RuntimeRetry, Live, LiveStatus
  <2>4. P!Retry(p)
    BY <1>6, <2>2, <2>3, SameCodes DEF P!Retry, RuntimeRetry, Live
  <2> QED BY <2>4 DEF P!Next
<1>7. ASSUME NEW p \in Parts, RuntimeGiveUp(p)
      PROVE  P!Next
  <2> DEFINE r == [participant[p] EXCEPT !.status = DEATH]
  <2>1. r = [status |-> DEATH, retry |-> participant[p].retry] /\ r \in Rows
    BY <1>0 DEF Rows, Status
  <2>2. Life' = [Life EXCEPT ![p] = Show(r)] /\ Life[p] = Show(participant[p])
    BY <1>7, <2>1, LifeChange DEF RuntimeGiveUp
  <2>3. Show(r) = P!Dead /\ Life[p] = participant[p]
    BY <1>7, <2>1, <2>2, SameCodes DEF Show, RuntimeGiveUp, Live, LiveStatus
  <2>4. P!GiveUp(p)
    BY <1>7, <2>2, <2>3, SameCodes DEF P!GiveUp, RuntimeGiveUp, Live
  <2> QED BY <2>4 DEF P!Next
<1>8. ASSUME NEW p \in Parts, RuntimeFinish(p)
      PROVE  P!Next
  <2>1. CASE participant' = [participant EXCEPT ![p].status = DELETE]
    <3>1. DELETE \in P!Later(participant[p].status)
      BY <1>8, SameCodes DEF RuntimeFinish, P!Later
    <3> QED BY <1>2, <1>8, <2>1, <3>1 DEF RuntimeFinish, LiveStatus
  <2>2. CASE participant' = [participant EXCEPT ![p] = DeletedRow]
    <3>1. DeletedRow \in Rows /\ Show(DeletedRow) = DeletedRow
      BY RetryRangeFacts DEF DeletedRow, Rows, Show
    <3>2. Life' = [Life EXCEPT ![p] = DeletedRow] /\ Life[p] = Show(participant[p])
      BY <2>2, <3>1, LifeChange
    <3>3. Life[p] = participant[p]
      BY <1>8, <3>2 DEF Show, RuntimeFinish
    <3>4. P!Finish(p)
      BY <1>8, <3>2, <3>3, SameCodes DEF P!Finish, RuntimeFinish
    <3> QED BY <3>4 DEF P!Next
  <2> QED BY <1>8, <2>1, <2>2 DEF RuntimeFinish
<1> QED BY <1>1, <1>3, <1>4, <1>5, <1>6, <1>7, <1>8 DEF RuntimeStep

=============================================================================
