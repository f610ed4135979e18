------------------------------ MODULE HmilyStore ------------------------------
(***************************************************************************)
(* The two tables (or collections) the console works on, and the steps the *)
(* external hmily runtime takes on them.  The console never creates a row: *)
(* global transactions and participants are written by the runtime inside  *)
(* the applications, which is not part of this repository.  Its steps are  *)
(* modelled from what the console relies on: the status codes, the retry   *)
(* limit described in README.md:34-38 and the two-phase outcome described  *)
(* in README.md:21-24.                                                     *)
(*                                                                         *)
(* Every statement the console sends is one atomic step: the repositories  *)
(* open no transaction (JdbcTemplate and MongoTemplate without a manager). *)
(***************************************************************************)
EXTENDS HmilyActionEnum

CONSTANTS
    Trans,             \* ids of global transactions
    Parts,             \* ids of participants (branch transactions)
    TransOf,           \* participant id -> its trans_id
    RuntimeRetryMax    \* retry limit configured in the hmily runtime

ASSUME TransOfAssumption == TransOf \in [Parts -> Trans]
ASSUME RuntimeRetryMaxAssumption == RuntimeRetryMax \in Nat

VARIABLES
    global,        \* status of each global row
    participant,   \* status and retry of each participant row
    decision       \* what the coordinator decided; the runtime's own memory

storeVars == <<global, participant, decision>>

\* Codes that are not in the enum: no row yet, row deleted from the table.
UNBORN == -1
GONE   == -2

Undecided == -1

NoRow      == [status |-> UNBORN, retry |-> 0]
DeletedRow == [status |-> GONE, retry |-> 0]

Stored(p) == participant[p].status \in Status
Known(p)  == participant[p].status # UNBORN
Live(p)   == participant[p].status \in LiveStatus
Decided(p) == decision[TransOf[p]] # Undecided

StoreInit ==
    /\ global = [t \in Trans |-> UNBORN]
    /\ participant = [p \in Parts |-> NoRow]
    /\ decision = [t \in Trans |-> Undecided]

-----------------------------------------------------------------------------
(* The effect of the three statements that change participant rows.  Each   *)
(* is an update or delete with a where clause: it never creates a row.      *)

AfterDelete(ids) ==
    [p \in Parts |-> IF p \in ids /\ Stored(p) THEN DeletedRow ELSE participant[p]]

\* Slip: an upsert, which creates the row that is not there.
AfterSetRetryUpsert(p, n) ==
    IF Stored(p) THEN [participant EXCEPT ![p].retry = n]
                 ELSE [participant EXCEPT ![p] = [status |-> PRE_TRY, retry |-> n]]

AfterSetRetry(p, n) ==
    IF Stored(p) THEN [participant EXCEPT ![p].retry = n] ELSE participant

\* Slip: the where clause without its status.
AfterResetStatusUnguarded(p) ==
    IF Stored(p) THEN [participant EXCEPT ![p].status = PRE_TRY] ELSE participant

\* Slip: the where clause with the wrong status code.
AfterResetStatusDeleted(p) ==
    IF participant[p].status = DELETE
      THEN [participant EXCEPT ![p].status = PRE_TRY]
      ELSE participant

\* ... set status = PRE_TRY where participant_id = p and status = DEATH
AfterResetStatus(p) ==
    IF participant[p].status = DEATH
      THEN [participant EXCEPT ![p].status = PRE_TRY]
      ELSE participant

-----------------------------------------------------------------------------
(* The external runtime.                                                    *)

RuntimeBegin(t) ==
    /\ global[t] = UNBORN
    /\ global' = [global EXCEPT ![t] = PRE_TRY]
    /\ UNCHANGED <<participant, decision>>

RuntimeJoin(p) ==
    /\ participant[p].status = UNBORN
    /\ global[TransOf[p]] = PRE_TRY
    /\ participant' = [participant EXCEPT ![p].status = PRE_TRY]
    /\ UNCHANGED <<global, decision>>

RuntimeTried(p) ==
    /\ participant[p].status = PRE_TRY
    /\ ~ Decided(p)
    /\ participant' = [participant EXCEPT ![p].status = TRYING]
    /\ UNCHANGED <<global, decision>>

\* The coordinator decides, and records the decision in the global row.
RuntimeDecide(t) ==
    /\ global[t] = PRE_TRY
    /\ \E phase \in {CONFIRMING, CANCELING} :
         /\ global' = [global EXCEPT ![t] = phase]
         /\ decision' = [decision EXCEPT ![t] = phase]
    /\ UNCHANGED participant

\* A participant enters the phase decided; also after it has been revived.
RuntimePhase(p) ==
    /\ participant[p].status \in {PRE_TRY, TRYING}
    /\ Decided(p)
    /\ participant' = [participant EXCEPT ![p].status = decision[TransOf[p]]]
    /\ UNCHANGED <<global, decision>>

\* The second phase is tried once more.
RuntimeRetry(p) ==
    /\ Live(p) /\ Decided(p)
    /\ participant[p].retry < RuntimeRetryMax
    /\ participant' = [participant EXCEPT ![p].retry = @ + 1]
    /\ UNCHANGED <<global, decision>>

RuntimeGiveUp(p) ==
    /\ Live(p) /\ Decided(p)
    /\ participant[p].retry >= RuntimeRetryMax
    /\ participant' = [participant EXCEPT ![p].status = DEATH]
    /\ UNCHANGED <<global, decision>>

\* The second phase succeeded: the row is deleted, or marked as deleted.
RuntimeFinish(p) ==
    /\ participant[p].status \in {CONFIRMING, CANCELING}
    /\ \/ participant' = [participant EXCEPT ![p] = DeletedRow]
       \/ participant' = [participant EXCEPT ![p].status = DELETE]
    /\ UNCHANGED <<global, decision>>

\* No participant has work left: the global row goes as well.
RuntimeEnd(t) ==
    /\ global[t] \in {CONFIRMING, CANCELING}
    /\ \A p \in Parts : TransOf[p] = t => participant[p].status \in {UNBORN, GONE, DELETE}
    /\ \E end \in {GONE, DELETE} : global' = [global EXCEPT ![t] = end]
    /\ UNCHANGED <<participant, decision>>

RuntimeStep ==
    \/ \E t \in Trans : RuntimeBegin(t) \/ RuntimeDecide(t) \/ RuntimeEnd(t)
    \/ \E p \in Parts : \/ RuntimeJoin(p) \/ RuntimeTried(p) \/ RuntimePhase(p)
                        \/ RuntimeRetry(p) \/ RuntimeGiveUp(p) \/ RuntimeFinish(p)

=============================================================================
