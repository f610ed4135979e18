----------------------------- MODULE AdminServer -----------------------------
(***************************************************************************)
(* The console's server process as seen by its repositories: servlet       *)
(* threads that validate a request in HmilyRepositoryController, run a      *)
(* repository method statement by statement, and answer.  The threads      *)
(* share nothing but the store; a handler that is killed or whose          *)
(* statement throws stops where it is, since nothing rolls back.           *)
(*                                                                         *)
(* What a repository method does is in DbRepository and MongoRepository;    *)
(* this module has the parts that do not depend on the repository, and     *)
(* the properties both are held to.                                        *)
(***************************************************************************)
EXTENDS HmilyStore

CONSTANTS
    Workers,        \* servlet threads
    RetryMax,       \* HmilyAdminProperties.retryMax
    RetryInputs,    \* the retry counts users type in; not only sensible ones
    MaxFaults       \* bound: crashes and failing statements in a behaviour

ASSUME RetryMaxAssumption == RetryMax \in Int
ASSUME RetryInputsAssumption == RetryInputs \subseteq Int
ASSUME MaxFaultsAssumption == MaxFaults \in Nat

VARIABLES
    call,          \* the request each thread is working on
    interrupted,   \* participants whose last ended update stopped half way
    faults         \* crashes and failed statements so far

serverVars == <<call, interrupted, faults>>
vars == <<global, participant, decision, call, interrupted, faults>>

Statements == {"delete", "setRetry", "resetStatus", "findParticipant", "findTransaction"}

\* "error" is the controller's code 500 answer, "failed" an exception that
\* leaves the controller; the rest are successes with their data.
Answers == {"error", "failed", "removed", "updated", "notUpdated",
            "confirm", "cancel", "notRequired", "noData"}

NoCall == [pc |-> "idle", ids |-> {}, retry |-> 0, answer |-> "none"]

(* Retry counts that can be in a row: what the controller lets through and  *)
(* what the runtime's increments make of it.  None exceeds both limits      *)
(* (README.md:36).                                                          *)

Accepted == {n \in RetryInputs : n <= RetryMax} \cup {0}

RetryRange == UNION {{n} \cup (n .. RuntimeRetryMax) : n \in Accepted}

Calls == [pc : {"idle", "answered"} \cup Statements,
          ids : SUBSET Parts,
          retry : Accepted,
          answer : Answers \cup {"none"}]

ServerInit ==
    /\ call = [w \in Workers |-> NoCall]
    /\ interrupted = {}
    /\ faults = 0

At(w, statement) == call[w].pc = statement
Begin(w, c) == call' = [call EXCEPT ![w] = c]
Goto(w, statement) == call' = [call EXCEPT ![w].pc = statement]
Answer(w, a) == call' = [call EXCEPT ![w].pc = "answered", ![w].answer = a]

-----------------------------------------------------------------------------
(* Requests, up to the call of the repository.  Users name participants     *)
(* they have seen in a list, which may have gone in the meantime.           *)

Refused == [NoCall EXCEPT !.pc = "answered", !.answer = "error"]
Accepting(statement, ids, n) ==
    [pc |-> statement, ids |-> ids, retry |-> n, answer |-> "none"]

KnownIds == {p \in Parts : Known(p)}

RequestRemove(w, ids) ==
    /\ At(w, "idle")
    /\ \/ ids = {} /\ Begin(w, Refused)
       \/ ids # {} /\ Begin(w, Accepting("delete", ids, 0))
    /\ UNCHANGED <<storeVars, interrupted, faults>>

\* Slip: the controller without its check against retryMax.
RequestUpdateUnchecked(w, p, n) ==
    /\ At(w, "idle")
    /\ Begin(w, Accepting("setRetry", {p}, n))
    /\ UNCHANGED <<storeVars, interrupted, faults>>

RequestUpdate(w, p, n) ==
    /\ At(w, "idle")
    /\ \/ RetryMax < n /\ Begin(w, Refused)
       \/ ~ (RetryMax < n) /\ Begin(w, Accepting("setRetry", {p}, n))
    /\ UNCHANGED <<storeVars, interrupted, faults>>

RequestCompensation(w, p) ==
    /\ At(w, "idle")
    /\ Begin(w, Accepting("findParticipant", {p}, 0))
    /\ UNCHANGED <<storeVars, interrupted, faults>>

\* A request without an id or a retry count is refused; one without the list
\* of ids to remove leaves the controller as a NullPointerException.
RequestIncomplete(w) ==
    /\ At(w, "idle")
    /\ \E a \in {"error", "failed"} : Answer(w, a)
    /\ UNCHANGED <<storeVars, interrupted, faults>>

Request(w) ==
    \/ \E ids \in SUBSET KnownIds : RequestRemove(w, ids)
    \/ \E p \in KnownIds, n \in RetryInputs : RequestUpdate(w, p, n)
    \/ \E p \in KnownIds : RequestCompensation(w, p)
    \/ RequestIncomplete(w)

\* The answer leaves the server and the thread is free again.
Respond(w) ==
    /\ At(w, "answered")
    /\ call' = [call EXCEPT ![w] = NoCall]
    /\ UNCHANGED <<storeVars, interrupted, faults>>

\* The process is killed and started again: every call is lost, the rows stay
\* as the statements that were executed have left them.
Crash ==
    /\ faults < MaxFaults
    /\ faults' = faults + 1
    /\ call' = [w \in Workers |-> NoCall]
    /\ interrupted' = interrupted \cup UNION {call[w].ids : w \in {v \in Workers : At(v, "resetStatus")}}
    /\ UNCHANGED storeVars

-----------------------------------------------------------------------------
(* Type correctness of the store and of the calls.  It includes that no row  *)
(* gets a retry count the controller should have refused (README.md:36).     *)
TypeOK ==
    /\ global \in [Trans -> Status \cup {UNBORN, GONE}]
    /\ participant \in [Parts -> [status : Status \cup {UNBORN, GONE}, retry : RetryRange]]
    /\ decision \in [Trans -> {Undecided, CONFIRMING, CANCELING}]
    /\ call \in [Workers -> Calls]
    /\ interrupted \subseteq Parts
    /\ faults \in 0 .. MaxFaults

\* A dead participant that has retries left: nobody but the console revives it.
Stranded(p) ==
    /\ participant[p].status = DEATH
    /\ participant[p].retry < RuntimeRetryMax

Reviving(p) == \E w \in Workers : At(w, "resetStatus") /\ p \in call[w].ids

(* README.md:36-37: after an edit the participant is retried (maximum -      *)
(* edited count) more times.  A row that has such retries left is dead only   *)
(* while an update is between its two statements, or since one was stopped    *)
(* there and no later update of that participant has ended normally.         *)
NoneStranded ==
    \A p \in Parts : Stranded(p) => Reviving(p) \/ p \in interrupted

(* README.md:22-24, 43-45: all branches commit or all roll back, and the     *)
(* compensation information says what to do by hand.  It names the phase the *)
(* coordinator decided, whatever happened between the two reads it is made   *)
(* from.                                                                    *)
CompensationMatchesDecision ==
    \A w \in Workers : \A p \in call[w].ids :
        /\ call[w].answer = "confirm" => decision[TransOf[p]] = CONFIRMING
        /\ call[w].answer = "cancel"  => decision[TransOf[p]] = CANCELING

(* README.md:49-53: once a removal is answered with success, the rows are   *)
(* gone, and no update under way at the same time brings one back.           *)
RemoveIsFinal ==
    \A w \in Workers :
        call[w].answer = "removed" => \A p \in call[w].ids : ~ Stored(p)

\* The row as a user may rely on it: the retry count of a dead row means
\* nothing until the row is revived.
Life == [p \in Parts |->
           IF participant[p].status = DEATH THEN [status |-> DEATH, retry |-> 0]
                                            ELSE participant[p]]

-----------------------------------------------------------------------------
(* What users rely on about a participant's row, and that the statements of  *)
(* all threads and of the runtime amount to it.                              *)
P == INSTANCE ParticipantLife WITH Retries <- RetryRange, life <- Life

(* README.md:24, 36-37, 49: rows change only in the ways ParticipantLife      *)
(* allows, however updates and removals interleave.                          *)
ImplementsParticipantLife == P!Spec

(* An edit under way for a dead participant brings it back to work in the    *)
(* end, unless it is stopped half way (README.md:35-37).                     *)
EditRevives ==
    \A p \in Parts :
        Stranded(p) /\ Reviving(p) ~> ~ Stranded(p) \/ p \in interrupted

(* Every request is answered, with its data, an error or a failure, whatever *)
(* other administrators and the runtime do to the rows it is about.          *)
EveryRequestAnswered ==
    \A w \in Workers : call[w].pc \in Statements ~> call[w].pc \notin Statements

=============================================================================
