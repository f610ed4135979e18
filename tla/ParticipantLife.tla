---------------------------- MODULE ParticipantLife ----------------------------
(***************************************************************************)
(* What the console and the runtime promise together about one participant *)
(* row, as README.md:34-54 tells it to users: work moves forward through    *)
(* the phases and is never knocked back by the console; only a dead         *)
(* participant is revived, to PRE_TRY; an edited retry count stays within   *)
(* the limits; a removed row is gone for good, and the rows of one removal  *)
(* go at once.                                                             *)
(***************************************************************************)
EXTENDS HmilyActionEnum

CONSTANTS
    Parts,             \* participant ids
    RuntimeRetryMax,   \* the runtime's retry limit
    Retries            \* retry counts a row may show

VARIABLE life          \* status and retry of each row

UNBORN == -1
GONE   == -2

NoRow      == [status |-> UNBORN, retry |-> 0]
DeletedRow == [status |-> GONE, retry |-> 0]
Dead       == [status |-> DEATH, retry |-> 0]

Init == life = [p \in Parts |-> NoRow]

Join(p) ==
    /\ life[p].status = UNBORN
    /\ life' = [life EXCEPT ![p].status = PRE_TRY]

\* The phases a phase may be followed by.
Later(phase) ==
    CASE phase = PRE_TRY -> {TRYING, CONFIRMING, CANCELING}
      [] phase = TRYING  -> {CONFIRMING, CANCELING}
      [] phase \in {CONFIRMING, CANCELING} -> {DELETE}
      [] OTHER -> {}

Advance(p) ==
    \E phase \in Later(life[p].status) : life' = [life EXCEPT ![p].status = phase]

Finish(p) ==
    /\ life[p].status \in {CONFIRMING, CANCELING}
    /\ life' = [life EXCEPT ![p] = DeletedRow]

Retry(p) ==
    /\ life[p].status \in LiveStatus
    /\ life[p].retry < RuntimeRetryMax
    /\ life' = [life EXCEPT ![p].retry = @ + 1]

\* Only when its retries are used up.
GiveUp(p) ==
    /\ life[p].status \in LiveStatus
    /\ life[p].retry >= RuntimeRetryMax
    /\ life' = [life EXCEPT ![p] = Dead]

Edit(p) ==
    /\ life[p].status \in LiveStatus \cup {DELETE}
    /\ \E n \in Retries : life' = [life EXCEPT ![p].retry = n]

Revive(p) ==
    /\ life[p].status = DEATH
    /\ \E n \in Retries : life' = [life EXCEPT ![p] = [status |-> PRE_TRY, retry |-> n]]

Remove(ids) ==
    /\ \A p \in ids : life[p].status \in Status
    /\ life' = [p \in Parts |-> IF p \in ids THEN DeletedRow ELSE life[p]]

Next ==
    \/ \E p \in Parts : \/ Join(p) \/ Advance(p) \/ Finish(p) \/ Retry(p)
                        \/ GiveUp(p) \/ Edit(p) \/ Revive(p)
    \/ \E ids \in SUBSET Parts : Remove(ids)

Spec == Init /\ [][Next]_life

=============================================================================
