------------------------------ MODULE MCProgress ------------------------------
(* What was begun ends: small instances of the parts whose liveness is         *)
(* checked, the two repositories, signing in, the start of the program, the    *)
(* change tracking, promises and transitions of the console and its HTTP       *)
(* client.  A behaviour is about one of them, which part names; the others     *)
(* keep their initial state.                                                   *)
EXTENDS Naturals, Sequences

CONSTANTS Trans, Parts, TransOf, RuntimeRetryMax, Workers, RetryMax, RetryInputs,
          MaxFaults, t1, p1,   \* DbRepository and MongoRepository
          Browsers, MaxCalls,  \* Session
          Admins, MaxLosses,   \* Startup
          MaxInterceptors,     \* HttpClient
          Keys, None, MaxSwitches \* Transition

MCTransOf == [p \in Parts |-> t1]

VARIABLES part,
          global, participant, decision, call, interrupted, faults,
          loginSuccess, page, calls, quiet,
          phase, name, latch, session, root, why, lost,
          vm, flushing, waiting, index,
          made, own, state, value, spent, chain, notified, handled, wrappers, micro,
          running, alarms, fate, attached, reacted,
          transport, reqHandlers, resHandlers, stage, fired, response, settled,
          callback, ran,
          mode, want, switches, shown, run

repositories == <<global, participant, decision, call, interrupted, faults>>
logins == <<loginSuccess, page, calls, quiet>>
programs == <<phase, name, latch, session, root, why, lost>>
trackers == <<vm, flushing, waiting, index>>
promises == <<made, own, state, value, spent, chain, notified, handled, wrappers,
              micro, running, alarms, fate, attached, reacted>>
clients == <<transport, reqHandlers, resHandlers, stage, fired, response, settled,
             callback, ran>>
moves == <<mode, want, switches, shown, run>>
vars == <<part, repositories, logins, programs, trackers, promises, clients, moves>>

Db == INSTANCE DbRepository
Mongo == INSTANCE MongoRepository
Signing == INSTANCE Session
Booting == INSTANCE Startup WITH MaxFaults <- MaxLosses, faults <- lost

\* A page that shows, through a computed property, its input (cell 11) and what a
\* user watcher derives from it (cell 12).
Cells == {11, 12}
Data == [Cells -> {0, 1}]
Tracking == INSTANCE Reactivity WITH
    Values <- {0, 1}, Watchers <- {1, 2, 3}, Lazy <- {1},
    Reads <- [w \in 1..3 |-> [d \in Data |-> IF w = 1 THEN {11} ELSE {1, 12}]],
    Effect <- [w \in 1..3 |-> [d \in Data |->
                  IF w = 2 THEN [d EXCEPT ![12] = d[11]] ELSE d]],
    Children <- [w \in 1..3 |-> {}],
    Drawn <- [w \in 1..3 |-> [d \in Data |-> {}]]
Awaiting == INSTANCE Promises WITH
    Names <- <<"p1", "p2">>, Handlers <- {"none", "self", "p1"}
Http == INSTANCE HttpClient WITH phase <- stage
Moving == INSTANCE Transition

Init ==
    /\ part \in {"db", "mongo", "signing", "boot", "tracking", "awaiting", "http", "moving"}
    /\ Db!Init /\ Mongo!Init /\ Signing!Init /\ Awaiting!Init
    /\ Booting!Init /\ (part # "boot" => root /\ \A a \in Admins : name[a] = "mysql")
    /\ Tracking!Init /\ (part # "tracking" => vm.data = [c \in Cells |-> 0])
    /\ Http!Init /\ (part # "http" => transport = "xhr" /\ Len(reqHandlers) = 1)
    /\ Moving!Init /\ (part # "moving" => mode = "show" /\ want = None)
Next ==
    \/ /\ part = "db" /\ Db!Next
       /\ UNCHANGED <<part, logins, programs, trackers, promises, clients, moves>>
    \/ /\ part = "mongo" /\ Mongo!Next
       /\ UNCHANGED <<part, logins, programs, trackers, promises, clients, moves>>
    \/ /\ part = "signing" /\ Signing!Next
       /\ UNCHANGED <<part, repositories, programs, trackers, promises, clients, moves>>
    \/ /\ part = "boot" /\ Booting!Next
       /\ UNCHANGED <<part, repositories, logins, trackers, promises, clients, moves>>
    \/ /\ part = "tracking" /\ Tracking!Next
       /\ UNCHANGED <<part, repositories, logins, programs, promises, clients, moves>>
    \/ /\ part = "awaiting" /\ Awaiting!Next
       /\ UNCHANGED <<part, repositories, logins, programs, trackers, clients, moves>>
    \/ /\ part = "http" /\ Http!Next
       /\ UNCHANGED <<part, repositories, logins, programs, trackers, promises, moves>>
    \/ /\ part = "moving" /\ Moving!Next
       /\ UNCHANGED <<part, repositories, logins, programs, trackers, promises, clients>>

\* The fairness of each part's FairSpec, while a behaviour is about the part.
Fairness ==
    /\ \A w \in Workers :
          /\ WF_repositories(part = "db" /\ Db!WorkerStep(w))
          /\ WF_repositories(part = "mongo" /\ Mongo!WorkerStep(w))
    /\ \A i \in 1..MaxCalls :
          WF_logins(part = "signing" /\ i \in DOMAIN calls /\ Signing!Step(i))
    /\ \A a \in Admins :
          /\ WF_programs(part = "boot" /\ Booting!Boot(a))
          /\ WF_programs(part = "boot" /\ Booting!SyncConnected(a))
    /\ WF_trackers(part = "tracking" /\ Tracking!FlushBegin)
    /\ WF_trackers(part = "tracking" /\ Tracking!FlushRun)
    /\ WF_trackers(part = "tracking" /\ Tracking!FlushEnd)
    /\ WF_promises(part = "awaiting" /\ Awaiting!Microtask)
    /\ WF_clients(part = "http" /\ Http!Request)
    /\ WF_clients(part = "http" /\ (Http!HandleResponse \/ Http!Conclude))
    /\ WF_clients(part = "http" /\ Http!Deliver)
    /\ WF_moves(part = "moving" /\ Moving!Render)
    /\ WF_moves(part = "moving" /\ Moving!Frame)
    /\ \A n \in 1..Moving!MaxCallbacks : WF_moves(part = "moving" /\ Moving!End(n))
    /\ WF_clients(part = "http" /\ stage = "sent" /\ \E e \in Http!Events : Http!TransportEvent(e))
Spec == Init /\ [][Next]_vars /\ Fairness

-----------------------------------------------------------------------------
(* AdminServer: an edit brings a dead participant back, on both repositories.  *)
EditRevives == part \in {"db", "mongo"} => Db!EditRevives

(* AdminServer, Session, HttpClient: every request to a repository is answered, *)
(* a right name and password bring the browser to the console, and every       *)
(* request a page makes ends in one of its callbacks.                          *)
EveryRequestAnswered ==
    /\ part \in {"db", "mongo"} => Db!EveryRequestAnswered
    /\ part = "signing" => Signing!LoginOpensConsole
    /\ part = "http" => Http!EveryRequestEnds

(* Startup: no start hangs once ZooKeeper can be reached.                      *)
EveryStartEnds == part = "boot" => Booting!EveryStartEnds

(* Reactivity, Promises, Transition: a flush that was asked for ends, every     *)
(* reaction attached to a settled promise runs, every transition ends.          *)
EveryCallbackRuns ==
    /\ part = "tracking" => Tracking!FlushesEnd
    /\ part = "awaiting" => Awaiting!EveryReactionRuns
    /\ part = "moving" => Moving!EveryTransitionEnds
=============================================================================
