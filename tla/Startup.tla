------------------------------- MODULE Startup --------------------------------
(* Starting and stopping admins: start.sh runs the program, whose only bean   *)
(* with a life of its own is the repository.  ExtensionLoader finds the class *)
(* of the configured name among the resources and makes its instance; init    *)
(* connects it.  The ZooKeeper repository waits for its session's watcher and  *)
(* sees to the root node, which all admins share.                             *)
EXTENDS Naturals

CONSTANTS Admins,
          MaxFaults  \* bound: connections and answers of ZooKeeper that are lost

\* The resources name six classes; the names of two more repositories in the
\* source are not among them.
Registered == {"mysql", "oracle", "mongo", "file", "redis", "zookeeper"}
Names == Registered \cup {"postgresql", "sqlserver"}

VARIABLES phase,    \* what an admin does: see Phases
          name,     \* the configured repository
          latch,    \* LATCH of the process: TRUE while await would wait
          session,  \* its ZooKeeper session: "none", "connecting" or "connected"
          root,     \* the root node exists
          why,      \* history: why the last start of the admin failed
          faults

vars == <<phase, name, latch, session, root, why, faults>>

Phases == {"down", "loading", "init", "await", "exists", "create", "ready", "failed"}

TypeOK ==
    /\ phase \in [Admins -> Phases]
    /\ name \in [Admins -> Names]
    /\ latch \in [Admins -> BOOLEAN]
    /\ session \in [Admins -> {"none", "connecting", "connected"}]
    /\ root \in BOOLEAN
    /\ why \in [Admins -> {"-", "name", "config", "session", "exists"}]
    /\ faults \in 0..MaxFaults

Init ==
    /\ phase = [a \in Admins |-> "down"]
    /\ name \in [Admins -> Names]
    /\ latch = [a \in Admins |-> TRUE]
    /\ session = [a \in Admins |-> "none"]
    /\ root \in BOOLEAN
    /\ why = [a \in Admins |-> "-"]
    /\ faults = 0

Go(a, p) == phase' = [phase EXCEPT ![a] = p]
Fail(a, reason) ==
    /\ Go(a, "failed")
    /\ why' = [why EXCEPT ![a] = reason]
    /\ session' = [session EXCEPT ![a] = "none"]

-----------------------------------------------------------------------------
\* start.sh starts a program that does not run; stop.sh kills one that does,
\* and waits for its end.
Start(a) ==
    /\ phase[a] \in {"down", "failed"}
    /\ Go(a, "loading")
    /\ latch' = [latch EXCEPT ![a] = TRUE]
    /\ why' = [why EXCEPT ![a] = "-"]
    /\ UNCHANGED <<name, session, root, faults>>

Stop(a) ==
    /\ phase[a] \notin {"down", "failed"}
    /\ Go(a, "down")
    /\ session' = [session EXCEPT ![a] = "none"]
    /\ UNCHANGED <<name, latch, root, why, faults>>

\* getJoin: an unknown name is an error, and the program ends.
GetJoin(a) ==
    /\ phase[a] = "loading"
    /\ IF name[a] \in Registered THEN Go(a, "init") /\ UNCHANGED <<session, why>>
       ELSE Fail(a, "name")
    /\ UNCHANGED <<name, latch, root, faults>>

\* init of the repositories that wait for nothing: a connection pool or a
\* client is made and connects later, a wrong configuration is an error, and
\* file and redis do nothing.
InitRepository(a) ==
    /\ phase[a] = "init" /\ name[a] # "zookeeper"
    /\ \/ Go(a, "ready") /\ UNCHANGED <<session, why>>
       \/ name[a] \in {"mysql", "oracle", "mongo"} /\ Fail(a, "config")
    /\ UNCHANGED <<name, latch, root, faults>>

\* connect makes the session and waits for the latch; a wrong address is an error
\* at once.
Connect(a) ==
    /\ phase[a] = "init" /\ name[a] = "zookeeper"
    /\ \/ /\ Go(a, "await") /\ UNCHANGED why
          /\ session' = [session EXCEPT ![a] = "connecting"]
       \/ Fail(a, "config")
    /\ UNCHANGED <<name, latch, root, faults>>

\* The watcher, on ZooKeeper's thread: only SyncConnected opens the latch.
\* Slip: the watcher does not open the latch.
WatcherIdle(a) ==
    /\ session[a] = "connecting"
    /\ session' = [session EXCEPT ![a] = "connected"]
    /\ UNCHANGED <<phase, name, latch, root, why, faults>>
SyncConnected(a) ==
    /\ session[a] = "connecting"
    /\ session' = [session EXCEPT ![a] = "connected"]
    /\ latch' = [latch EXCEPT ![a] = FALSE]
    /\ UNCHANGED <<phase, name, root, why, faults>>

Disconnected(a) ==
    /\ session[a] = "connected" /\ faults < MaxFaults
    /\ session' = [session EXCEPT ![a] = "connecting"]
    /\ faults' = faults + 1
    /\ UNCHANGED <<phase, name, latch, root, why>>

Await(a) ==
    /\ phase[a] = "await" /\ ~latch[a]
    /\ Go(a, "exists")
    /\ UNCHANGED <<name, latch, session, root, why, faults>>

\* exists and create: both throw without a session or when the answer is lost,
\* and create throws when another admin has made the node since.  What connect
\* catches it throws again, and the program ends.
Unanswered(a) ==
    /\ Fail(a, "session")
    /\ IF session[a] # "connected" THEN UNCHANGED faults
       ELSE faults < MaxFaults /\ faults' = faults + 1
\* Slip: what cannot be asked is taken to be there.
ExistsTrusted(a) ==
    /\ phase[a] = "exists"
    /\ Go(a, IF root \/ session[a] # "connected" THEN "ready" ELSE "create")
    /\ UNCHANGED <<name, latch, session, root, why, faults>>
Exists(a) ==
    /\ phase[a] = "exists"
    /\ \/ /\ session[a] = "connected"
          /\ Go(a, IF root THEN "ready" ELSE "create") /\ UNCHANGED <<session, why, faults>>
       \/ Unanswered(a)
    /\ UNCHANGED <<name, latch, root>>

\* A create whose answer is lost may have made the node.
Create(a) ==
    /\ phase[a] = "create"
    /\ \/ /\ session[a] = "connected" /\ ~root
          /\ Go(a, "ready") /\ root' = TRUE /\ UNCHANGED <<session, why, faults>>
       \/ /\ session[a] = "connected" /\ root
          /\ Fail(a, "exists") /\ UNCHANGED <<root, faults>>
       \/ Unanswered(a) /\ root' \in {root, root \/ session[a] = "connected"}
    /\ UNCHANGED <<name, latch>>

Boot(a) == \/ GetJoin(a) \/ InitRepository(a) \/ Connect(a) \/ Await(a)
           \/ Exists(a) \/ Create(a)

Next == \E a \in Admins :
            Start(a) \/ Stop(a) \/ Boot(a) \/ SyncConnected(a) \/ Disconnected(a)

\* The main thread runs, and ZooKeeper is reached in the end: without the
\* second, connect waits for ever.
Fairness == \A a \in Admins : WF_vars(Boot(a)) /\ WF_vars(SyncConnected(a))
Spec == Init /\ [][Next]_vars
FairSpec == Spec /\ Fairness

-----------------------------------------------------------------------------
(* An admin on ZooKeeper serves only under a root node that exists, and two   *)
(* admins that start at once cost one of them its start at most for that      *)
(* node: a start refused because the node exists succeeds when it is made     *)
(* again.                                                                     *)
ReadyUnderRoot ==
    \A a \in Admins :
        name[a] = "zookeeper" /\ (phase[a] = "ready" \/ why[a] = "exists") => root

(* Once ZooKeeper can be reached, no start hangs: it ends with a repository   *)
(* that serves or with an error, unless it is stopped.                        *)
EveryStartEnds ==
    \A a \in Admins : phase[a] = "loading" ~> phase[a] \in {"ready", "failed", "down"}
=============================================================================
