------------------------------- MODULE MCParts -------------------------------
(* The safety of the parts that stand by themselves: signing in, the start of  *)
(* the program, and what the console's pages are built on.  A behaviour is      *)
(* about one of them, which part names; the others keep their initial state.    *)
EXTENDS Library

CONSTANTS Browsers, MaxCalls,     \* Session
          PromiseNames, Handlers, \* Promises
          Admins, MaxLosses,      \* Startup
          MaxInterceptors,        \* HttpClient
          MaxFirst,               \* Patch: children of the first rendering
          Pages, MaxManages       \* KeptPages

ASSUME BoundsAssumption == {MaxLosses, MaxInterceptors, MaxFirst, MaxManages} \subseteq Nat
ASSUME PagesAssumption == None \notin Pages /\ "login" \notin Pages \cup {None}

VARIABLES part,
          loginSuccess, page, calls, quiet,
          phase, name, latch, session, root, why, lost,
          vm, flushing, waiting, index,
          made, own, state, value, spent, chain, notified, handled, wrappers,
          micro, running, alarms, fate, attached, reacted,
          transport, reqHandlers, resHandlers, stage, fired, response,
          settled, callback, ran,
          route, dirty, updating, manages, manage, keys, slot, orphans, life,
          queued,
          path, matched, came

logins == <<loginSuccess, page, calls, quiet>>
programs == <<phase, name, latch, session, root, why, lost>>
trackers == <<vm, flushing, waiting, index>>
promises == <<made, own, state, value, spent, chain, notified, handled,
                wrappers, micro, running, alarms, fate, attached, reacted>>
clients == <<transport, reqHandlers, resHandlers, stage, fired, response,
               settled, callback, ran>>
kept == <<route, dirty, updating, manages, manage, keys, slot, orphans, life,
            queued>>
address == <<path, matched, came>>
vars == <<part, logins, programs, trackers, promises, clients, lists, kept,
          address, moves>>

Signing == INSTANCE Session
Booting == INSTANCE Startup WITH MaxFaults <- MaxLosses, faults <- lost

\* Cells 11, 12 and 13 are data of a page.  1 is a computed property of it, 2 a
\* user watcher on that which copies 11 to 12, 3 the page's render watcher; it
\* draws a child while 13 is 0, with a computed property 4, a user watcher 5 that
\* reports 12 to the page's 13, and a render watcher 6.
Cells == {11, 12, 13}
Data == [Cells -> {0, 1}]
Tracking == INSTANCE Reactivity WITH
    Values <- {0, 1}, Watchers <- 1..6, Lazy <- {1, 4},
    Reads <- [w \in 1..6 |-> [d \in Data |->
        CASE w = 1 -> IF d[11] = 1 THEN {11, 12} ELSE {11}
          [] w = 2 -> {1}
          [] w = 3 -> {13, 1}
          [] w \in {4, 5} -> {12}
          [] w = 6 -> IF d[12] = 1 THEN {4, 1} ELSE {4}]],
    Effect <- [w \in 1..6 |-> [d \in Data |->
        CASE w = 2 -> [d EXCEPT ![12] = d[11]]
          [] w = 5 -> [d EXCEPT ![13] = d[12]]
          [] OTHER -> d]],
    Children <- [w \in 1..6 |-> IF w = 3 THEN {4, 5, 6} ELSE {}],
    Drawn <- [w \in 1..6 |-> [d \in Data |->
        IF w = 3 /\ d[13] = 0 THEN {4, 5, 6} ELSE {}]]

Awaiting == INSTANCE Promises WITH Names <- PromiseNames
\* Names are distinct, and are no handlers and no values.
ASSUME NamesAssumption ==
    /\ PromiseNames \in Seq(Awaiting!P) /\ Handlers \subseteq Awaiting!Handler
    /\ \A i, j \in DOMAIN PromiseNames : PromiseNames[i] = PromiseNames[j] => i = j
    /\ Awaiting!P \cap {"none", "value", "throw", "self", "adopt", "first", "both",
                        "rejected", "thrown", "TypeError", "second"} = {}
ThreeNames == <<"p1", "p2", "p3">>
Http == INSTANCE HttpClient WITH phase <- stage
Keeping == INSTANCE KeptPages WITH flushing <- updating

\* The console's routes, the links of its menu, header and login page, and
\* addresses a user may type.
Slash == <<"", "">>
Leaf(p, c) == [path |-> p, component |-> c, children |-> <<>>]
Routing == INSTANCE RouteTable WITH
    Routes <- <<Leaf(Slash, "login"),
        [path |-> <<"", "manage">>, component |-> "manage", children |->
            <<Leaf(<<"">>, "home"),
              Leaf(<<"", "transactionRecoveryInfo">>, "transactionRecoveryInfo"),
              Leaf(<<"", "adminSet">>, "adminSet"), Leaf(<<"", "explain">>, "explain")>>]>>,
    MaxDepth <- 1,
    Links <-
        {[on |-> "manage", to |-> <<p>>, shows |-> <<"manage", p>>] :
            p \in {"transactionRecoveryInfo", "adminSet", "explain"}}
        \cup {[on |-> o, to |-> <<"manage">>, shows |-> <<"manage", "home">>] : o \in {"login", "manage"}}
        \cup {[on |-> "manage", to |-> <<"", "manage">>, shows |-> <<"manage", "home">>],
              [on |-> "manage", to |-> Slash, shows |-> <<"login">>]},
    Typed <- {<<"", p>> : p \in {"", "manage", "adminSet", "nowhere"}}
             \cup {<<"", p, "">> : p \in {"manage", "explain"}} \cup {<<"explain">>}

Init ==
    /\ part \in {"signing", "boot", "tracking", "awaiting", "http", "patching", "keeping", "routing",
                "moving"}
    /\ Signing!Init /\ Awaiting!Init /\ Keeping!Init /\ Routing!Init
    /\ Booting!Init /\ (part # "boot" => root /\ \A a \in Admins : name[a] = "mysql")
    /\ Tracking!Init /\ (part # "tracking" => vm.data = [c \in Cells |-> 0])
    /\ Http!Init /\ (part # "http" => transport = "xhr" /\ Len(reqHandlers) = 1)
    /\ Patching!Init /\ (part # "patching" => newCh = <<>>) /\ Len(newCh) <= MaxFirst
    /\ Moving!Init /\ (part # "moving" => mode = "show" /\ want = None)
Next ==
    \/ /\ part = "signing" /\ Signing!Next
       /\ UNCHANGED <<part, programs, trackers, promises, clients, lists, kept,
                      address, moves>>
    \/ /\ part = "boot" /\ Booting!Next
       /\ UNCHANGED <<part, logins, trackers, promises, clients, lists, kept,
                      address, moves>>
    \/ /\ part = "tracking" /\ Tracking!Next
       /\ UNCHANGED <<part, logins, programs, promises, clients, lists, kept,
                      address, moves>>
    \/ /\ part = "awaiting" /\ Awaiting!Next
       /\ UNCHANGED <<part, logins, programs, trackers, clients, lists, kept,
                      address, moves>>
    \/ /\ part = "http" /\ Http!Next
       /\ UNCHANGED <<part, logins, programs, trackers, promises, lists, kept,
                      address, moves>>
    \/ /\ part = "patching" /\ Patching!Next
       /\ UNCHANGED <<part, logins, programs, trackers, promises, clients, kept,
                      address, moves>>
    \/ /\ part = "keeping" /\ Keeping!Next
       /\ UNCHANGED <<part, logins, programs, trackers, promises, clients, lists,
                      address, moves>>
    \/ /\ part = "routing" /\ Routing!Next
       /\ UNCHANGED <<part, logins, programs, trackers, promises, clients, lists,
                      kept, moves>>
    \/ /\ part = "moving" /\ Moving!Next
       /\ UNCHANGED <<part, logins, programs, trackers, promises, clients, lists,
                      kept, address>>
Spec == Init /\ [][Next]_vars

-----------------------------------------------------------------------------
\* Type correctness of every part.
TypeOK ==
    CASE part = "signing" -> Signing!TypeOK [] part = "boot" -> Booting!TypeOK
      [] part = "tracking" -> Tracking!TypeOK [] part = "awaiting" -> Awaiting!TypeOK
      [] part = "http" -> Http!TypeOK [] part = "patching" -> Patching!TypeOK
      [] part = "keeping" -> Keeping!TypeOK [] part = "routing" -> Routing!TypeOK
      [] part = "moving" -> Moving!TypeOK

(* Session: after an acknowledged sign-out only a login that was under way when *)
(* it was clicked, or a new one, gets a list served again.                      *)
OnlyALateLoginReopens == part = "signing" => Signing!OnlyALateLoginReopens

(* Startup: on ZooKeeper an admin serves only under a root node that exists.    *)
ReadyUnderRoot == part = "boot" => Booting!ReadyUnderRoot

(* Reactivity: no computed property and no watcher keeps a value its data no    *)
(* longer give, none that was torn down is still told of changes, and a flush   *)
(* runs what is left of it parents first, each watcher once.                    *)
NoStaleValue ==
    part = "tracking" =>
        Tracking!NoStaleValue /\ Tracking!DeadAreNotTold /\ Tracking!ParentsFirst

(* Promises: a promise resolved with another becomes what that one became.      *)
FollowersAgree == part = "awaiting" => Awaiting!FollowersAgree

(* HttpClient: a page's success callback has a response every handler saw.      *)
SuccessIsHandled == part = "http" => Http!SuccessIsHandled

(* Promises, HttpClient: what a promise became, and what a page was told of its *)
(* request, never changes; reactions run once each, in order.                   *)
SettledOnce == Awaiting!SettledOnce /\ Http!ToldOnce

(* Patch, Transition: the parent shows the children of the last list, in their  *)
(* order; when nothing moves any more a page holds just the child it wants, and *)
(* on the way never two elements of one child.                                  *)
ShownAsRendered ==
    /\ part = "patching" => Patching!ShownAsRendered
    /\ part = "moving" => Moving!RestShowsWanted /\ Moving!OneOfAKey

(* Patch: a child with a key keeps its element, and never gets another's.       *)
KeysKeepElements == part = "patching" => Patching!KeysKeepElements

(* KeptPages: between two turns exactly the page of the route is active.        *)
OnlyShownIsActive == part = "keeping" => Keeping!OnlyShownIsActive

(* KeptPages, Transition: a page hears its hooks in the order they promise, and *)
(* no callback of a transition takes the shown element away.                    *)
HooksInOrder == Keeping!HooksInOrder /\ Moving!ShownIsNotTaken

(* RouteTable: every link shows the page it names.                              *)
LinksArrive == part = "routing" => Routing!LinksArrive
=============================================================================

