------------------------------- MODULE KeptPages ------------------------------
(* The instances of the pages: App shows the login page or the manage page,   *)
(* and the manage page shows the page of the route inside keep-alive.  Vue    *)
(* brings them up to date once per turn, from the outside in, and calls the   *)
(* hooks of the pages on the way; a page that is left is kept with its state, *)
(* until the manage page itself goes.                                         *)
EXTENDS Naturals, Sequences, SequencesExt

CONSTANTS Pages,      \* pages of the manage page; one without a page is None
          None,
          MaxManages  \* bound: instances of the manage page

Routes == Pages \cup {None, "login"}
Instances == (1..MaxManages) \X Pages

VARIABLES route,    \* the current route
          dirty,    \* the watchers queued: of App, the manage page, keep-alive
          flushing, \* a flush is under way
          manages,  \* instances of the manage page made so far
          manage,   \* the one shown, or 0
          keys,     \* keep-alive's keys, oldest first; the cache holds the same
          slot,     \* what keep-alive shows
          orphans,  \* the instances whose manage page was destroyed just now
          life,     \* the last hook of each page instance
          queued    \* activatedChildren

vars == <<route, dirty, flushing, manages, manage, keys, slot, orphans, life, queued>>

Lives == {"none", "mounted", "activated", "deactivated", "destroyed"}

TypeOK ==
    /\ route \in Routes
    /\ dirty \subseteq {"app", "manage", "keep"}
    /\ flushing \in BOOLEAN
    /\ manages \in 0..MaxManages /\ manage \in {0, manages}
    /\ IsInjective(keys) /\ \A i \in DOMAIN keys : keys[i] \in Pages
    /\ slot \in Pages \cup {None}
    /\ orphans \subseteq Instances
    /\ life \in [Instances -> Lives]
    /\ \A i \in DOMAIN queued : queued[i] \in Instances

Init ==
    /\ route = "login" /\ dirty = {} /\ flushing = FALSE
    /\ manages = 0 /\ manage = 0 /\ keys = <<>> /\ slot = None
    /\ orphans = {} /\ queued = <<>>
    /\ life = [i \in Instances |-> "none"]

-----------------------------------------------------------------------------
\* The router confirms a route: App and the manage page have read $route.
Go(r) ==
    /\ ~flushing /\ r # route
    /\ r # "login" /\ manage = 0 => manages < MaxManages
    /\ route' = r
    /\ dirty' = {"app"} \cup (IF manage # 0 THEN {"manage"} ELSE {})
    /\ UNCHANGED <<flushing, manages, manage, keys, slot, orphans, life, queued>>

FlushBegin ==
    /\ ~flushing /\ dirty # {}
    /\ flushing' = TRUE
    /\ UNCHANGED <<route, dirty, manages, manage, keys, slot, orphans, life, queued>>

\* App's watcher is the oldest: the same page is patched in place.
AppStays ==
    /\ flushing /\ "app" \in dirty /\ ((route = "login") <=> (manage = 0))
    /\ dirty' = dirty \ {"app"}
    /\ UNCHANGED <<route, flushing, manages, manage, keys, slot, orphans, life, queued>>

\* A manage page is made and mounted with the page of the route in it: it is
\* not mounted itself yet when its page is, so that page is activated at once.
CreateManage ==
    /\ flushing /\ "app" \in dirty /\ route # "login" /\ manage = 0
    /\ manages' = manages + 1 /\ manage' = manages + 1
    /\ dirty' = {}
    /\ slot' = IF route = None THEN None ELSE route
    /\ keys' = IF route = None THEN <<>> ELSE <<route>>
    /\ life' = IF route = None THEN life ELSE [life EXCEPT ![<<manages + 1, route>>] = "activated"]
    /\ UNCHANGED <<route, flushing, orphans, queued>>

\* The manage page is destroyed, and its watchers with it: its tree goes first,
\* where the page shown is only deactivated, then keep-alive's destroyed hook
\* prunes the cache.  Slip: the page shown is not deactivated.
DestroyManageSilently ==
    /\ flushing /\ "app" \in dirty /\ route = "login" /\ manage # 0
    /\ dirty' = {} /\ manage' = 0 /\ slot' = None
    /\ orphans' = {<<manage, keys[i]>> : i \in DOMAIN keys}
    /\ UNCHANGED <<route, flushing, manages, keys, life, queued>>
DestroyManage ==
    /\ flushing /\ "app" \in dirty /\ route = "login" /\ manage # 0
    /\ dirty' = {} /\ manage' = 0 /\ slot' = None
    /\ orphans' = {<<manage, keys[i]>> : i \in DOMAIN keys}
    /\ life' = [i \in Instances |->
                   IF i = <<manage, slot>> /\ life[i] # "deactivated" THEN "deactivated" ELSE life[i]]
    /\ UNCHANGED <<route, flushing, manages, keys, queued>>
PruneAll ==
    /\ orphans # {}
    /\ life' = [i \in Instances |-> IF i \in orphans THEN "destroyed" ELSE life[i]]
    /\ orphans' = {} /\ keys' = <<>>
    /\ UNCHANGED <<route, dirty, flushing, manages, manage, slot, queued>>

\* The manage page gives keep-alive a new slot, and so forces it to render.
ManageRenders ==
    /\ flushing /\ "app" \notin dirty /\ "manage" \in dirty
    /\ dirty' = (dirty \ {"manage"}) \cup {"keep"}
    /\ UNCHANGED <<route, flushing, manages, manage, keys, slot, orphans, life, queued>>

\* remove and push: the key of the page becomes the last of the cache's.
Removed(p) ==
    IF Contains(keys, p) THEN RemoveAt(keys, CHOOSE i \in DOMAIN keys : keys[i] = p) ELSE keys
Freshest(p) == Append(Removed(p), p)

\* keep-alive's render: the page's key becomes the freshest.  The console sets
\* no max, include or exclude, so nothing is pruned here.
ShowPage(p) ==
    /\ flushing /\ dirty = {"keep"} /\ route = p /\ p # slot
    /\ dirty' = {} /\ slot' = p
    /\ keys' = Freshest(p)
    \* patch: the new page, or the kept one's element; then the hooks
    \* of the page it replaces and its own.
    /\ life' = [i \in Instances |->
                   CASE i = <<manage, p>> -> IF Contains(keys, p) THEN life[i] ELSE "mounted"
                     [] i = <<manage, slot>> -> "deactivated"
                     [] OTHER -> life[i]]
    /\ queued' = Append(queued, <<manage, p>>)
    /\ UNCHANGED <<route, flushing, manages, manage, orphans>>

ShowNothing ==
    /\ flushing /\ dirty = {"keep"} /\ route = None /\ slot # None
    /\ dirty' = {} /\ slot' = None
    /\ life' = [life EXCEPT ![<<manage, slot>>] = "deactivated"]
    /\ UNCHANGED <<route, flushing, manages, manage, keys, orphans, queued>>

KeepStays ==
    /\ flushing /\ dirty = {"keep"} /\ route = slot
    /\ dirty' = {}
    /\ UNCHANGED <<route, flushing, manages, manage, keys, slot, orphans, life, queued>>

\* callActivatedHooks, after the queue of watchers is empty.
FlushEndUnheard ==
    /\ flushing /\ dirty = {} /\ orphans = {}
    /\ flushing' = FALSE /\ queued' = <<>>
    /\ UNCHANGED <<route, dirty, manages, manage, keys, slot, orphans, life>>
FlushEnd ==
    /\ flushing /\ dirty = {} /\ orphans = {}
    /\ flushing' = FALSE /\ queued' = <<>>
    /\ life' = [i \in Instances |-> IF Contains(queued, i) THEN "activated" ELSE life[i]]
    /\ UNCHANGED <<route, dirty, manages, manage, keys, slot, orphans>>

Next ==
    \/ \E r \in Routes : Go(r)
    \/ FlushBegin \/ AppStays \/ CreateManage \/ DestroyManage \/ PruneAll
    \/ ManageRenders \/ \E p \in Pages : ShowPage(p)
    \/ ShowNothing \/ KeepStays \/ FlushEnd

Spec == Init /\ [][Next]_vars

-----------------------------------------------------------------------------
(* Between two turns exactly the page of the route is active: no page that is *)
(* shown missed its activated hook, and none that was left still thinks it is *)
(* shown.  No page outlives its manage page.                                  *)
OnlyShownIsActive ==
    ~flushing /\ dirty = {} =>
        \A i \in Instances :
            /\ life[i] = "activated" <=> i[1] = manage /\ i[2] = route
            /\ life[i] \notin {"none", "destroyed"} => i[1] = manage /\ Contains(keys, i[2])

(* A page that is left and shown again is the same instance: within one manage *)
(* page it is created once, and hears its hooks in the order they promise.      *)
HooksInOrder ==
    [][\A i \in Instances : life'[i] # life[i] =>
          <<life[i], life'[i]>> \in
             {<<"none", "mounted">>, <<"none", "activated">>, <<"mounted", "activated">>,
              <<"activated", "deactivated">>, <<"deactivated", "activated">>,
              <<"deactivated", "destroyed">>}]_vars
=============================================================================
