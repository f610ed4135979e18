------------------------------ MODULE Navigation ------------------------------
(* vue-router's History and HashHistory, with the lazy routes of              *)
(* router/index.js over webpack's chunk loader: navigations that wait for     *)
(* chunks, overtake each other, fail and are retried, while the user also     *)
(* moves the URL (back, forward, typing, reloading) under the router's feet.  *)
EXTENDS ChunkLoader, Sequences, SequencesExt, FiniteSets

CONSTANTS Pages,          \* the paths of the route table
          Root,           \* '/', also START's path
          Start,          \* the route object START
          RecordsOf,      \* page -> its matched records, outermost first; a
                          \* record is named by the chunk of its component
          MaxNavigations, \* bound: navigations in one document
          MaxEntries      \* bound: entries a user's step may add to

ASSUME NavigationAssumption ==
    /\ Root \in Pages /\ Start \notin Pages
    /\ RecordsOf \in [Pages -> Seq(Chunks)]

VARIABLES current,   \* History.current: a page or Start
          navs,      \* the navigations begun in this document, oldest first: the
                     \* page, what started it, the chunks it still waits for
          pending,   \* History.pending: the index of a navigation, 0 for null
          resolved,  \* records whose component factory was replaced
          entries,   \* the tab's session history: URLs after '#'
          at,        \* the entry shown in the address bar
          listening, \* setupListeners has installed popstate
          unheard    \* the address bar moved and the router was not told

navVars == <<current, navs, pending, resolved, entries, at, listening, unheard>>
vars == <<loaderVars, navVars>>

Ways == {"first", "push", "pop"}
NavSet == [to : Pages, way : Ways, waits : SUBSET Chunks]

TypeOK ==
    /\ LoaderTypeOK
    /\ current \in Pages \cup {Start}
    /\ navs \in Seq(NavSet) /\ pending \in 0..Len(navs)
    /\ resolved \subseteq Chunks
    /\ entries \in Seq(Pages) /\ at \in 1..Len(entries)
    /\ {listening, unheard} \subseteq BOOLEAN

FullPath(route) == IF route = Start THEN Root ELSE route
Matched(route) == IF route = Start THEN <<>> ELSE RecordsOf[route]
GetHash == entries[at]
Open(n) == navs[n].waits # {}
Pending == pending # 0 /\ Open(pending)

\* The records of the target from the first one on that the route it leaves
\* does not have at the same depth.
Activated(from, to) ==
    {Matched(to)[i] : i \in {j \in DOMAIN Matched(to) : \E k \in 1..j :
        k \notin DOMAIN Matched(from) \/ Matched(from)[k] # Matched(to)[k]}}

\* The component factories a navigation calls: those not replaced yet.
Factories(to) == Activated(current, to) \ resolved
\* An installed chunk answers its factory at once.
Missing(to) == {c \in Factories(to) : installedChunks[c] # "installed"}

\* Slip: the entries ahead are not dropped from the count.
PushHashForward(p) ==
    /\ entries' = Append(SubSeq(entries, 1, at), p)
    /\ at' = Len(entries) + 1
PushHash(p) ==
    /\ entries' = Append(SubSeq(entries, 1, at), p)
    /\ at' = at + 1
ReplaceHash(p) ==
    /\ entries' = [entries EXCEPT ![at] = p]
    /\ UNCHANGED at

\* Slip: a failed navigation leaves the URL.
EnsureURLUnlessFailed(route, push) ==
    /\ unheard' = FALSE
    /\ IF push \/ GetHash = FullPath(route) THEN UNCHANGED <<entries, at>>
       ELSE ReplaceHash(FullPath(route))
EnsureURL(route, push) ==
    /\ unheard' = FALSE
    /\ IF GetHash = FullPath(route) THEN UNCHANGED <<entries, at>>
       ELSE IF push THEN PushHash(FullPath(route)) ELSE ReplaceHash(FullPath(route))

\* transitionTo's callback for a confirmed navigation: push writes a new URL,
\* after which ensureURL has nothing to do; the others leave it to ensureURL.
ConfirmURL(nav) ==
    IF nav.way = "push" THEN PushHash(nav.to) /\ unheard' = FALSE
    ELSE EnsureURL(nav.to, FALSE)

\* confirmTransition to a page that is not shown: it becomes pending, calls the
\* factories and, when nothing is missing, is confirmed in this turn.
Begin(p, way) ==
    LET gone == Missing(p)
    IN  /\ Len(navs) < MaxNavigations
        /\ RequireEnsure(Factories(p))
        /\ resolved' = resolved \cup (Factories(p) \ gone)
        /\ navs' = Append(navs, [to |-> p, way |-> way, waits |-> gone])
        /\ current' = IF gone = {} THEN p ELSE current
        /\ pending' = IF gone = {} THEN 0 ELSE Len(navs) + 1
        /\ UNCHANGED <<listening>>

NothingBegins == UNCHANGED <<loaderVars, current, navs, pending, resolved, listening>>

\* A link or $router.push.  For the page already shown confirmTransition
\* corrects the URL and aborts; what was pending before stays pending.
Push(p) ==
    /\ current # Start
    /\ \/ p = current /\ EnsureURL(current, FALSE) /\ NothingBegins
       \/ /\ p # current /\ at < MaxEntries
          /\ Begin(p, "push")
          /\ IF Missing(p) = {} THEN PushHash(p) /\ unheard' = FALSE
             ELSE UNCHANGED <<entries, at, unheard>>

\* The browser shows another URL and fires popstate; nobody may listen yet.
MoveTo(urls, i) ==
    /\ entries' = urls /\ at' = i
    /\ unheard' = ~listening
    /\ IF listening /\ urls[i] # current THEN Begin(urls[i], "pop") ELSE NothingBegins

BackOrForward(i) == i # at /\ MoveTo(entries, i)

Typed(p) == Append(SubSeq(entries, 1, at), p)
TypeHash(p) ==
    /\ p # GetHash /\ at < MaxEntries
    /\ MoveTo(Typed(p), at + 1)

\* A hash typed without its slash: popstate only corrects the URL.
TypeBareHash(p) ==
    /\ listening /\ p # GetHash /\ at < MaxEntries
    /\ entries' = Typed(p) /\ at' = at + 1
    /\ unheard' = TRUE
    /\ NothingBegins

\* A resolved factory tells each navigation that called it twice, by its
\* callback and by its promise; once() lets the first through.
\* Slip: without once().
TickTwice(waits, c) == IF Cardinality(waits) <= 2 THEN {} ELSE waits \ {c}
Tick(waits, c) == waits \ {c}

\* Of the navigations whose queue has run to its end, the one confirmed: the
\* pending one.  The others abort in silence.
\* Slip: any of them is.
ConfirmedAny(done) == IF done = {} THEN 0 ELSE CHOOSE n \in done : TRUE
Confirmed(done) == IF pending \in done THEN pending ELSE 0

\* A chunk arrives.  Its promise, if one is waiting, resolves the factories
\* that called for it.
Arrive(c) ==
    LET told == {n \in DOMAIN navs : c \in navs[n].waits}
        done == {n \in told : Tick(navs[n].waits, c) = {}}
        n == Confirmed(done)
    IN  /\ WebpackJsonpCallback(c)
        /\ IF ~Waiting(c) THEN UNCHANGED navVars
           ELSE /\ resolved' = resolved \cup {c}
                /\ navs' = [m \in DOMAIN navs |-> IF m \in told
                      THEN [navs[m] EXCEPT !.waits = Tick(@, c)] ELSE navs[m]]
                /\ listening' = (listening \/ \E m \in done : navs[m].way = "first")
                /\ IF n # 0 THEN current' = navs[n].to /\ pending' = 0 /\ ConfirmURL(navs[n])
                   ELSE UNCHANGED <<current, pending, entries, at, unheard>>

\* A chunk fails.  Every navigation that waits for it, the pending one or not,
\* puts the URL of the page shown back (next(error)) and aborts.
Fail(c, late) ==
    LET lost == {n \in DOMAIN navs : c \in navs[n].waits}
    IN  /\ OnScriptComplete(c, late)
        /\ IF ~Waiting(c) \/ lost = {} THEN UNCHANGED navVars
           ELSE /\ EnsureURL(current, TRUE)
                /\ navs' = [n \in DOMAIN navs |->
                              IF n \in lost THEN [navs[n] EXCEPT !.waits = {}] ELSE navs[n]]
                /\ listening' = (listening \/ \E n \in lost : navs[n].way = "first")
                /\ UNCHANGED <<current, pending, resolved>>

\* The document is opened (or loaded again) at an entry of the tab's session
\* history: VueRouter.init starts the first navigation, with nothing installed.
Init ==
    \E p \in Pages :
        LET need == Activated(Start, p)
        IN  /\ entries \in {<<p>>} \cup {<<p, q>> : q \in Pages} \cup {<<q, p>> : q \in Pages}
            /\ at \in DOMAIN entries /\ entries[at] = p
            /\ installedChunks = [c \in Chunks |-> IF c \in need THEN "loading" ELSE "undefined"]
            /\ live = [c \in Chunks |-> IF c \in need THEN 1 ELSE 0]
            /\ orphans = [c \in Chunks |-> 0]
            /\ current = IF need = {} THEN p ELSE Start
            /\ navs = <<[to |-> p, way |-> "first", waits |-> need]>>
            /\ pending = IF need = {} THEN 0 ELSE 1
            /\ resolved = {}
            /\ listening = (need = {})
            /\ unheard = FALSE

Next ==
    \/ \E p \in Pages : Push(p) \/ TypeHash(p) \/ TypeBareHash(p)
    \/ \E i \in DOMAIN entries : BackOrForward(i)
    \/ \E c \in Chunks : Arrive(c) \/ \E late \in BOOLEAN : Fail(c, late)

\* Only the 120-second timer is owed to the tab.
Fairness == \A c \in Chunks : WF_vars(Fail(c, TRUE))

Spec == Init /\ [][Next]_vars
FairSpec == Spec /\ Fairness

-----------------------------------------------------------------------------
Tab == INSTANCE Location WITH
    Blank <- Start, page <- current,
    wish <- IF Pending THEN navs[pending].to ELSE Start,
    asked <- Len(navs)

\* The page shown is one asked for, and a navigation overtaken by a later one
\* never changes it, in whatever order their chunks arrive or fail.
ImplementsLocation == Tab!LocSpec

\* Whatever was shown, superseded, failed or corrected on the way, the address
\* bar shows the page's URL when no navigation is pending, unless the browser
\* moved it where no listener heard it.
UrlFollowsPage == Pending \/ unheard \/ GetHash = FullPath(current)

\* A page is shown only when the components of all its records have arrived:
\* the factory's promise and its callback both report one, once() counts one.
ShownPagesAreLoaded == ToSet(Matched(current)) \subseteq resolved

\* No navigation waits for a chunk that nobody loads: not after a failure, a
\* retry or a late script, and however navigations share a chunk's promise.
WaitsAreLoading == \A n \in DOMAIN navs : \A c \in navs[n].waits : Waiting(c) /\ live[c] = 1

\* Every navigation ends, shown or given up, if only the timers run.
EveryNavigationEnds == \A n \in 1..MaxNavigations :
    (n \in DOMAIN navs /\ Open(n)) ~> ~(n \in DOMAIN navs /\ Open(n))
=============================================================================
