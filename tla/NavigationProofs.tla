-------------------------- MODULE NavigationProofs --------------------------
(* Theorems about Navigation, for any route table, any chunks and any number  *)
(* of navigations and history entries.                                        *)
EXTENDS Navigation, SequenceTheorems, TLAPS

Routes == Pages \cup {Start}

-----------------------------------------------------------------------------
(* The route table and the address bar.                                       *)

\* The records of a route are chunks, and those of a new route the old one
\* does not have are activated.
LEMMA MatchedType ==
    ASSUME NEW route \in Routes
    PROVE  /\ Matched(route) \in Seq(Chunks)
           /\ FullPath(route) \in Pages
<1>1. CASE route = Start
  <2>1. <<>> \in Seq(Chunks)
    BY EmptySeq
  <2> QED BY <1>1, <2>1, NavigationAssumption DEF Matched, FullPath
<1>2. CASE route # Start
  BY <1>2, NavigationAssumption DEF Matched, FullPath, Routes
<1> QED BY <1>1, <1>2

LEMMA ActivatedType ==
    ASSUME NEW from \in Routes, NEW to \in Routes
    PROVE  /\ Activated(from, to) \subseteq Chunks
           /\ ToSet(Matched(to)) \subseteq ToSet(Matched(from)) \cup Activated(from, to)
<1> DEFINE f == Matched(from)
           t == Matched(to)
<1>1. /\ DOMAIN t = 1..Len(t) /\ Len(t) \in Nat
      /\ \A i \in DOMAIN t : t[i] \in Chunks
  BY MatchedType, LenProperties
<1>2. Activated(from, to) \subseteq Chunks
  BY <1>1 DEF Activated
<1>3. ASSUME NEW i \in DOMAIN t, t[i] \notin ToSet(f)
      PROVE  t[i] \in Activated(from, to)
  <2>1. i \in 1..i
    BY <1>1
  <2>2. i \notin DOMAIN f \/ f[i] # t[i]
    BY <1>3 DEF ToSet
  <2> QED BY <2>1, <2>2 DEF Activated
<1> QED BY <1>2, <1>3 DEF ToSet

\* A new entry behind those up to the one shown.
LEMMA TypedEntries ==
    ASSUME entries \in Seq(Pages), at \in 1..Len(entries), NEW p \in Pages
    PROVE  /\ Typed(p) \in Seq(Pages)
           /\ Len(Typed(p)) = at + 1
           /\ Typed(p)[at + 1] = p
<1> DEFINE kept == SubSeq(entries, 1, at)
<1>1. at \in Int /\ at >= 1 /\ \A i \in 1..at : entries[i] \in Pages
  BY LenProperties
<1>2. kept \in Seq(Pages) /\ Len(kept) = at
  BY <1>1, SubSeqProperties
<1> HIDE DEF kept
<1>3. Append(kept, p) \in Seq(Pages) /\ Len(Append(kept, p)) = at + 1 /\ Append(kept, p)[at + 1] = p
  BY <1>2, AppendProperties
<1> QED BY <1>3 DEF Typed, kept

UrlType == entries \in Seq(Pages) /\ at \in 1..Len(entries)

LEMMA PushHashShows ==
    ASSUME UrlType, NEW p \in Pages, PushHash(p)
    PROVE  UrlType' /\ GetHash' = p
<1>1. entries' = Typed(p) /\ at' = at + 1
  BY DEF PushHash, Typed
<1> QED BY <1>1, TypedEntries DEF UrlType, GetHash

LEMMA ReplaceHashShows ==
    ASSUME UrlType, NEW p \in Pages, ReplaceHash(p)
    PROVE  UrlType' /\ GetHash' = p
BY ExceptSeq DEF UrlType, GetHash, ReplaceHash

LEMMA EnsureURLShows ==
    ASSUME UrlType, NEW route \in Routes, NEW push \in BOOLEAN, EnsureURL(route, push)
    PROVE  UrlType' /\ GetHash' = FullPath(route) /\ unheard' = FALSE
BY MatchedType, PushHashShows, ReplaceHashShows DEF EnsureURL, UrlType, GetHash

LEMMA ConfirmURLShows ==
    ASSUME UrlType, NEW nav \in NavSet, ConfirmURL(nav)
    PROVE  UrlType' /\ GetHash' = nav.to /\ unheard' = FALSE
<1>1. nav.to \in Pages /\ nav.to \in Routes /\ FullPath(nav.to) = nav.to
  BY NavigationAssumption DEF NavSet, Routes, FullPath
<1> QED BY <1>1, PushHashShows, EnsureURLShows DEF ConfirmURL

-----------------------------------------------------------------------------
(* Type correctness.                                                          *)

LEMMA NavsType ==
    ASSUME navs \in Seq(NavSet)
    PROVE  /\ Len(navs) \in Nat /\ DOMAIN navs = 1..Len(navs)
           /\ \A n \in DOMAIN navs : navs[n] \in NavSet /\ navs[n].waits \subseteq Chunks
                                     /\ navs[n].to \in Pages /\ navs[n].to \in Routes
<1>1. Len(navs) \in Nat /\ DOMAIN navs = 1..Len(navs) /\ navs \in [1..Len(navs) -> NavSet]
  BY LenProperties
<1>2. \A n \in DOMAIN navs : navs[n] \in NavSet
  BY <1>1
<1>3. \A nav \in NavSet : nav.waits \subseteq Chunks /\ nav.to \in Pages /\ nav.to \in Routes
  BY DEF NavSet, Routes
<1> QED BY <1>1, <1>2, <1>3

\* The waits of some navigations replaced, navigation by navigation.
LEMMA SameNavs ==
    ASSUME navs \in Seq(NavSet), NEW new, new \in [DOMAIN navs -> NavSet]
    PROVE  new \in Seq(NavSet) /\ Len(new) = Len(navs) /\ DOMAIN new = DOMAIN navs
<1>1. Len(navs) \in Nat /\ DOMAIN navs = 1..Len(navs)
  BY NavsType
<1>2. new \in Seq(NavSet)
  BY <1>1, SeqDef
<1>3. Len(new) \in Nat /\ DOMAIN new = 1..Len(new) /\ DOMAIN new = 1..Len(navs)
  BY <1>1, <1>2, LenProperties
<1> QED BY <1>1, <1>2, <1>3

LEMMA MissingType ==
    ASSUME current \in Routes, NEW p \in Pages
    PROVE  Factories(p) \subseteq Chunks /\ Missing(p) \subseteq Factories(p)
<1>1. p \in Routes
  BY DEF Routes
<1> QED BY <1>1, ActivatedType DEF Factories, Missing

\* What a navigation does when it begins.
LEMMA BeginAdds ==
    ASSUME TypeOK, NEW p \in Pages, NEW way \in Ways, Begin(p, way)
    PROVE  /\ LoaderTypeOK' /\ current' \in Routes /\ resolved' \subseteq Chunks
           /\ navs' \in Seq(NavSet) /\ Len(navs') = Len(navs) + 1
           /\ navs'[Len(navs) + 1] = [to |-> p, way |-> way, waits |-> Missing(p)]
           /\ \A n \in DOMAIN navs : navs'[n] = navs[n]
           /\ pending' = IF Missing(p) = {} THEN 0 ELSE Len(navs) + 1
           /\ listening' = listening
<1> DEFINE nav == [to |-> p, way |-> way, waits |-> Missing(p)]
<1>1. current \in Routes /\ Missing(p) \subseteq Chunks /\ Factories(p) \subseteq Chunks
  BY MissingType DEF TypeOK, Routes
<1>2. nav \in NavSet
  BY <1>1 DEF NavSet
<1> HIDE DEF nav
<1>3. navs' = Append(navs, nav)
  BY DEF Begin, nav
<1>4. /\ Append(navs, nav) \in Seq(NavSet)
      /\ Len(Append(navs, nav)) = Len(navs) + 1
      /\ \A i \in 1..Len(navs) : Append(navs, nav)[i] = navs[i]
      /\ Append(navs, nav)[Len(navs) + 1] = nav
  BY <1>2, AppendProperties DEF TypeOK
<1>5. DOMAIN navs = 1..Len(navs)
  BY LenProperties DEF TypeOK
<1>6. LoaderTypeOK'
  BY DEF TypeOK, LoaderTypeOK, Begin, RequireEnsure
<1>7. current' \in Routes /\ resolved' \subseteq Chunks
  BY <1>1 DEF TypeOK, Begin, Routes
<1> QED BY <1>3, <1>4, <1>5, <1>6, <1>7 DEF Begin, nav

LEMMA BeginType ==
    ASSUME TypeOK, NEW p \in Pages, NEW way \in Ways, Begin(p, way), UrlType', unheard' \in BOOLEAN
    PROVE  TypeOK'
<1>1. Len(navs) \in Nat
  BY NavsType DEF TypeOK
<1>2. /\ LoaderTypeOK' /\ current' \in Routes /\ resolved' \subseteq Chunks
      /\ navs' \in Seq(NavSet) /\ Len(navs') = Len(navs) + 1
      /\ pending' \in {0, Len(navs) + 1} /\ listening' = listening
  BY BeginAdds
<1>3. pending' \in 0..Len(navs')
  BY <1>1, <1>2
<1>4. listening' \in BOOLEAN
  BY <1>2 DEF TypeOK
<1> QED BY <1>2, <1>3, <1>4 DEF TypeOK, UrlType, Routes

LEMMA NothingBeginsType ==
    ASSUME TypeOK, NothingBegins, UrlType', unheard' \in BOOLEAN
    PROVE  TypeOK'
BY DEF TypeOK, NothingBegins, UrlType, LoaderTypeOK, loaderVars

LEMMA MoveToType ==
    ASSUME TypeOK, NEW urls \in Seq(Pages), NEW i \in 1..Len(urls), MoveTo(urls, i)
    PROVE  TypeOK'
<1>1. urls[i] \in Pages /\ listening \in BOOLEAN
  BY ElementOfSeq DEF TypeOK
<1>2. UrlType' /\ unheard' \in BOOLEAN
  BY <1>1 DEF MoveTo, UrlType
<1>3. "pop" \in Ways
  BY DEF Ways
<1> QED BY <1>1, <1>2, <1>3, BeginType, NothingBeginsType DEF MoveTo

\* What a step of a chunk does to the navigations.
LEMMA ArriveNavs ==
    ASSUME TypeOK, NEW c \in Chunks, Arrive(c), Waiting(c)
    PROVE  /\ navs' \in Seq(NavSet) /\ Len(navs') = Len(navs) /\ DOMAIN navs' = DOMAIN navs
           /\ \A n \in DOMAIN navs : /\ navs'[n].to = navs[n].to
                                     /\ navs'[n].way = navs[n].way
                                     /\ navs'[n].waits = navs[n].waits \ {c}
<1>1. /\ navs' = [m \in DOMAIN navs |-> IF c \in navs[m].waits
                    THEN [navs[m] EXCEPT !.waits = Tick(@, c)] ELSE navs[m]]
      /\ navs \in Seq(NavSet)
  BY DEF Arrive, TypeOK
<1>2. \A m \in DOMAIN navs : navs[m] \in NavSet
  BY <1>1, NavsType
<1>3. navs' \in [DOMAIN navs -> NavSet]
  BY <1>1, <1>2 DEF Tick, NavSet
<1>4. \A n \in DOMAIN navs : /\ navs'[n].to = navs[n].to
                             /\ navs'[n].way = navs[n].way
                             /\ navs'[n].waits = navs[n].waits \ {c}
  BY <1>1, <1>2 DEF Tick, NavSet
<1> QED BY <1>1, <1>3, <1>4, SameNavs

LEMMA FailNavs ==
    ASSUME TypeOK, NEW c \in Chunks, NEW late \in BOOLEAN, Fail(c, late), Waiting(c)
    PROVE  /\ navs' \in Seq(NavSet) /\ Len(navs') = Len(navs) /\ DOMAIN navs' = DOMAIN navs
           /\ \A n \in DOMAIN navs : /\ navs'[n].to = navs[n].to
                                     /\ navs'[n].way = navs[n].way
                                     /\ navs'[n].waits = IF c \in navs[n].waits THEN {}
                                                         ELSE navs[n].waits
<1>1. navs \in Seq(NavSet) /\ \A m \in DOMAIN navs : navs[m] \in NavSet
  BY NavsType DEF TypeOK
<1>2. CASE \A n \in DOMAIN navs : c \notin navs[n].waits
  <2>1. navs' = navs
    BY <1>2 DEF Fail, navVars
  <2> QED BY <1>1, <1>2, <2>1
<1>3. CASE \E n \in DOMAIN navs : c \in navs[n].waits
  <2>1. navs' = [n \in DOMAIN navs |-> IF c \in navs[n].waits
                   THEN [navs[n] EXCEPT !.waits = {}] ELSE navs[n]]
    BY <1>3 DEF Fail
  <2>2. navs' \in [DOMAIN navs -> NavSet]
    BY <1>1, <2>1 DEF NavSet
  <2>3. \A n \in DOMAIN navs : /\ navs'[n].to = navs[n].to
                               /\ navs'[n].way = navs[n].way
                               /\ navs'[n].waits = IF c \in navs[n].waits THEN {}
                                                   ELSE navs[n].waits
    BY <1>1, <2>1 DEF NavSet
  <2> QED BY <1>1, <2>2, <2>3, SameNavs
<1> QED BY <1>2, <1>3

\* The step of a navigation that a chunk's arrival confirms, and of the others.
LEMMA ArriveConfirms ==
    ASSUME TypeOK, NEW c \in Chunks, Arrive(c), Waiting(c)
    PROVE  \/ /\ Pending /\ navs[pending].waits = {c}
              /\ current' = navs[pending].to /\ pending' = 0
              /\ ConfirmURL(navs[pending])
           \/ /\ ~ (Pending /\ navs[pending].waits = {c})
              /\ UNCHANGED <<current, pending, entries, at, unheard>>
<1> DEFINE done == {n \in DOMAIN navs : c \in navs[n].waits /\ Tick(navs[n].waits, c) = {}}
<1>1. done = {n \in DOMAIN navs : navs[n].waits = {c}}
  BY DEF Tick
<1>2. 0 \notin DOMAIN navs /\ (pending # 0 => pending \in DOMAIN navs)
  BY NavsType DEF TypeOK
<1>3. {n \in {m \in DOMAIN navs : c \in navs[m].waits} : Tick(navs[n].waits, c) = {}} = done
  OBVIOUS
<1> HIDE DEF done
<1>4. CASE pending \in done
  <2>1. Pending /\ navs[pending].waits = {c} /\ pending # 0
    BY <1>1, <1>2, <1>4 DEF Pending, Open
  <2>2. Confirmed(done) = pending
    BY <1>4 DEF Confirmed
  <2> QED BY <1>3, <2>1, <2>2 DEF Arrive
<1>5. CASE pending \notin done
  <2>1. ~ (Pending /\ navs[pending].waits = {c})
    BY <1>1, <1>2, <1>5 DEF Pending
  <2>2. Confirmed(done) = 0
    BY <1>5 DEF Confirmed
  <2> QED BY <1>3, <2>1, <2>2 DEF Arrive
<1> QED BY <1>4, <1>5

LEMMA ArriveType ==
    ASSUME TypeOK, NEW c \in Chunks, Arrive(c)
    PROVE  TypeOK'
<1>1. LoaderTypeOK'
  BY DEF TypeOK, LoaderTypeOK, Arrive, WebpackJsonpCallback
<1>2. CASE ~ Waiting(c)
  BY <1>1, <1>2 DEF Arrive, TypeOK, navVars
<1>3. CASE Waiting(c)
  <2>1. navs' \in Seq(NavSet) /\ Len(navs') = Len(navs) /\ Len(navs) \in Nat
    BY <1>3, ArriveNavs, NavsType DEF TypeOK
  <2>2. resolved' \subseteq Chunks /\ listening' \in BOOLEAN
    BY <1>3 DEF Arrive, TypeOK
  <2>3. /\ current' \in Routes /\ pending' \in 0..Len(navs)
        /\ UrlType' /\ unheard' \in BOOLEAN
    <3>1. CASE UNCHANGED <<current, pending, entries, at, unheard>>
      BY <3>1 DEF TypeOK, UrlType, Routes
    <3>2. CASE /\ Pending /\ current' = navs[pending].to /\ pending' = 0
               /\ ConfirmURL(navs[pending])
      <4>1. navs[pending] \in NavSet /\ navs[pending].to \in Routes
        BY <3>2, NavsType DEF TypeOK, Pending
      <4>2. UrlType' /\ unheard' = FALSE
        BY <3>2, <4>1, ConfirmURLShows DEF UrlType, TypeOK
      <4>3. pending' \in 0..Len(navs)
        BY <2>1, <3>2
      <4> QED BY <3>2, <4>1, <4>2, <4>3
    <3> QED BY <1>3, <3>1, <3>2, ArriveConfirms
  <2> QED BY <1>1, <2>1, <2>2, <2>3 DEF TypeOK, UrlType, Routes
<1> QED BY <1>2, <1>3

LEMMA FailType ==
    ASSUME TypeOK, NEW c \in Chunks, NEW late \in BOOLEAN, Fail(c, late)
    PROVE  TypeOK'
<1>1. LoaderTypeOK'
  BY DEF TypeOK, LoaderTypeOK, Fail, OnScriptComplete
<1>2. CASE UNCHANGED navVars
  BY <1>1, <1>2 DEF TypeOK, navVars
<1>3. CASE ~ UNCHANGED navVars
  <2>1. /\ Waiting(c) /\ EnsureURL(current, TRUE)
        /\ listening' \in BOOLEAN
        /\ UNCHANGED <<current, pending, resolved>>
    BY <1>3 DEF Fail, TypeOK
  <2>2. navs' \in Seq(NavSet) /\ Len(navs') = Len(navs)
    BY <2>1, FailNavs
  <2>3. UrlType' /\ unheard' = FALSE
    BY <2>1, EnsureURLShows DEF TypeOK, UrlType, Routes
  <2> QED BY <1>1, <2>1, <2>2, <2>3 DEF TypeOK, UrlType
<1> QED BY <1>2, <1>3

\* The document opens: one navigation, that waits for all its records.
LEMMA InitOpens ==
    ASSUME Init
    PROVE  \E p \in Pages :
             /\ GetHash = p /\ UrlType
             /\ navs \in Seq(NavSet) /\ Len(navs) = 1 /\ DOMAIN navs = {1}
             /\ navs[1] = [to |-> p, way |-> "first", waits |-> Activated(Start, p)]
             /\ Activated(Start, p) \subseteq Chunks
             /\ ToSet(Matched(p)) \subseteq Activated(Start, p)
             /\ installedChunks = [c \in Chunks |->
                    IF c \in Activated(Start, p) THEN "loading" ELSE "undefined"]
             /\ live = [c \in Chunks |-> IF c \in Activated(Start, p) THEN 1 ELSE 0]
             /\ orphans = [c \in Chunks |-> 0]
             /\ current = IF Activated(Start, p) = {} THEN p ELSE Start
             /\ pending = IF Activated(Start, p) = {} THEN 0 ELSE 1
             /\ resolved = {} /\ listening \in BOOLEAN /\ unheard = FALSE
<1>1. PICK p \in Pages :
         LET need == Activated(Start, p)
         IN  /\ entries \in {<<p>>} \cup {<<p, q>> : q \in Pages} \cup {<<q, p>> : q \in Pages}
             /\ at \in DOMAIN entries /\ entries[at] = p
             /\ installedChunks = [c \in Chunks |-> IF c \in need THEN "loading" ELSE "undefined"]
             /\ live = [c \in Chunks |-> IF c \in need THEN 1 ELSE 0]
             /\ orphans = [c \in Chunks |-> 0]
             /\ current = IF need = {} THEN p ELSE Start
             /\ navs = <<[to |-> p, way |-> "first", waits |-> need]>>
             /\ pending = IF need = {} THEN 0 ELSE 1
             /\ resolved = {}
             /\ listening = (need = {})
             /\ unheard = FALSE
  BY DEF Init
<1> DEFINE need == Activated(Start, p)
           first == [to |-> p, way |-> "first", waits |-> need]
<1>2. p \in Routes /\ Start \in Routes
  BY DEF Routes
<1>3. need \subseteq Chunks /\ ToSet(Matched(p)) \subseteq need
  <2>1. ToSet(Matched(Start)) = {}
    BY DEF Matched, ToSet
  <2> QED BY <1>2, <2>1, ActivatedType
<1>4. first \in NavSet
  BY <1>3 DEF NavSet, Ways
<1> HIDE DEF need, first
<1>5. navs = <<first>>
  BY <1>1 DEF need, first
<1>6. navs \in Seq(NavSet) /\ Len(navs) = 1 /\ DOMAIN navs = {1} /\ navs[1] = first
  BY <1>4, <1>5
<1>7. entries \in Seq(Pages) /\ at \in 1..Len(entries)
  <2>1. PICK q \in Pages : entries = <<p>> \/ entries = <<p, q>> \/ entries = <<q, p>>
    BY <1>1
  <2>2. <<p>> \in Seq(Pages) /\ <<p, q>> \in Seq(Pages) /\ <<q, p>> \in Seq(Pages)
    OBVIOUS
  <2>3. entries \in Seq(Pages)
    BY <2>1, <2>2
  <2> QED BY <1>1, <2>3, LenProperties
<1>8. listening \in BOOLEAN
  BY <1>1
<1> QED BY <1>1, <1>3, <1>6, <1>7, <1>8 DEF need, first, GetHash, UrlType

LEMMA InitType == Init => TypeOK
<1> SUFFICES ASSUME Init PROVE TypeOK
  OBVIOUS
<1>1. PICK p \in Pages :
         /\ UrlType /\ navs \in Seq(NavSet) /\ Len(navs) = 1
         /\ installedChunks = [c \in Chunks |->
                IF c \in Activated(Start, p) THEN "loading" ELSE "undefined"]
         /\ live = [c \in Chunks |-> IF c \in Activated(Start, p) THEN 1 ELSE 0]
         /\ orphans = [c \in Chunks |-> 0]
         /\ current = IF Activated(Start, p) = {} THEN p ELSE Start
         /\ pending = IF Activated(Start, p) = {} THEN 0 ELSE 1
         /\ resolved = {} /\ listening \in BOOLEAN /\ unheard = FALSE
  BY InitOpens
<1>2. LoaderTypeOK
  BY <1>1 DEF LoaderTypeOK
<1>3. pending \in 0..Len(navs) /\ current \in Pages \cup {Start}
  BY <1>1
<1> QED BY <1>1, <1>2, <1>3 DEF TypeOK, UrlType

\* The URL a user's step shows, and what the router makes of it.
LEMMA TypeHashMoves ==
    ASSUME TypeOK, NEW p \in Pages, TypeHash(p)
    PROVE  \E urls \in Seq(Pages) : \E i \in 1..Len(urls) : urls[i] = p /\ MoveTo(urls, i)
<1>1. Typed(p) \in Seq(Pages) /\ Len(Typed(p)) = at + 1 /\ Typed(p)[at + 1] = p
  BY TypedEntries DEF TypeOK
<1>2. at \in Nat
  BY LenProperties DEF TypeOK
<1>3. at + 1 \in 1..Len(Typed(p)) /\ MoveTo(Typed(p), at + 1)
  BY <1>1, <1>2 DEF TypeHash
<1> QED BY <1>1, <1>3

LEMMA BackOrForwardMoves ==
    ASSUME TypeOK, NEW i \in DOMAIN entries, BackOrForward(i)
    PROVE  entries \in Seq(Pages) /\ i \in 1..Len(entries) /\ MoveTo(entries, i)
BY LenProperties DEF TypeOK, BackOrForward

LEMMA TypeBareHashShows ==
    ASSUME TypeOK, NEW p \in Pages, TypeBareHash(p)
    PROVE  UrlType' /\ unheard' = TRUE /\ NothingBegins
<1>1. entries' = Typed(p) /\ at' = at + 1 /\ unheard' = TRUE /\ NothingBegins
  BY DEF TypeBareHash
<1>2. Typed(p) \in Seq(Pages) /\ Len(Typed(p)) = at + 1 /\ at \in 1..Len(entries) /\ Len(entries) \in Nat
  BY TypedEntries, LenProperties DEF TypeOK
<1>3. at + 1 \in 1..(at + 1)
  BY <1>2
<1> QED BY <1>1, <1>2, <1>3 DEF UrlType

LEMMA PushShows ==
    ASSUME TypeOK, NEW p \in Pages, Push(p)
    PROVE  \/ /\ NothingBegins /\ UrlType' /\ unheard' = FALSE
              /\ GetHash' = FullPath(current)
           \/ /\ Begin(p, "push") /\ UrlType' /\ unheard' \in BOOLEAN
              /\ Missing(p) = {} => GetHash' = p
<1>1. UrlType /\ current \in Routes /\ unheard \in BOOLEAN
  BY DEF TypeOK, UrlType, Routes
<1>2. CASE p = current /\ EnsureURL(current, FALSE) /\ NothingBegins
  BY <1>1, <1>2, EnsureURLShows
<1>3. CASE Begin(p, "push") /\ Missing(p) = {} /\ PushHash(p) /\ unheard' = FALSE
  BY <1>1, <1>3, PushHashShows
<1>4. CASE Begin(p, "push") /\ Missing(p) # {} /\ UNCHANGED <<entries, at, unheard>>
  BY <1>1, <1>4 DEF UrlType
<1> QED BY <1>2, <1>3, <1>4 DEF Push

LEMMA NextType == TypeOK /\ [Next]_vars => TypeOK'
<1> SUFFICES ASSUME TypeOK, [Next]_vars
             PROVE  TypeOK'
  OBVIOUS
<1>1. ASSUME NEW p \in Pages, Push(p)
      PROVE  TypeOK'
  <2>1. "push" \in Ways
    BY DEF Ways
  <2> QED BY <1>1, <2>1, PushShows, NothingBeginsType, BeginType
<1>2. ASSUME NEW p \in Pages, TypeHash(p)
      PROVE  TypeOK'
  BY <1>2, TypeHashMoves, MoveToType
<1>3. ASSUME NEW p \in Pages, TypeBareHash(p)
      PROVE  TypeOK'
  BY <1>3, TypeBareHashShows, NothingBeginsType
<1>4. ASSUME NEW i \in DOMAIN entries, BackOrForward(i)
      PROVE  TypeOK'
  BY <1>4, BackOrForwardMoves, MoveToType
<1>5. ASSUME NEW c \in Chunks, Arrive(c)
      PROVE  TypeOK'
  BY <1>5, ArriveType
<1>6. ASSUME NEW c \in Chunks, NEW late \in BOOLEAN, Fail(c, late)
      PROVE  TypeOK'
  BY <1>6, FailType
<1>7. CASE UNCHANGED vars
  BY <1>7 DEF TypeOK, LoaderTypeOK, vars, loaderVars, navVars
<1> QED BY <1>1, <1>2, <1>3, <1>4, <1>5, <1>6, <1>7 DEF Next

\* Every navigation is a page's, the pending one is one that was begun, and the
\* address bar is always inside the session history.
THEOREM TypesInvariant == Spec => []TypeOK
BY InitType, NextType, PTL DEF Spec

-----------------------------------------------------------------------------
(* The chunks.                                                                *)

\* Inductive: with it, a chunk that is not loading has a new element when it is
\* asked for, and one that is loading has its own.
LoadersInv ==
    /\ WaitsAreLoading
    /\ OneReporterPerLoad
    /\ \A c \in Chunks : installedChunks[c] = "undefined" => live[c] = 0

LEMMA BeginLoaders ==
    ASSUME TypeOK, LoadersInv, NEW p \in Pages, NEW way \in Ways, Begin(p, way)
    PROVE  LoadersInv'
<1>1. current \in Routes
  BY DEF TypeOK, Routes
<1>2. Factories(p) \subseteq Chunks /\ Missing(p) \subseteq Factories(p)
  BY <1>1, MissingType
<1>3. /\ \A c \in Chunks : live[c] \in Nat /\ installedChunks[c] \in {"undefined", "loading", "installed"}
      /\ \A c \in Chunks :
            /\ installedChunks'[c] = IF c \in Factories(p) /\ installedChunks[c] = "undefined"
                                     THEN "loading" ELSE installedChunks[c]
            /\ live'[c] = IF c \in Factories(p) /\ installedChunks[c] = "undefined"
                          THEN live[c] + 1 ELSE live[c]
  BY <1>2 DEF TypeOK, LoaderTypeOK, Begin, RequireEnsure
<1>4. \A c \in Chunks : /\ live'[c] <= 1 /\ (installedChunks'[c] = "loading" => live'[c] = 1)
                        /\ installedChunks'[c] = "undefined" => live'[c] = 0
                        /\ installedChunks[c] = "loading" => installedChunks'[c] = "loading"
                        /\ c \in Missing(p) => installedChunks'[c] = "loading"
  BY <1>2, <1>3 DEF LoadersInv, OneReporterPerLoad, Waiting, Missing
<1>5. DOMAIN navs = 1..Len(navs) /\ Len(navs) \in Nat /\ \A n \in DOMAIN navs : navs[n].waits \subseteq Chunks
  BY NavsType DEF TypeOK
<1>6. DOMAIN navs' = 1..(Len(navs) + 1)
  BY BeginAdds, LenProperties
<1>7. ASSUME NEW n \in DOMAIN navs', NEW c \in navs'[n].waits
      PROVE  c \in Chunks /\ installedChunks'[c] = "loading"
  <2>1. CASE n \in DOMAIN navs
    <3>1. navs'[n] = navs[n]
      BY <2>1, BeginAdds
    <3> QED BY <1>4, <1>5, <1>7, <2>1, <3>1 DEF LoadersInv, WaitsAreLoading, Waiting
  <2>2. CASE n = Len(navs) + 1
    <3>1. navs'[Len(navs) + 1] = [to |-> p, way |-> way, waits |-> Missing(p)]
      BY BeginAdds
    <3>2. navs'[n].waits = Missing(p)
      BY <2>2, <3>1
    <3> QED BY <1>2, <1>4, <1>7, <3>2
  <2> QED BY <1>5, <1>6, <2>1, <2>2
<1> QED BY <1>4, <1>7 DEF LoadersInv, WaitsAreLoading, OneReporterPerLoad, Waiting

LEMMA ArriveLoaders ==
    ASSUME TypeOK, LoadersInv, NEW c \in Chunks, Arrive(c)
    PROVE  LoadersInv'
<1>1. /\ \A d \in Chunks : live[d] \in Nat
      /\ \A d \in Chunks : live'[d] \in {live[d], live[d] - 1}
      /\ \A d \in Chunks : live'[d] # live[d] => d = c /\ live[d] > 0
      /\ \A d \in Chunks : installedChunks'[d] = IF d = c THEN "installed" ELSE installedChunks[d]
  BY DEF TypeOK, LoaderTypeOK, Arrive, WebpackJsonpCallback
<1>2. OneReporterPerLoad' /\ \A d \in Chunks : installedChunks'[d] = "undefined" => live'[d] = 0
  BY <1>1 DEF LoadersInv, OneReporterPerLoad, Waiting
<1>3. \A n \in DOMAIN navs : navs[n].waits \subseteq Chunks
  BY NavsType DEF TypeOK
<1>4. \A n \in DOMAIN navs' : navs'[n].waits \subseteq navs[n].waits \ {c} /\ n \in DOMAIN navs
  <2>1. CASE Waiting(c)
    BY <2>1, ArriveNavs
  <2>2. CASE ~ Waiting(c)
    <3>1. navs' = navs
      BY <2>2 DEF Arrive, navVars
    <3>2. \A n \in DOMAIN navs : c \notin navs[n].waits
      BY <2>2 DEF LoadersInv, WaitsAreLoading
    <3> QED BY <3>1, <3>2
  <2> QED BY <2>1, <2>2
<1>5. WaitsAreLoading'
  <2> SUFFICES ASSUME NEW n \in DOMAIN navs', NEW d \in navs'[n].waits
               PROVE  installedChunks'[d] = "loading" /\ live'[d] = 1
    BY DEF WaitsAreLoading, Waiting
  <2>1. d \in Chunks /\ d # c /\ installedChunks[d] = "loading"
    BY <1>3, <1>4 DEF LoadersInv, WaitsAreLoading, Waiting
  <2> QED BY <1>1, <1>2, <2>1 DEF OneReporterPerLoad, Waiting
<1> QED BY <1>2, <1>5 DEF LoadersInv

LEMMA FailLoaders ==
    ASSUME TypeOK, LoadersInv, NEW c \in Chunks, NEW late \in BOOLEAN, Fail(c, late)
    PROVE  LoadersInv'
<1>1. /\ live[c] > 0
      /\ \A d \in Chunks : live[d] \in Nat
      /\ \A d \in Chunks : live'[d] = IF d = c THEN live[d] - 1 ELSE live[d]
      /\ \A d \in Chunks : installedChunks'[d] = IF d = c /\ installedChunks[d] # "installed"
                                                 THEN "undefined" ELSE installedChunks[d]
  BY DEF TypeOK, LoaderTypeOK, Fail, OnScriptComplete
<1>2. OneReporterPerLoad' /\ \A d \in Chunks : installedChunks'[d] = "undefined" => live'[d] = 0
  BY <1>1 DEF LoadersInv, OneReporterPerLoad, Waiting
<1>3. \A n \in DOMAIN navs : navs[n].waits \subseteq Chunks
  BY NavsType DEF TypeOK
<1>4. \A n \in DOMAIN navs' : navs'[n].waits \subseteq navs[n].waits \ {c} /\ n \in DOMAIN navs
  <2>1. CASE Waiting(c)
    <3>1. \A n \in DOMAIN navs : navs'[n].waits = IF c \in navs[n].waits THEN {} ELSE navs[n].waits
      BY <2>1, FailNavs
    <3> QED BY <2>1, <3>1, FailNavs
  <2>2. CASE ~ Waiting(c)
    <3>1. navs' = navs
      BY <2>2 DEF Fail, navVars
    <3>2. \A n \in DOMAIN navs : c \notin navs[n].waits
      BY <2>2 DEF LoadersInv, WaitsAreLoading
    <3> QED BY <3>1, <3>2
  <2> QED BY <2>1, <2>2
<1>5. WaitsAreLoading'
  <2> SUFFICES ASSUME NEW n \in DOMAIN navs', NEW d \in navs'[n].waits
               PROVE  installedChunks'[d] = "loading" /\ live'[d] = 1
    BY DEF WaitsAreLoading, Waiting
  <2>1. d \in Chunks /\ d # c /\ installedChunks[d] = "loading" /\ live[d] = 1
    BY <1>3, <1>4 DEF LoadersInv, WaitsAreLoading, Waiting
  <2> QED BY <1>1, <2>1
<1> QED BY <1>2, <1>5 DEF LoadersInv

LEMMA LoadersInvariant == Spec => []LoadersInv
<1>1. Init => LoadersInv
  <2> SUFFICES ASSUME Init PROVE LoadersInv
    OBVIOUS
  <2>1. PICK p \in Pages :
           /\ DOMAIN navs = {1}
           /\ navs[1] = [to |-> p, way |-> "first", waits |-> Activated(Start, p)]
           /\ Activated(Start, p) \subseteq Chunks
           /\ installedChunks = [c \in Chunks |->
                  IF c \in Activated(Start, p) THEN "loading" ELSE "undefined"]
           /\ live = [c \in Chunks |-> IF c \in Activated(Start, p) THEN 1 ELSE 0]
    BY InitOpens
  <2>2. navs[1].waits = Activated(Start, p)
    BY <2>1
  <2>3. ASSUME NEW c \in Chunks
        PROVE  \/ /\ c \in Activated(Start, p)
                  /\ installedChunks[c] = "loading" /\ live[c] = 1
               \/ /\ c \notin Activated(Start, p)
                  /\ installedChunks[c] = "undefined" /\ live[c] = 0
    BY <2>1
  <2>4. WaitsAreLoading
    BY <2>1, <2>2, <2>3 DEF WaitsAreLoading, Waiting
  <2>5. ASSUME NEW c \in Chunks
        PROVE  /\ live[c] <= 1 /\ (installedChunks[c] = "loading" => live[c] = 1)
               /\ installedChunks[c] = "undefined" => live[c] = 0
    <3>1. CASE installedChunks[c] = "loading" /\ live[c] = 1
      BY <3>1
    <3>2. CASE installedChunks[c] = "undefined" /\ live[c] = 0
      BY <3>2
    <3> QED BY <2>3, <3>1, <3>2
  <2> QED BY <2>4, <2>5 DEF LoadersInv, OneReporterPerLoad, Waiting
<1>2. TypeOK /\ LoadersInv /\ [Next]_vars => LoadersInv'
  <2> SUFFICES ASSUME TypeOK, LoadersInv, [Next]_vars
               PROVE  LoadersInv'
    OBVIOUS
  <2>1. ASSUME UNCHANGED <<loaderVars, navs>>
        PROVE  LoadersInv'
    BY <2>1 DEF LoadersInv, WaitsAreLoading, OneReporterPerLoad, Waiting, loaderVars
  <2>2. ASSUME NothingBegins
        PROVE  LoadersInv'
    BY <2>1, <2>2 DEF NothingBegins
  <2>3. ASSUME NEW urls \in Seq(Pages), NEW i \in 1..Len(urls), MoveTo(urls, i)
        PROVE  LoadersInv'
    <3>1. urls[i] \in Pages /\ "pop" \in Ways
      BY ElementOfSeq DEF Ways
    <3> QED BY <2>2, <2>3, <3>1, BeginLoaders DEF MoveTo
  <2>4. ASSUME NEW p \in Pages, Push(p)
        PROVE  LoadersInv'
    <3>1. "push" \in Ways
      BY DEF Ways
    <3> QED BY <2>2, <2>4, <3>1, PushShows, BeginLoaders
  <2>5. ASSUME NEW p \in Pages, TypeHash(p) \/ TypeBareHash(p)
        PROVE  LoadersInv'
    BY <2>2, <2>3, <2>5, TypeHashMoves, TypeBareHashShows
  <2>6. ASSUME NEW i \in DOMAIN entries, BackOrForward(i)
        PROVE  LoadersInv'
    BY <2>3, <2>6, BackOrForwardMoves
  <2>7. ASSUME NEW c \in Chunks, NEW late \in BOOLEAN, Arrive(c) \/ Fail(c, late)
        PROVE  LoadersInv'
    BY <2>7, ArriveLoaders, FailLoaders
  <2>8. CASE UNCHANGED vars
    BY <2>1, <2>8 DEF vars, navVars
  <2> QED BY <2>4, <2>5, <2>6, <2>7, <2>8 DEF Next
<1> QED BY <1>1, <1>2, TypesInvariant, PTL DEF Spec

\* A navigation that waits for a chunk waits for one that an element is bringing,
\* whoever asked for it first and however often it failed before.
THEOREM NoIdleWait == Spec => []WaitsAreLoading
BY LoadersInvariant, PTL DEF LoadersInv

-----------------------------------------------------------------------------
(* The address bar.                                                           *)

LEMMA PendingType ==
    ASSUME TypeOK
    PROVE  Pending => /\ pending \in DOMAIN navs /\ navs[pending] \in NavSet
                      /\ navs[pending].to \in Pages /\ navs[pending].to # Start
<1>1. pending \in 0..Len(navs) /\ navs \in Seq(NavSet)
  BY DEF TypeOK
<1> QED BY <1>1, NavsType, NavigationAssumption DEF Pending

\* What is pending after a navigation begins, and after nothing did.
LEMMA BeginPends ==
    ASSUME TypeOK, NEW p \in Pages, NEW way \in Ways, Begin(p, way)
    PROVE  \/ /\ Missing(p) = {} /\ current' = p /\ ~ Pending'
           \/ /\ Missing(p) # {} /\ current' = current
              /\ Pending' /\ navs'[pending'].to = p
<1>1. Len(navs) \in Nat
  BY NavsType DEF TypeOK
<1>2. CASE Missing(p) = {}
  BY <1>2, BeginAdds DEF Begin, Pending
<1>3. CASE Missing(p) # {}
  <2>1. navs'[Len(navs) + 1] = [to |-> p, way |-> way, waits |-> Missing(p)]
    BY BeginAdds
  <2>2. pending' = Len(navs) + 1 /\ Len(navs) + 1 # 0
    <3>1. pending' = IF Missing(p) = {} THEN 0 ELSE Len(navs) + 1
      BY BeginAdds
    <3> QED BY <1>1, <1>3, <3>1
  <2>3. navs'[pending'].waits # {} /\ navs'[pending'].to = p
    BY <1>3, <2>1, <2>2
  <2> QED BY <1>3, <2>2, <2>3 DEF Begin, Pending, Open
<1> QED BY <1>2, <1>3

LEMMA MoveToFollows ==
    ASSUME TypeOK, NEW urls \in Seq(Pages), NEW i \in 1..Len(urls), MoveTo(urls, i)
    PROVE  UrlFollowsPage'
<1>1. urls[i] \in Pages /\ "pop" \in Ways /\ GetHash' = urls[i] /\ FullPath(urls[i]) = urls[i]
  BY ElementOfSeq, NavigationAssumption DEF Ways, MoveTo, GetHash, FullPath
<1>2. CASE ~ listening
  BY <1>2 DEF MoveTo, UrlFollowsPage
<1>3. CASE listening /\ urls[i] = current
  BY <1>1, <1>3 DEF MoveTo, NothingBegins, UrlFollowsPage, FullPath
<1>4. CASE listening /\ urls[i] # current
  <2>1. Begin(urls[i], "pop")
    BY <1>4 DEF MoveTo
  <2>2. Pending' \/ current' = urls[i]
    BY <1>1, <2>1, BeginPends
  <2> QED BY <1>1, <2>2 DEF UrlFollowsPage, FullPath
<1> QED BY <1>2, <1>3, <1>4

\* Nothing a chunk does leaves a navigation half done: it is still pending, or
\* the URL was written with the page.
LEMMA ArriveFollows ==
    ASSUME TypeOK, UrlFollowsPage, NEW c \in Chunks, Arrive(c)
    PROVE  UrlFollowsPage'
<1>1. CASE ~ Waiting(c)
  BY <1>1 DEF Arrive, navVars, UrlFollowsPage, Pending, Open, GetHash, FullPath
<1>2. CASE Waiting(c) /\ Pending /\ navs[pending].waits = {c}
  <2>1. navs[pending] \in NavSet /\ navs[pending].to # Start
    BY <1>2, PendingType
  <2>2. current' = navs[pending].to /\ ConfirmURL(navs[pending])
    BY <1>2, ArriveConfirms
  <2>3. GetHash' = navs[pending].to
    BY <2>1, <2>2, ConfirmURLShows DEF TypeOK, UrlType
  <2> QED BY <2>1, <2>2, <2>3 DEF UrlFollowsPage, FullPath
<1>3. CASE Waiting(c) /\ ~ (Pending /\ navs[pending].waits = {c})
  <2>1. UNCHANGED <<current, pending, entries, at, unheard>>
    BY <1>3, ArriveConfirms
  <2>2. Pending => Pending'
    <3> SUFFICES ASSUME Pending PROVE Pending'
      OBVIOUS
    <3>1. navs'[pending].waits = navs[pending].waits \ {c} /\ navs[pending].waits # {}
      BY <1>3, PendingType, ArriveNavs DEF Pending, Open
    <3>2. navs'[pending].waits # {}
      BY <1>3, <3>1
    <3> QED BY <2>1, <3>2 DEF Pending, Open
  <2> QED BY <2>1, <2>2 DEF UrlFollowsPage, GetHash, FullPath
<1> QED BY <1>1, <1>2, <1>3

LEMMA FailFollows ==
    ASSUME TypeOK, UrlFollowsPage, NEW c \in Chunks, NEW late \in BOOLEAN, Fail(c, late)
    PROVE  UrlFollowsPage'
<1>1. CASE UNCHANGED navVars
  BY <1>1 DEF navVars, UrlFollowsPage, Pending, Open, GetHash, FullPath
<1>2. CASE EnsureURL(current, TRUE) /\ UNCHANGED current
  BY <1>2, EnsureURLShows DEF TypeOK, UrlType, Routes, UrlFollowsPage, FullPath
<1> QED BY <1>1, <1>2 DEF Fail

\* For any pages, records and order in which chunks arrive, fail and are retried,
\* the address bar shows the page's URL when no navigation is pending.
THEOREM UrlFollows == Spec => []UrlFollowsPage
<1>1. Init => UrlFollowsPage
  <2> SUFFICES ASSUME Init PROVE UrlFollowsPage
    OBVIOUS
  <2>1. PICK p \in Pages :
           /\ GetHash = p
           /\ navs[1] = [to |-> p, way |-> "first", waits |-> Activated(Start, p)]
           /\ current = IF Activated(Start, p) = {} THEN p ELSE Start
           /\ pending = IF Activated(Start, p) = {} THEN 0 ELSE 1
    BY InitOpens
  <2>2. CASE Activated(Start, p) = {}
    BY <2>1, <2>2, NavigationAssumption DEF UrlFollowsPage, FullPath
  <2>3. CASE Activated(Start, p) # {}
    BY <2>1, <2>3 DEF UrlFollowsPage, Pending, Open
  <2> QED BY <2>2, <2>3
<1>2. TypeOK /\ UrlFollowsPage /\ [Next]_vars => UrlFollowsPage'
  <2> SUFFICES ASSUME TypeOK, UrlFollowsPage, [Next]_vars
               PROVE  UrlFollowsPage'
    OBVIOUS
  <2>1. ASSUME NEW p \in Pages, Push(p)
        PROVE  UrlFollowsPage'
    <3>1. CASE NothingBegins /\ GetHash' = FullPath(current)
      BY <3>1 DEF NothingBegins, UrlFollowsPage, FullPath
    <3>2. CASE Begin(p, "push") /\ (Missing(p) = {} => GetHash' = p)
      <4>1. "push" \in Ways /\ FullPath(p) = p
        BY NavigationAssumption DEF Ways, FullPath
      <4>2. Pending' \/ (Missing(p) = {} /\ current' = p)
        BY <3>2, <4>1, BeginPends
      <4> QED BY <3>2, <4>1, <4>2 DEF UrlFollowsPage, FullPath
    <3> QED BY <2>1, <3>1, <3>2, PushShows
  <2>2. ASSUME NEW p \in Pages, TypeHash(p)
        PROVE  UrlFollowsPage'
    BY <2>2, TypeHashMoves, MoveToFollows
  <2>3. ASSUME NEW p \in Pages, TypeBareHash(p)
        PROVE  UrlFollowsPage'
    BY <2>3, TypeBareHashShows DEF UrlFollowsPage
  <2>4. ASSUME NEW i \in DOMAIN entries, BackOrForward(i)
        PROVE  UrlFollowsPage'
    BY <2>4, BackOrForwardMoves, MoveToFollows
  <2>5. ASSUME NEW c \in Chunks, NEW late \in BOOLEAN, Arrive(c) \/ Fail(c, late)
        PROVE  UrlFollowsPage'
    BY <2>5, ArriveFollows, FailFollows
  <2>6. CASE UNCHANGED vars
    BY <2>6 DEF vars, navVars, UrlFollowsPage, Pending, Open, GetHash, FullPath
  <2> QED BY <2>1, <2>2, <2>3, <2>4, <2>5, <2>6 DEF Next
<1> QED BY <1>1, <1>2, TypesInvariant, PTL DEF Spec

-----------------------------------------------------------------------------
(* The components of the page shown.                                          *)

\* Inductive: what a navigation still needs it waits for.
RecordsInv ==
    /\ ShownPagesAreLoaded
    /\ \A n \in DOMAIN navs : Open(n) =>
          ToSet(Matched(navs[n].to)) \subseteq resolved \cup navs[n].waits

\* The records a new navigation does not wait for are shown already, or their
\* factories are answered in this turn.
LEMMA BeginRecords ==
    ASSUME TypeOK, RecordsInv, NEW p \in Pages, NEW way \in Ways, Begin(p, way)
    PROVE  RecordsInv'
<1>1. current \in Routes /\ p \in Routes
  BY DEF TypeOK, Routes
<1>2. resolved' = resolved \cup (Factories(p) \ Missing(p))
  BY DEF Begin
<1>3. ToSet(Matched(p)) \subseteq resolved' \cup Missing(p)
  <2>1. ToSet(Matched(p)) \subseteq ToSet(Matched(current)) \cup Activated(current, p)
    BY <1>1, ActivatedType
  <2>2. ToSet(Matched(current)) \subseteq resolved
    BY DEF RecordsInv, ShownPagesAreLoaded
  <2>3. Activated(current, p) \subseteq resolved \cup Factories(p)
    BY DEF Factories
  <2> QED BY <1>2, <2>1, <2>2, <2>3
<1>4. ToSet(Matched(current')) \subseteq resolved'
  <2>1. CASE Missing(p) = {} /\ current' = p
    BY <1>3, <2>1
  <2>2. CASE current' = current
    <3>1. ToSet(Matched(current)) \subseteq resolved
      BY DEF RecordsInv, ShownPagesAreLoaded
    <3> QED BY <1>2, <2>2, <3>1
  <2> QED BY <2>1, <2>2, BeginPends
<1>5. /\ DOMAIN navs = 1..Len(navs) /\ Len(navs) \in Nat
      /\ DOMAIN navs' = 1..(Len(navs) + 1)
      /\ navs'[Len(navs) + 1] = [to |-> p, way |-> way, waits |-> Missing(p)]
      /\ \A n \in DOMAIN navs : navs'[n] = navs[n]
  <2>1. navs' \in Seq(NavSet) /\ Len(navs') = Len(navs) + 1
    BY BeginAdds
  <2>2. DOMAIN navs' = 1..(Len(navs) + 1)
    BY <2>1, LenProperties
  <2> QED BY <2>2, BeginAdds, NavsType DEF TypeOK
<1>6. ASSUME NEW n \in DOMAIN navs', navs'[n].waits # {}
      PROVE  ToSet(Matched(navs'[n].to)) \subseteq resolved' \cup navs'[n].waits
  <2>1. CASE n \in DOMAIN navs
    <3>1. navs'[n] = navs[n]
      BY <1>5, <2>1
    <3>2. ToSet(Matched(navs[n].to)) \subseteq resolved \cup navs[n].waits
      BY <1>6, <2>1, <3>1 DEF RecordsInv, Open
    <3> QED BY <1>2, <3>1, <3>2
  <2>2. CASE n = Len(navs) + 1
    <3>1. navs'[n].to = p /\ navs'[n].waits = Missing(p)
      BY <1>5, <2>2
    <3> QED BY <1>3, <3>1
  <2> QED BY <1>5, <2>1, <2>2
<1> QED BY <1>4, <1>6 DEF RecordsInv, ShownPagesAreLoaded, Open, Matched

LEMMA ArriveRecords ==
    ASSUME TypeOK, RecordsInv, NEW c \in Chunks, Arrive(c), Waiting(c)
    PROVE  RecordsInv'
<1>1. resolved' = resolved \cup {c}
  BY DEF Arrive
<1>2. /\ DOMAIN navs' = DOMAIN navs
      /\ \A n \in DOMAIN navs : navs'[n].to = navs[n].to /\ navs'[n].waits = navs[n].waits \ {c}
  BY ArriveNavs
<1>3. ASSUME NEW n \in DOMAIN navs, navs'[n].waits # {}
      PROVE  ToSet(Matched(navs'[n].to)) \subseteq resolved' \cup navs'[n].waits
  <2>1. navs'[n].to = navs[n].to /\ navs'[n].waits = navs[n].waits \ {c}
    BY <1>2
  <2>2. navs[n].waits # {}
    BY <1>3, <2>1
  <2>3. ToSet(Matched(navs[n].to)) \subseteq resolved \cup navs[n].waits
    BY <2>2 DEF RecordsInv, Open
  <2> QED BY <1>1, <2>1, <2>3
<1>4. ToSet(Matched(current')) \subseteq resolved'
  <2>1. CASE Pending /\ navs[pending].waits = {c} /\ current' = navs[pending].to
    <3>1. ToSet(Matched(navs[pending].to)) \subseteq resolved \cup navs[pending].waits
      BY <2>1, PendingType DEF RecordsInv, Pending
    <3> QED BY <1>1, <2>1, <3>1
  <2>2. CASE current' = current
    <3>1. ToSet(Matched(current)) \subseteq resolved
      BY DEF RecordsInv, ShownPagesAreLoaded
    <3> QED BY <1>1, <2>2, <3>1
  <2> QED BY <2>1, <2>2, ArriveConfirms
<1> QED BY <1>2, <1>3, <1>4 DEF RecordsInv, ShownPagesAreLoaded, Open, Matched

LEMMA FailRecords ==
    ASSUME TypeOK, RecordsInv, NEW c \in Chunks, NEW late \in BOOLEAN, Fail(c, late), Waiting(c)
    PROVE  RecordsInv'
<1>1. resolved' = resolved /\ current' = current
  BY DEF Fail, navVars
<1>2. /\ DOMAIN navs' = DOMAIN navs
      /\ \A n \in DOMAIN navs : /\ navs'[n].to = navs[n].to
                                /\ navs'[n].waits = IF c \in navs[n].waits THEN {}
                                                    ELSE navs[n].waits
  BY FailNavs
<1>3. ASSUME NEW n \in DOMAIN navs, navs'[n].waits # {}
      PROVE  ToSet(Matched(navs'[n].to)) \subseteq resolved' \cup navs'[n].waits
  <2>1. navs'[n].to = navs[n].to /\ navs'[n].waits = navs[n].waits
    BY <1>2, <1>3
  <2> QED BY <1>1, <1>3, <2>1 DEF RecordsInv, Open
<1> QED BY <1>1, <1>2, <1>3 DEF RecordsInv, ShownPagesAreLoaded, Open, Matched

\* For any route table, a page is shown only when the components of all its
\* records have arrived, in whatever order the chunks of it and of the
\* navigations it overtook did.
THEOREM ShownAreLoaded == Spec => []ShownPagesAreLoaded
<1>1. Init => RecordsInv
  <2> SUFFICES ASSUME Init PROVE RecordsInv
    OBVIOUS
  <2>1. PICK p \in Pages :
           /\ DOMAIN navs = {1}
           /\ navs[1] = [to |-> p, way |-> "first", waits |-> Activated(Start, p)]
           /\ ToSet(Matched(p)) \subseteq Activated(Start, p)
           /\ current = IF Activated(Start, p) = {} THEN p ELSE Start
           /\ resolved = {}
    BY InitOpens
  <2>2. navs[1].to = p /\ navs[1].waits = Activated(Start, p)
    BY <2>1
  <2>3. ToSet(Matched(Start)) = {}
    BY DEF Matched, ToSet
  <2>4. ShownPagesAreLoaded
    BY <2>1, <2>3 DEF ShownPagesAreLoaded
  <2> QED BY <2>1, <2>2, <2>4 DEF RecordsInv
<1>2. TypeOK /\ RecordsInv /\ [Next]_vars => RecordsInv'
  <2> SUFFICES ASSUME TypeOK, RecordsInv, [Next]_vars
               PROVE  RecordsInv'
    OBVIOUS
  <2>1. ASSUME UNCHANGED <<current, navs, resolved>>
        PROVE  RecordsInv'
    BY <2>1 DEF RecordsInv, ShownPagesAreLoaded, Open, Matched
  <2>2. ASSUME NothingBegins
        PROVE  RecordsInv'
    BY <2>1, <2>2 DEF NothingBegins
  <2>3. ASSUME NEW urls \in Seq(Pages), NEW i \in 1..Len(urls), MoveTo(urls, i)
        PROVE  RecordsInv'
    <3>1. urls[i] \in Pages /\ "pop" \in Ways
      BY ElementOfSeq DEF Ways
    <3> QED BY <2>2, <2>3, <3>1, BeginRecords DEF MoveTo
  <2>4. ASSUME NEW p \in Pages, Push(p)
        PROVE  RecordsInv'
    <3>1. "push" \in Ways
      BY DEF Ways
    <3> QED BY <2>2, <2>4, <3>1, PushShows, BeginRecords
  <2>5. ASSUME NEW p \in Pages, TypeHash(p) \/ TypeBareHash(p)
        PROVE  RecordsInv'
    BY <2>2, <2>3, <2>5, TypeHashMoves, TypeBareHashShows
  <2>6. ASSUME NEW i \in DOMAIN entries, BackOrForward(i)
        PROVE  RecordsInv'
    BY <2>3, <2>6, BackOrForwardMoves
  <2>7. ASSUME NEW c \in Chunks, NEW late \in BOOLEAN, Arrive(c) \/ Fail(c, late)
        PROVE  RecordsInv'
    <3>1. CASE ~ Waiting(c)
      BY <2>1, <2>7, <3>1 DEF Arrive, Fail, navVars
    <3> QED BY <2>7, <3>1, ArriveRecords, FailRecords
  <2>8. CASE UNCHANGED vars
    BY <2>1, <2>8 DEF vars, navVars
  <2> QED BY <2>4, <2>5, <2>6, <2>7, <2>8 DEF Next
<1>3. RecordsInv => ShownPagesAreLoaded
  BY DEF RecordsInv
<1> QED BY <1>1, <1>2, <1>3, TypesInvariant, PTL DEF Spec

-----------------------------------------------------------------------------
(* Navigation implements Location.                                            *)

Wish == IF Pending THEN navs[pending].to ELSE Start
Stutters == current' = current /\ Wish' = Wish /\ Len(navs') = Len(navs)

LEMMA UnchangedStutters ==
    ASSUME UNCHANGED <<current, navs, pending>>
    PROVE  Stutters
BY DEF Stutters, Wish, Pending, Open

LEMMA BeginAsks ==
    ASSUME TypeOK, NEW p \in Pages, NEW way \in Ways, Begin(p, way)
    PROVE  Tab!LocNext
<1>1. Len(navs') = Len(navs) + 1
  BY BeginAdds
<1>2. \/ current' = p /\ Wish' = Start
      \/ current' = current /\ Wish' = p
  BY BeginPends DEF Wish
<1>3. Tab!Ask(p)
  BY <1>1, <1>2 DEF Tab!Ask, Wish
<1> QED BY <1>3 DEF Tab!LocNext

LEMMA MoveToAsks ==
    ASSUME TypeOK, NEW urls \in Seq(Pages), NEW i \in 1..Len(urls), MoveTo(urls, i)
    PROVE  Tab!LocNext \/ Stutters
<1>1. urls[i] \in Pages /\ "pop" \in Ways
  BY ElementOfSeq DEF Ways
<1>2. CASE NothingBegins
  BY <1>2, UnchangedStutters DEF NothingBegins
<1>3. CASE Begin(urls[i], "pop")
  BY <1>1, <1>3, BeginAsks
<1> QED BY <1>2, <1>3 DEF MoveTo

\* A chunk's arrival shows what was asked for last, or nothing.
LEMMA ArriveShows ==
    ASSUME TypeOK, NEW c \in Chunks, Arrive(c)
    PROVE  Tab!LocNext \/ Stutters
<1>1. CASE ~ Waiting(c)
  <2>1. UNCHANGED <<current, navs, pending>>
    BY <1>1 DEF Arrive, navVars
  <2> QED BY <2>1, UnchangedStutters
<1>2. CASE Waiting(c) /\ Pending /\ navs[pending].waits = {c}
  <2>1. Wish = navs[pending].to /\ Wish # Start
    BY <1>2, PendingType DEF Wish
  <2>2. current' = navs[pending].to /\ pending' = 0 /\ Len(navs') = Len(navs)
    BY <1>2, ArriveConfirms, ArriveNavs
  <2>3. Wish' = Start
    BY <2>2 DEF Wish, Pending
  <2>4. Tab!Arrive
    BY <2>1, <2>2, <2>3 DEF Tab!Arrive, Wish
  <2> QED BY <2>4 DEF Tab!LocNext
<1>3. CASE Waiting(c) /\ ~ (Pending /\ navs[pending].waits = {c})
  <2>1. UNCHANGED <<current, pending>>
    BY <1>3, ArriveConfirms
  <2>2. /\ Len(navs') = Len(navs)
        /\ \A n \in DOMAIN navs : navs'[n].to = navs[n].to /\ navs'[n].waits = navs[n].waits \ {c}
    BY <1>3, ArriveNavs
  <2>3. CASE pending = 0
    BY <2>1, <2>2, <2>3 DEF Stutters, Wish, Pending
  <2>4. CASE pending # 0
    <3>1. pending \in DOMAIN navs
      BY <2>4, NavsType DEF TypeOK
    <3>2. navs'[pending].to = navs[pending].to /\ navs'[pending].waits = navs[pending].waits \ {c}
      BY <2>2, <3>1
    <3>3. Pending <=> Pending'
      BY <1>3, <2>1, <2>4, <3>2 DEF Pending, Open
    <3> QED BY <2>1, <2>2, <3>2, <3>3 DEF Stutters, Wish
  <2> QED BY <2>3, <2>4
<1> QED BY <1>1, <1>2, <1>3

\* A chunk's failure gives up what was asked for last, or nothing.
LEMMA FailGivesUp ==
    ASSUME TypeOK, NEW c \in Chunks, NEW late \in BOOLEAN, Fail(c, late)
    PROVE  Tab!LocNext \/ Stutters
<1>1. CASE UNCHANGED navVars
  <2>1. UNCHANGED <<current, navs, pending>>
    BY <1>1 DEF navVars
  <2> QED BY <2>1, UnchangedStutters
<1>2. CASE ~ UNCHANGED navVars
  <2>1. Waiting(c) /\ UNCHANGED <<current, pending>>
    BY <1>2 DEF Fail
  <2>2. /\ Len(navs') = Len(navs)
        /\ \A n \in DOMAIN navs : /\ navs'[n].to = navs[n].to
                                  /\ navs'[n].waits = IF c \in navs[n].waits THEN {}
                                                      ELSE navs[n].waits
    BY <2>1, FailNavs
  <2>3. CASE ~ Pending
    <3>1. ~ Pending'
      <4>1. CASE pending = 0
        BY <2>1, <4>1 DEF Pending
      <4>2. CASE pending # 0
        <5>1. pending \in DOMAIN navs
          BY <4>2, NavsType DEF TypeOK
        <5>2. navs[pending].waits = {} /\ navs'[pending].waits = {}
          BY <2>2, <2>3, <4>2, <5>1 DEF Pending, Open
        <5> QED BY <2>1, <5>2 DEF Pending, Open
      <4> QED BY <4>1, <4>2
    <3> QED BY <2>1, <2>2, <2>3, <3>1 DEF Stutters, Wish
  <2>4. CASE Pending /\ c \notin navs[pending].waits
    <3>1. pending \in DOMAIN navs
      BY <2>4, PendingType
    <3>2. navs'[pending].to = navs[pending].to /\ navs'[pending].waits = navs[pending].waits
      BY <2>2, <2>4, <3>1
    <3>3. Pending'
      BY <2>1, <2>4, <3>2 DEF Pending, Open
    <3> QED BY <2>1, <2>2, <2>4, <3>2, <3>3 DEF Stutters, Wish
  <2>5. CASE Pending /\ c \in navs[pending].waits
    <3>1. pending \in DOMAIN navs /\ Wish # Start
      BY <2>5, PendingType DEF Wish
    <3>2. navs'[pending].waits = {}
      BY <2>2, <2>5, <3>1
    <3>3. Wish' = Start
      BY <2>1, <3>2 DEF Wish, Pending, Open
    <3>4. Tab!GiveUp
      BY <2>1, <2>2, <3>1, <3>3 DEF Tab!GiveUp, Wish
    <3> QED BY <3>4 DEF Tab!LocNext
  <2> QED BY <2>3, <2>4, <2>5
<1> QED BY <1>1, <1>2

\* The pages shown are those asked for, each the one asked for last, for any
\* route table and any number of navigations that overlap, fail and are retried.
THEOREM ShowsLastAsked == Spec => ImplementsLocation
<1>1. Init => Tab!LocInit
  <2> SUFFICES ASSUME Init PROVE Tab!LocInit
    OBVIOUS
  <2>1. PICK p \in Pages :
           /\ Len(navs) = 1
           /\ navs[1] = [to |-> p, way |-> "first", waits |-> Activated(Start, p)]
           /\ current = IF Activated(Start, p) = {} THEN p ELSE Start
           /\ pending = IF Activated(Start, p) = {} THEN 0 ELSE 1
    BY InitOpens
  <2>2. navs[1].to = p /\ navs[1].waits = Activated(Start, p)
    BY <2>1
  <2>3. CASE Activated(Start, p) = {}
    BY <2>1, <2>3 DEF Tab!LocInit, Pending
  <2>4. CASE Activated(Start, p) # {}
    BY <2>1, <2>2, <2>4 DEF Tab!LocInit, Pending, Open
  <2> QED BY <2>3, <2>4
<1>2. TypeOK /\ [Next]_vars => [Tab!LocNext]_(Tab!locVars)
  <2> SUFFICES ASSUME TypeOK, [Next]_vars
               PROVE  Tab!LocNext \/ Stutters
    BY DEF Tab!locVars, Stutters, Wish
  <2>1. ASSUME NEW p \in Pages, Push(p)
        PROVE  Tab!LocNext \/ Stutters
    <3>1. "push" \in Ways
      BY DEF Ways
    <3>2. NothingBegins => Stutters
      BY UnchangedStutters DEF NothingBegins
    <3> QED BY <2>1, <3>1, <3>2, PushShows, BeginAsks
  <2>2. ASSUME NEW p \in Pages, TypeHash(p)
        PROVE  Tab!LocNext \/ Stutters
    BY <2>2, TypeHashMoves, MoveToAsks
  <2>3. ASSUME NEW p \in Pages, TypeBareHash(p)
        PROVE  Stutters
    BY <2>3, TypeBareHashShows, UnchangedStutters DEF NothingBegins
  <2>4. ASSUME NEW i \in DOMAIN entries, BackOrForward(i)
        PROVE  Tab!LocNext \/ Stutters
    BY <2>4, BackOrForwardMoves, MoveToAsks
  <2>5. ASSUME NEW c \in Chunks, NEW late \in BOOLEAN, Arrive(c) \/ Fail(c, late)
        PROVE  Tab!LocNext \/ Stutters
    BY <2>5, ArriveShows, FailGivesUp
  <2>6. CASE UNCHANGED vars
    BY <2>6, UnchangedStutters DEF vars, navVars
  <2> QED BY <2>1, <2>2, <2>3, <2>4, <2>5, <2>6 DEF Next
<1> QED BY <1>1, <1>2, TypesInvariant, PTL DEF Spec, Tab!LocSpec, ImplementsLocation
=============================================================================
