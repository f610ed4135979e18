------------------------------ MODULE RouteTable ------------------------------
(* vue-router's matcher with the console's routes: how the nested table is    *)
(* flattened, how a link is resolved against the page it stands on, and which *)
(* components the address then shows.  A path is split at its slashes: "/" is *)
(* <<"", "">> and "/manage" is <<"", "manage">>.                              *)
EXTENDS Naturals, Sequences, SequencesExt

CONSTANTS Routes, \* the table: [path, component, children] records, in order
          MaxDepth, \* how deep its routes nest
          Links,  \* the links of the pages: [on, to, shows] records
          Typed   \* bound: the addresses a user types

VARIABLES path,    \* the path of the current route
          matched, \* the components of its records, outermost first
          came     \* history: how the route was reached: the path left, and the
                   \* components the link names, or <<>> for a typed address

vars == <<path, matched, came>>

Slash == <<"", "">>
Absolute(p) == Len(p) > 1 /\ p[1] = ""

-----------------------------------------------------------------------------
\* cleanPath drops empty segments inside; normalizePath, of a child too.
WithoutSlash(p) == IF Len(p) > 1 /\ Last(p) = "" THEN Front(p) ELSE p
NormalizePath(p, parent) ==
    LET q == WithoutSlash(p)
    IN  IF Absolute(q) \/ parent = <<>> THEN q ELSE parent \o q

\* addRouteRecord adds the children of a route, and theirs, before the route; of
\* two records with one path the first stays.
Entry(route, parentPath, above) ==
    [path |-> NormalizePath(route.path, parentPath),
     components |-> Append(above, route.component), children |-> route.children]
AddRouteRecord(r) ==
    [i \in DOMAIN r.children |-> Entry(r.children[i], r.path, r.components)]
        \o <<[r EXCEPT !.children = <<>>]>>
Records[depth \in 0..MaxDepth] ==
    IF depth = 0 THEN [i \in DOMAIN Routes |-> Entry(Routes[i], <<>>, <<>>)]
    ELSE LET above == Records[depth - 1]
         IN  FlattenSeq([i \in DOMAIN above |-> AddRouteRecord(above[i])])
Table ==
    LET all == Records[MaxDepth]
    IN  SelectSeq(all, LAMBDA r : r = all[CHOOSE i \in DOMAIN all :
                           /\ all[i].path = r.path
                           /\ \A j \in 1..i - 1 : all[j].path # r.path])

\* resolvePath: a relative link replaces what follows the last slash of base.
Popped(stack) == IF stack = <<>> THEN stack ELSE Front(stack)
Walk(stack, segments) ==
    FoldLeft(LAMBDA s, x : IF x = ".." THEN Popped(s) ELSE IF x = "." THEN s ELSE Append(s, x),
             stack, segments)
LeadingSlash(stack) == IF stack # <<>> /\ stack[1] = "" THEN stack ELSE <<"">> \o stack
\* Slip: base is taken whole.
ResolveAppending(link, base) ==
    IF Absolute(link) THEN link ELSE LeadingSlash(Walk(base, link))
ResolvePath(link, base) ==
    IF Absolute(link) THEN link ELSE LeadingSlash(Walk(Popped(base), link))

\* matchRoute: the expressions are not strict about a slash at the end.
Hits(p) == SelectSeq(Table, LAMBDA r : WithoutSlash(r.path) = WithoutSlash(p))
\* Slip: the records innermost first.
MatchReversed(p) == IF Hits(p) = <<>> THEN <<>> ELSE Reverse(Hits(p)[1].components)
Match(p) == IF Hits(p) = <<>> THEN <<>> ELSE Hits(p)[1].components

-----------------------------------------------------------------------------
Show(p) == path' = p /\ matched' = Match(p)

Init ==
    /\ path = Slash /\ matched = <<>>
    /\ came = [from |-> Slash, shows |-> <<>>]

\* ensureSlash: an address typed without the slash only gets one in the URL.
EnsureSlash(p) == Absolute(p)
TypeAddress(p) ==
    /\ EnsureSlash(p) /\ Show(p)
    /\ came' = [from |-> path, shows |-> <<>>]

Follow(link) ==
    /\ Contains(matched, link.on)
    /\ Show(ResolvePath(link.to, path))
    /\ came' = [from |-> path, shows |-> link.shows]

Next ==
    \/ \E p \in Typed : TypeAddress(p)
    \/ \E link \in Links : Follow(link)
Spec == Init /\ [][Next]_vars

-----------------------------------------------------------------------------
TypeOK ==
    /\ Absolute(path)
    /\ \A i \in DOMAIN matched : \E r \in {Table[j] : j \in DOMAIN Table} :
          matched = r.components

(* Every link of the console, the relative ones of the menu and of the login   *)
(* page too, shows the page it names, from every page that was reached at an   *)
(* address of the table; only from "/manage/", with its slash at the end, the  *)
(* menu leads to addresses no route matches.                                  *)
LinksArrive ==
    came.shows # <<>> /\ (Last(came.from) # "" \/ came.from = Slash) => matched = came.shows
=============================================================================
