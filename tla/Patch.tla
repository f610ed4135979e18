--------------------------------- MODULE Patch --------------------------------
(* Vue's updateChildren: how a list a page renders again, such as the rows of *)
(* a table, is brought to the DOM with the elements that are there already.   *)
(* A removed element with a transition stays in the DOM until it has left, so  *)
(* the next renderings meet it.                                               *)
EXTENDS Naturals, Sequences, SequencesExt

CONSTANTS Kinds,       \* what a child can be: [key, tag] records, key None for none
          None,
          MaxChildren, \* bound: children of a list
          MaxPatches   \* bound: renderings after the first

VARIABLES oldCh,   \* vnodes of the last rendering; taken ones are Undefined
          newCh,   \* vnodes of this rendering, with element 0 before they have one
          at,      \* the four indices: os, oe, ns, ne
          dom,     \* elements of the parent, in order
          leaving, \* those that leave
          made,    \* history: the child each element was created for
          patches, \* renderings begun
          phase    \* "idle" or "loop"

vars == <<oldCh, newCh, at, dom, leaving, made, patches, phase>>

Elements == 1..(MaxPatches + 1) * MaxChildren
Undefined == [kind |-> [key |-> None, tag |-> None], elm |-> 0]
Vnode(kind, elm) == [kind |-> kind, elm |-> elm]

\* Keys of one list differ, which this build does not check.  The console's tables
\* set no row-key, so that a key of theirs is the index of a row.
Lists == {s \in BoundedSeq(Kinds, MaxChildren) :
             \A i, j \in DOMAIN s : i # j => s[i].key = None \/ s[i].key # s[j].key}

\* Slip: the key is not compared.
SameVnodeByTag(a, b) == a.kind.tag = b.kind.tag
SameVnode(a, b) == a.kind = b.kind

Vnodes == [kind : Kinds, elm : Elements \cup {0}]

TypeOK ==
    /\ oldCh \in Seq(Vnodes \cup {Undefined}) /\ newCh \in Seq(Vnodes)
    /\ Len(oldCh) <= MaxChildren /\ Len(newCh) <= MaxChildren
    /\ at.os \in 1..at.oe + 1 /\ at.oe \in 0..Len(oldCh)
    /\ at.ns \in 1..at.ne + 1 /\ at.ne \in 0..Len(newCh)
    /\ dom \in Seq(Elements) /\ IsInjective(dom)
    /\ leaving \subseteq ToSet(dom)
    /\ made \in [Elements -> Kinds \cup {Undefined.kind}]
    /\ patches \in 0..MaxPatches /\ phase \in {"idle", "loop"}

\* createChildren.
Init ==
    /\ \E list \in Lists :
          /\ newCh = [i \in DOMAIN list |-> Vnode(list[i], i)]
          /\ dom = [i \in DOMAIN list |-> i]
          /\ made = [e \in Elements |-> IF e \in DOMAIN list THEN list[e] ELSE Undefined.kind]
    /\ oldCh = <<>> /\ leaving = {} /\ patches = 0 /\ phase = "idle"
    /\ at = [os |-> 1, oe |-> 0, ns |-> 1, ne |-> 0]

-----------------------------------------------------------------------------
\* The DOM: ref 0 is null, and insertBefore takes the element from its place.
Position(s, e) == CHOOSE k \in DOMAIN s : s[k] = e
Without(s, e) == IF e \in ToSet(s) THEN RemoveAt(s, Position(s, e)) ELSE s
Place(elm, ref) ==
    LET rest == Without(dom, elm)
    IN  dom' = InsertAt(rest, IF ref = 0 THEN Len(rest) + 1 ELSE Position(rest, ref), elm)

NextSibling(elm) ==
    LET k == Position(dom, elm)
    IN  IF k = Len(dom) THEN 0 ELSE dom[k + 1]

\* createElm of newCh[n], inserted before ref: a new element, numbered by its
\* rendering and its child.
Fresh(n) == patches * MaxChildren + n
CreateElm(n, ref) ==
    /\ newCh' = [newCh EXCEPT ![n].elm = Fresh(n)]
    /\ made' = [made EXCEPT ![Fresh(n)] = newCh[n].kind]
    /\ Place(Fresh(n), ref)

\* patchVnode: newCh[n] takes the element of oldCh[o].
PatchVnode(o, n) ==
    /\ newCh' = [newCh EXCEPT ![n].elm = oldCh[o].elm]
    /\ UNCHANGED made

OldStart == oldCh[at.os]
OldEnd == oldCh[at.oe]
NewStart == newCh[at.ns]
NewEnd == newCh[at.ne]
Undef(v) == v.elm = 0
Move(os, oe, ns, ne) ==
    at' = [os |-> at.os + os, oe |-> at.oe - oe, ns |-> at.ns + ns, ne |-> at.ne - ne]

-----------------------------------------------------------------------------
\* A rendering begins: the vnodes of the last one are the old children.
Render(list) ==
    /\ phase = "idle" /\ patches < MaxPatches
    /\ oldCh' = newCh
    /\ newCh' = [i \in DOMAIN list |-> Vnode(list[i], 0)]
    /\ at' = [os |-> 1, oe |-> Len(newCh), ns |-> 1, ne |-> Len(list)]
    /\ patches' = patches + 1 /\ phase' = "loop"
    /\ UNCHANGED <<dom, leaving, made>>

\* The loop of updateChildren: the first of its branches that applies.
Looping == phase = "loop" /\ at.os <= at.oe /\ at.ns <= at.ne
Branch ==
    IF Undef(OldStart) THEN "skipStart" ELSE IF Undef(OldEnd) THEN "skipEnd"
    ELSE IF SameVnode(OldStart, NewStart) THEN "start"
    ELSE IF SameVnode(OldEnd, NewEnd) THEN "end"
    ELSE IF SameVnode(OldStart, NewEnd) THEN "right"
    ELSE IF SameVnode(OldEnd, NewStart) THEN "left" ELSE "search"

Skip ==
    /\ Looping /\ Branch \in {"skipStart", "skipEnd"}
    /\ IF Branch = "skipStart" THEN Move(1, 0, 0, 0) ELSE Move(0, 1, 0, 0)
    /\ UNCHANGED <<oldCh, newCh, dom, made>>

SameEnds ==
    /\ Looping
    /\ \/ Branch = "start" /\ PatchVnode(at.os, at.ns) /\ Move(1, 0, 1, 0)
       \/ Branch = "end" /\ PatchVnode(at.oe, at.ne) /\ Move(0, 1, 0, 1)
    /\ UNCHANGED <<oldCh, dom>>

MovedRight ==
    /\ Looping /\ Branch = "right"
    /\ PatchVnode(at.os, at.ne)
    /\ Place(OldStart.elm, NextSibling(OldEnd.elm))
    /\ Move(1, 0, 0, 1)
    /\ UNCHANGED oldCh
MovedLeft ==
    /\ Looping /\ Branch = "left"
    /\ PatchVnode(at.oe, at.ns)
    /\ Place(OldEnd.elm, OldStart.elm)
    /\ Move(0, 1, 1, 0)
    /\ UNCHANGED oldCh

\* oldKeyToIdx for a child with a key, findIdxInOld for one without: 0 is none.
IdxInOld ==
    LET keyed == NewStart.kind.key # None
        found == {i \in at.os..at.oe : ~Undef(oldCh[i]) /\
                     IF keyed THEN oldCh[i].kind.key = NewStart.kind.key
                     ELSE i < at.oe /\ SameVnode(NewStart, oldCh[i])}
    IN  IF found = {} THEN 0
        ELSE CHOOSE i \in found : \A j \in found : IF keyed THEN j <= i ELSE i <= j
\* Slip: the element found is not marked as taken.
SearchForgotten ==
    /\ Looping /\ Branch = "search"
    /\ IF IdxInOld # 0 /\ SameVnode(oldCh[IdxInOld], NewStart)
       THEN /\ PatchVnode(IdxInOld, at.ns)
            /\ Place(oldCh[IdxInOld].elm, OldStart.elm)
       ELSE CreateElm(at.ns, OldStart.elm)
    /\ UNCHANGED oldCh
    /\ Move(0, 0, 1, 0)
Search ==
    /\ Looping /\ Branch = "search"
    /\ IF IdxInOld # 0 /\ SameVnode(oldCh[IdxInOld], NewStart)
       THEN /\ PatchVnode(IdxInOld, at.ns)
            /\ oldCh' = [oldCh EXCEPT ![IdxInOld] = Undefined]
            /\ Place(oldCh[IdxInOld].elm, OldStart.elm)
       ELSE CreateElm(at.ns, OldStart.elm) /\ UNCHANGED oldCh
    /\ Move(0, 0, 1, 0)

\* addVnodes of the new children left over, before the one that follows them.
AddVnode ==
    /\ phase = "loop" /\ at.os > at.oe /\ at.ns <= at.ne
    /\ CreateElm(at.ns, IF at.ne < Len(newCh) THEN newCh[at.ne + 1].elm ELSE 0)
    /\ Move(0, 0, 1, 0)
    /\ UNCHANGED oldCh

Loop == /\ Skip \/ SameEnds \/ MovedRight \/ MovedLeft \/ Search \/ AddVnode
        /\ UNCHANGED <<leaving, patches, phase>>

\* removeVnodes of the old children left over: each leaves at once, or when its
\* transition has ended.
RemoveVnode ==
    /\ phase = "loop" /\ at.ns > at.ne /\ at.os <= at.oe
    /\ LET e == OldStart.elm
       IN  IF e = 0 THEN UNCHANGED <<dom, leaving>>
           ELSE \/ dom' = Without(dom, e) /\ UNCHANGED leaving
                \/ leaving' = leaving \cup {e} /\ UNCHANGED dom
    /\ Move(1, 0, 0, 0)
    /\ UNCHANGED <<oldCh, newCh, made, patches, phase>>

EndPatch ==
    /\ phase = "loop" /\ at.os > at.oe /\ at.ns > at.ne
    /\ phase' = "idle" /\ oldCh' = <<>>
    /\ at' = [os |-> 1, oe |-> 0, ns |-> 1, ne |-> 0]
    /\ UNCHANGED <<newCh, dom, leaving, made, patches>>

\* A transition ends, between two turns.
Left(e) ==
    /\ phase = "idle" /\ e \in leaving
    /\ leaving' = leaving \ {e}
    /\ dom' = Without(dom, e)
    /\ UNCHANGED <<oldCh, newCh, at, made, patches, phase>>

Next ==
    \/ \E list \in Lists : Render(list)
    \/ Loop \/ RemoveVnode \/ EndPatch
    \/ \E e \in leaving : Left(e)

Spec == Init /\ [][Next]_vars

-----------------------------------------------------------------------------
Before(s, e, f) == \E i, j \in DOMAIN s : i < j /\ s[i] = e /\ s[j] = f

(* After every rendering the parent shows the children of the last list, in   *)
(* their order, among elements that are leaving: whatever was moved, removed   *)
(* or still on its way out.                                                   *)
ShownAsRendered ==
    phase = "idle" =>
        /\ ToSet(dom) \ leaving = {newCh[i].elm : i \in DOMAIN newCh}
        /\ \A i, j \in DOMAIN newCh : i < j => Before(dom, newCh[i].elm, newCh[j].elm)

(* A child with a key keeps its element, with what was typed or ticked in it, *)
(* as long as it stays in the list, and never gets another child's.           *)
KeysKeepElements ==
    /\ \A i \in DOMAIN newCh : newCh[i].elm # 0 => made[newCh[i].elm] = newCh[i].kind
    /\ phase = "loop" =>
          \A i \in DOMAIN oldCh, j \in DOMAIN newCh :
              /\ newCh[j].elm # 0 /\ ~Undef(oldCh[i])
              /\ newCh[j].kind = oldCh[i].kind /\ newCh[j].kind.key # None
              => newCh[j].elm = oldCh[i].elm
=============================================================================
