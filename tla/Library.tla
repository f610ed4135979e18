------------------------------- MODULE Library -------------------------------
(* What the console's pages are drawn with, side by side: the patching of a    *)
(* list of children, and transitions.                                          *)
EXTENDS Naturals, Sequences

CONSTANTS MaxChildren, MaxPatches, None, \* Patch
          Keys, MaxSwitches              \* Transition

VARIABLES oldCh, newCh, at, dom, leaving, elements, patches, step,
          mode, want, switches, shown, run

lists == <<oldCh, newCh, at, dom, leaving, elements, patches, step>>
moves == <<mode, want, switches, shown, run>>

ListKinds == {[key |-> "k1", tag |-> "a"], [key |-> "k1", tag |-> "b"],
              [key |-> "k2", tag |-> "a"], [key |-> None, tag |-> "a"]}
Patching == INSTANCE Patch WITH Kinds <- ListKinds, made <- elements, phase <- step

Moving == INSTANCE Transition
ASSUME KeysAssumption == Keys # {} /\ None \notin Keys

ASSUME LibraryBounds == {MaxChildren, MaxPatches, MaxSwitches} \subseteq Nat
=============================================================================
