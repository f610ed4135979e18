------------------------------- MODULE Location -------------------------------
(* What the router promises of a browser tab, whatever the pages' scripts do  *)
(* in between: the page shown is one the user asked for, and the one asked    *)
(* for last (or nothing new, when its scripts cannot be had).  Navigation     *)
(* implements it.                                                             *)
EXTENDS Naturals

CONSTANTS Pages,     \* the routes of router/index.js
          Blank      \* vue-router's START: nothing has been shown yet

VARIABLES page,      \* the page shown
          wish,      \* the page asked for that is still on its way, or Blank
          asked      \* how many times a page has been asked for

locVars == <<page, wish, asked>>

LocInit ==
    /\ asked = 1
    /\ \/ page = Blank /\ wish \in Pages
       \/ page \in Pages /\ wish = Blank

\* A page is asked for; it is shown at once when nothing is missing.
Ask(p) ==
    /\ asked' = asked + 1
    /\ \/ page' = page /\ wish' = p
       \/ page' = p /\ wish' = Blank

\* What was asked for last is shown, or given up.
Arrive == wish # Blank /\ page' = wish /\ wish' = Blank /\ UNCHANGED asked
GiveUp == wish # Blank /\ wish' = Blank /\ UNCHANGED <<page, asked>>

LocNext == Arrive \/ GiveUp \/ \E p \in Pages : Ask(p)

LocSpec == LocInit /\ [][LocNext]_locVars
=============================================================================
