------------------------------ MODULE Transition ------------------------------
(* Vue's <transition>: how an element of a page comes and goes.  A rendering  *)
(* starts it; its classes change two frames later; the browser's event or a   *)
(* timer ends it.  Meanwhile the page may be rendered again, the other way     *)
(* round or with another child, and the callbacks of what was cancelled are    *)
(* still to come.                                                              *)
EXTENDS Naturals, Sequences

CONSTANTS Keys,       \* the children a page puts in the transition
          None,
          MaxSwitches \* bound: changes of what is wanted

VARIABLES mode,     \* "show": one child under v-show; else the children replace
                    \* each other, in one of the modes of transitionProps
          want,     \* the child in the slot, or None
          switches,
          shown,    \* the element of the last rendering, 0 for none
          run       \* what is under way: see TypeOK

vars == <<mode, want, switches, shown, run>>

Classes == {"enter", "leave"} \X {"start", "active", "to"}

\* el: the elements made so far, on while in the page (displayed, under v-show);
\* cbs: the callbacks made so far, each once(): hook is the delayed leave an
\* enter lets go, or 1 for a leave after which the component renders again.
TypeOK ==
    /\ mode \in {"show", "default", "out-in", "in-out"}
    /\ want \in Keys \cup {None} /\ shown \in 0..Len(run.el)
    /\ \A e \in DOMAIN run.el :
          /\ run.el[e].key \in Keys /\ run.el[e].on \in BOOLEAN /\ run.el[e].classes \subseteq Classes
          /\ run.el[e]._enterCb \in 0..Len(run.cbs) /\ run.el[e]._leaveCb \in 0..Len(run.cbs)
    /\ \A n \in DOMAIN run.cbs : run.cbs[n].el \in DOMAIN run.el
    /\ run._pending \in [Keys -> 0..Len(run.el)]
    /\ run.ends \subseteq DOMAIN run.cbs /\ \A i \in DOMAIN run.frames : run.frames[i] \in DOMAIN run.cbs
    /\ run._leaving \in BOOLEAN /\ run.queued \in BOOLEAN

-----------------------------------------------------------------------------
\* The callbacks.
Drop(v, n, parts) ==
    [v EXCEPT !.el[v.cbs[n].el].classes = @ \ ({v.cbs[n].kind} \X parts)]
Begin(v, n) ==
    [v EXCEPT !.el[v.cbs[n].el].classes = @ \cup ({v.cbs[n].kind} \X {"start", "active"}),
              !.frames = Append(@, n)]

\* performLeave, at once or when the other child has entered.
PerformLeave(v, n) ==
    LET e == v.cbs[n].el
    IN  IF v.cbs[n].cancelled THEN v
        ELSE Begin([v EXCEPT !._pending[v.el[e].key] = IF mode = "show" THEN @ ELSE e], n)

Called(v, n) ==
    Drop([v EXCEPT !.cbs[n].called = TRUE], n,
         IF v.cbs[n].cancelled THEN {"start", "active", "to"} ELSE {"active", "to"})

\* Slip: only a finished enter lets the other child go.
EnterCbIfFinished(v, n) ==
    LET w == [Called(v, n) EXCEPT !.el[v.cbs[n].el]._enterCb = 0]
    IN  IF v.cbs[n].called THEN v
        ELSE IF v.cbs[n].hook = 0 \/ v.cbs[n].cancelled THEN w ELSE PerformLeave(w, v.cbs[n].hook)
EnterCb(v, n) ==
    LET w == [Called(v, n) EXCEPT !.el[v.cbs[n].el]._enterCb = 0]
    IN  IF v.cbs[n].called THEN v
        ELSE IF v.cbs[n].hook = 0 THEN w ELSE PerformLeave(w, v.cbs[n].hook)

LeaveCb(v, n) ==
    LET e == v.cbs[n].el
        w == [Called(v, n) EXCEPT !.el[e]._leaveCb = 0, !._pending[v.el[e].key] = 0]
        again == v.cbs[n].hook = 1
    IN  IF v.cbs[n].called THEN v
        ELSE IF v.cbs[n].cancelled THEN w
        ELSE [w EXCEPT !.el[e].on = FALSE, !._leaving = @ /\ ~again, !.queued = @ \/ again]

Cancel(v, n) == [v EXCEPT !.cbs[n].cancelled = TRUE]
NewCb(e, kind, hook) ==
    [el |-> e, kind |-> kind, hook |-> hook, cancelled |-> FALSE, called |-> FALSE]

-----------------------------------------------------------------------------
\* enter and leave of an element.  Slip: the leave under way is not cancelled.
EnterBeside(v, e) ==
    LET n == Len(v.cbs) + 1
    IN  IF v.el[e]._enterCb # 0 THEN v
        ELSE Begin([v EXCEPT !.cbs = Append(@, NewCb(e, "enter", 0)),
                             !.el[e]._enterCb = n, !.el[e].on = TRUE], n)
Enter(v, e) ==
    LET left == v.el[e]._leaveCb
        a == IF left = 0 THEN v ELSE LeaveCb(Cancel(v, left), left)
        n == Len(a.cbs) + 1
    IN  IF a.el[e]._enterCb # 0 THEN a
        ELSE Begin([a EXCEPT !.cbs = Append(@, NewCb(e, "enter", 0)),
                             !.el[e]._enterCb = n, !.el[e].on = TRUE], n)

\* delay: the enter callback that lets it go, or 0.
Leave(v, e, hook, delay) ==
    LET entered == v.el[e]._enterCb
        a == IF entered = 0 THEN v ELSE EnterCb(Cancel(v, entered), entered)
        n == Len(a.cbs) + 1
        b == [a EXCEPT !.cbs = Append(@, NewCb(e, "leave", hook)), !.el[e]._leaveCb = n]
    IN  IF a.el[e]._leaveCb # 0 THEN a
        ELSE IF delay = 0 THEN PerformLeave(b, n) ELSE [b EXCEPT !.cbs[delay].hook = n]

\* The insert hook of a new element: the one with its key that leaves goes now.
\* Slip: it stays.
InsertBeside(v, e) == v
Insert(v, e) ==
    LET p == v._pending[v.el[e].key]
    IN  IF p # 0 /\ v.el[p]._leaveCb # 0 THEN LeaveCb(v, v.el[p]._leaveCb) ELSE v

-----------------------------------------------------------------------------
\* A page renders: the new child is created, the old one removed, the new one
\* inserted.
Added(v, key) ==
    [v EXCEPT !.el = Append(@, [key |-> key, on |-> FALSE, classes |-> {}, _enterCb |-> 0, _leaveCb |-> 0])]
Rendered == [run EXCEPT !.queued = FALSE]
New == Len(run.el) + 1

Ask(c) ==
    /\ switches < MaxSwitches /\ c # want
    /\ mode = "show" => c \in {None, run.el[1].key}
    /\ want' = c /\ switches' = switches + 1
    /\ run' = [run EXCEPT !.queued = TRUE]
    /\ UNCHANGED <<mode, shown>>

\* The directive v-show: the value has changed or it has not.
Show ==
    /\ run.queued /\ mode = "show"
    /\ shown' = IF want = None THEN 0 ELSE 1
    /\ run' = IF shown' = shown THEN Rendered
              ELSE IF want = None THEN Leave(Rendered, 1, 0, 0) ELSE Enter(Rendered, 1)
    /\ UNCHANGED <<mode, want, switches>>

\* The component: the same child or none again, or a placeholder while _leaving.
Target == IF run._leaving THEN None ELSE want
Same == IF shown = 0 THEN Target = None ELSE run.el[shown].key = Target
Replaces == shown # 0 /\ Target # None /\ ~Same
Rendering == run.queued /\ mode # "show"

RenderSame ==
    /\ Rendering /\ Same
    /\ run' = Rendered
    /\ UNCHANGED <<mode, want, switches, shown>>

RenderNew ==
    /\ Rendering /\ shown = 0 /\ ~Same
    /\ \E v \in {Enter(Added(Rendered, want), New)} : run' = Insert(v, New)
    /\ shown' = New
    /\ UNCHANGED <<mode, want, switches>>

RenderNone ==
    /\ Rendering /\ shown # 0 /\ Target = None
    /\ run' = Leave(Rendered, shown, 0, 0) /\ shown' = 0
    /\ UNCHANGED <<mode, want, switches>>

\* out-in: the old child leaves first, and renders the component again.
RenderOutIn ==
    /\ Rendering /\ Replaces /\ mode = "out-in"
    /\ run' = Leave([Rendered EXCEPT !._leaving = TRUE], shown, 1, 0) /\ shown' = 0
    /\ UNCHANGED <<mode, want, switches>>

\* in-out: the old child leaves when the new one has entered, or was cancelled.
RenderReplaced ==
    /\ Rendering /\ Replaces /\ mode # "out-in"
    /\ \E v \in {Enter(Added(Rendered, want), New)} :
       \E w \in {Leave(v, shown, 0, IF mode = "in-out" THEN v.el[New]._enterCb ELSE 0)} :
          run' = Insert(w, New)
    /\ shown' = New
    /\ UNCHANGED <<mode, want, switches>>

\* nextFrame's callback: a transition that has no duration ends now, the others
\* wait.  Slip: a cancelled one goes on.
FrameAnyway ==
    /\ run.frames # <<>>
    /\ LET n == Head(run.frames)
           v == Drop([run EXCEPT !.frames = Tail(@)], n, {"start"})
       IN  run' = [v EXCEPT !.el[v.cbs[n].el].classes = @ \cup {<<v.cbs[n].kind, "to">>}, !.ends = @ \cup {n}]
    /\ UNCHANGED <<mode, want, switches, shown>>
Cb(v, n) == IF v.cbs[n].kind = "enter" THEN EnterCb(v, n) ELSE LeaveCb(v, n)
Frame ==
    /\ run.frames # <<>>
    /\ LET n == Head(run.frames)
           To(v) == [v EXCEPT !.el[v.cbs[n].el].classes = @ \cup {<<v.cbs[n].kind, "to">>}]
       IN  \E v \in {Drop([run EXCEPT !.frames = Tail(@)], n, {"start"})} :
              IF v.cbs[n].cancelled THEN run' = v
              ELSE \E w \in {To(v)} : run' = Cb(w, n) \/ run' = [w EXCEPT !.ends = @ \cup {n}]
    /\ UNCHANGED <<mode, want, switches, shown>>

\* whenTransitionEnds: the last event, or the timer when they do not come.  An
\* event of a later transition of the element ends the wait of an earlier one.
End(n) ==
    /\ n \in run.ends
    /\ run' = Cb([run EXCEPT !.ends = @ \ {n}], n)
    /\ UNCHANGED <<mode, want, switches, shown>>

\* The first rendering has no transition.
Init ==
    /\ mode \in {"show", "default", "out-in", "in-out"}
    /\ want \in Keys \cup {None} /\ switches = 0
    /\ shown = IF want = None THEN 0 ELSE 1
    /\ run = [el |-> IF want = None /\ mode # "show" THEN <<>>
                     ELSE <<[key |-> IF want = None THEN CHOOSE k \in Keys : TRUE ELSE want,
                             on |-> want # None, classes |-> {}, _enterCb |-> 0, _leaveCb |-> 0]>>,
              cbs |-> <<>>, _pending |-> [k \in Keys |-> 0], frames |-> <<>>, ends |-> {},
              _leaving |-> FALSE, queued |-> FALSE]

Render == Show \/ RenderSame \/ RenderNew \/ RenderNone \/ RenderOutIn \/ RenderReplaced

Next ==
    \/ \E c \in Keys \cup {None} : Ask(c)
    \/ Render \/ Frame
    \/ \E n \in run.ends : End(n)

MaxCallbacks == 2 * MaxSwitches + 1

\* The flush, the frames and the timers run.
Fairness == WF_vars(Render) /\ WF_vars(Frame) /\ \A n \in 1..MaxCallbacks : WF_vars(End(n))
Spec == Init /\ [][Next]_vars
FairSpec == Spec /\ Fairness

-----------------------------------------------------------------------------
(* When nothing is under way the page holds the child that is wanted, none    *)
(* that was replaced, hidden or cancelled on the way, and no class of a        *)
(* transition: whatever was asked for while one ran.                          *)
RestShowsWanted ==
    ~run.queued /\ run.frames = <<>> /\ run.ends = {} =>
        /\ want # None <=> shown # 0
        /\ \A e \in DOMAIN run.el : /\ run.el[e].on <=> e = shown
                                    /\ run.el[e].on => run.el[e].classes = {} /\ run.el[e].key = want

(* Two elements of one child are never in the page together: one that still    *)
(* leaves goes when its child is shown again, in every mode.                   *)
OneOfAKey ==
    \A e, f \in DOMAIN run.el : run.el[e].on /\ run.el[f].on /\ e # f => run.el[e].key # run.el[f].key

(* No callback of a transition, cancelled or late, takes the element of the    *)
(* last rendering from the page.                                               *)
ShownIsNotTaken ==
    [][\A e \in DOMAIN run.el : run.el[e].on /\ ~run'.el[e].on => e # shown']_vars

(* Every transition that was started ends, those delayed or cancelled too: no  *)
(* replaced child stays for ever.                                              *)
EveryTransitionEnds ==
    \A n \in 1..MaxCallbacks :
        (n \in DOMAIN run.cbs) ~> (n \in DOMAIN run.cbs /\ run.cbs[n].called)
=============================================================================
