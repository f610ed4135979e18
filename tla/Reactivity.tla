----------------------------- MODULE Reactivity -----------------------------
(* Vue's change tracking: data properties with their Dep, the watchers that   *)
(* subscribe to what they read, computed properties that cache, and the       *)
(* scheduler that runs the dirty watchers once per turn of the event loop.    *)
(* A watcher is named by its id (creation order).  What its getter reads may  *)
(* depend on the data; what it computes is told apart by what it read.        *)
EXTENDS Naturals, Sequences, TLC

CONSTANTS Cells,     \* data properties
          Values,    \* their values
          Watchers,  \* watcher ids: numbers
          Lazy,      \* the watchers of computed properties, which read cells only
          Reads,     \* watcher -> data -> the cells and computed ones it reads
          Effect,    \* watcher -> data -> data after its callback
          Children,  \* render watcher -> the watchers of the children it draws
          Drawn      \* render watcher -> data -> those of them it draws

Data == [Cells -> Values]

VARIABLES vm,       \* the data; subs: who is told of which cell; the values, the
                    \* dirty ones, the lives and the queue of the watchers
          flushing, waiting, \* the scheduler's flags
          index     \* the entry of the queue being run

vars == <<vm, flushing, waiting, index>>

Lives == {"unborn", "active", "dead"}
TypeOK ==
    /\ vm.data \in Data
    /\ vm.subs \subseteq Cells \X Watchers
    /\ vm.dirty \subseteq Lazy /\ vm.has \subseteq Watchers
    /\ vm.life \in [Watchers -> Lives]
    /\ vm.queue \in Seq(Watchers)
    /\ flushing \in BOOLEAN /\ waiting \in BOOLEAN
    /\ index \in Nat

DepsOf(v, w) == {c \in Cells : <<c, w>> \in v.subs}

\* Watcher.get and cleanupDeps, when the getter read the cells of new and
\* returned val: subscribe to what is new, unsubscribe from what was not read.
\* Slip: what was read first stays.
CollectFirst(v, w, new, val) ==
    [v EXCEPT !.value[w] = val,
              !.subs = IF DepsOf(v, w) = {} THEN @ \cup (new \X {w}) ELSE @]
Collect(v, w, new, val) ==
    [v EXCEPT !.value[w] = val,
              !.subs = {s \in @ : s[2] # w} \cup (new \X {w})]

\* Computed properties read while dirty are evaluated first.
Evaluate(v, ks) ==
    [v EXCEPT !.dirty = @ \ ks,
              !.value = [w \in Watchers |-> IF w \in ks
                  THEN {<<c, v.data[c]>> : c \in Reads[w][v.data]} ELSE @[w]],
              !.subs = {s \in @ : s[2] \notin ks}
                       \cup UNION {Reads[k][v.data] \X {k} : k \in ks}]

\* Watcher.get: cells and computed properties read; the reader of a computed
\* property depends on all that the computed one depends on.
Get(v, w) ==
    LET read == Reads[w][v.data]
        e == Evaluate(v, read \cap v.dirty)
        cells == (read \cap Cells) \cup UNION {DepsOf(e, k) : k \in read \cap Lazy}
    IN  Collect(e, w, cells, {<<c, v.data[c]>> : c \in read \cap Cells}
                             \cup {<<k, e.value[k]>> : k \in read \cap Lazy})

\* Slip: at the end.
InsertLast(q, w) == Append(q, w)

\* queueWatcher during a flush: behind the entries that are done and those
\* with a smaller id.
Insert(q, w) ==
    LET i == CHOOSE j \in index..Len(q) :
                /\ j = index \/ q[j] <= w
                /\ \A l \in (j + 1)..Len(q) : q[l] > w
    IN  SubSeq(q, 1, i) \o <<w>> \o SubSeq(q, i + 1, Len(q))

QueueWatcher(v, w) ==
    IF w \in v.has THEN v
    ELSE [v EXCEPT !.has = @ \cup {w},
                   !.queue = IF flushing THEN Insert(@, w) ELSE Append(@, w)]

Oldest(ws) == CHOOSE x \in ws : \A y \in ws : x <= y
Youngest(ws) == CHOOSE x \in ws : \A y \in ws : x >= y

QueueAll(v, ws) ==
    LET with[s \in SUBSET ws] ==
            IF s = {} THEN v ELSE QueueWatcher(with[s \ {Oldest(s)}], Oldest(s))
    IN  with[ws]

\* Dep.notify for each cell of cs: computed ones become dirty, the others are
\* queued (here the youngest first: the order of a Dep's list is arbitrary).
Notify(v, cs) ==
    LET told == {w \in Watchers : DepsOf(v, w) \cap cs # {}}
    IN  QueueAll([v EXCEPT !.dirty = @ \cup (told \cap Lazy)], told \ Lazy)

\* teardown leaves the queue alone.
Teardown(v, ws) ==
    [v EXCEPT !.life = [w \in Watchers |-> IF w \in ws THEN "dead" ELSE @[w]],
              !.subs = {s \in @ : s[2] \notin ws}]

\* A new Watcher of a child: a lazy one waits, dirty; the others run at once.
Create(v, w) ==
    LET born == [v EXCEPT !.life[w] = "active"]
    IN  IF w \in Lazy THEN [born EXCEPT !.dirty = @ \cup {w}] ELSE Get(born, w)

CreateAll(v, ws) ==
    LET with[s \in SUBSET ws] ==
            IF s = {} THEN v ELSE Create(with[s \ {Youngest(s)}], Youngest(s))
    IN  with[ws]

\* The patch of render watcher w destroys children no longer drawn and
\* creates those drawn for the first time.
Gone(v, w) == {x \in Children[w] \ Drawn[w][v.data] : v.life[x] = "active"}
New(v, w) == {x \in Drawn[w][v.data] : v.life[x] = "unborn"}

\* The callback of a watcher whose value changed: a user watcher's writes.
Callback(v, w) ==
    LET data == Effect[w][v.data]
        changed == {c \in Cells : data[c] # v.data[c]}
    IN  Notify([v EXCEPT !.data = data], changed)

\* The root's watchers are those no other watcher draws.
Roots == Watchers \ UNION {Children[w] : w \in Watchers}
Init ==
    /\ \E d \in Data :
          LET empty == [data |-> d, subs |-> {}, value |-> [w \in Watchers |-> {}],
                        dirty |-> {}, life |-> [w \in Watchers |-> "unborn"],
                        queue |-> <<>>, has |-> {}]
              first == UNION {Drawn[w][d] : w \in Roots}
          IN  vm = CreateAll(empty, Roots \cup first)
    /\ flushing = FALSE /\ waiting = FALSE /\ index = 0

\* A handler writes a data property; the first dirty watcher asks nextTick for
\* a flush.
Write(c, x) ==
    /\ ~flushing /\ x # vm.data[c]
    /\ vm' = Notify([vm EXCEPT !.data[c] = x], {c})
    /\ waiting' = (vm'.queue # <<>>)
    /\ UNCHANGED <<flushing, index>>

\* flushSchedulerQueue: sort, run entry by entry with what the runs add, reset.
FlushBegin ==
    /\ waiting /\ ~flushing
    /\ flushing' = TRUE /\ index' = 1
    /\ vm' = [vm EXCEPT !.queue = SortSeq(@, LAMBDA a, b : a < b)]
    /\ UNCHANGED waiting
FlushRun ==
    /\ flushing /\ index <= Len(vm.queue)
    /\ LET w == vm.queue[index]
           ready == [vm EXCEPT !.has = @ \ {w}]
       IN  IF vm.life[w] # "active" THEN vm' = ready
           ELSE \E got \in {Get(ready, w)} :
                \E torn \in {Teardown(got, Gone(got, w))} :
                \E drawn \in {CreateAll(torn, New(torn, w))} :
                   vm' = IF got.value[w] = vm.value[w] THEN drawn ELSE Callback(drawn, w)
    /\ index' = index + 1
    /\ UNCHANGED <<flushing, waiting>>
\* Slip: waiting is not reset.
FlushEndWaiting ==
    /\ flushing /\ index > Len(vm.queue)
    /\ vm' = [vm EXCEPT !.queue = <<>>, !.has = {}]
    /\ index' = 0 /\ flushing' = FALSE /\ UNCHANGED waiting
FlushEnd ==
    /\ flushing /\ index > Len(vm.queue)
    /\ vm' = [vm EXCEPT !.queue = <<>>, !.has = {}]
    /\ index' = 0 /\ flushing' = FALSE /\ waiting' = FALSE

Next ==
    \/ \E c \in Cells, x \in Values : Write(c, x)
    \/ FlushBegin \/ FlushRun \/ FlushEnd

\* The flush is a microtask: once asked for it runs to its end.
Fairness == WF_vars(FlushBegin) /\ WF_vars(FlushRun) /\ WF_vars(FlushEnd)
Spec == Init /\ [][Next]_vars
FairSpec == Spec /\ Fairness

-----------------------------------------------------------------------------
\* What the watcher's getter would return now, computed ones asked afresh.
Now(w) ==
    LET read == Reads[w][vm.data]
        of(k) == {<<c, vm.data[c]>> : c \in Reads[k][vm.data]}
    IN  {<<c, vm.data[c]>> : c \in read \cap Cells} \cup {<<k, of(k)>> : k \in read \cap Lazy}

\* No stale value: a computed property that is not dirty holds what its getter
\* would return now, even in the middle of a flush; every other active watcher
\* does unless it is still queued, though its dependencies change with the data.
NoStaleValue ==
    \A w \in Watchers : vm.life[w] = "active" =>
        \/ w \in vm.dirty
        \/ w \in vm.has
        \/ vm.value[w] = Now(w)

\* Parents before children: what is left of a flush is in creation order and
\* names nobody twice, whatever the callbacks of the flush queue again.
ParentsFirst ==
    flushing => \A i, j \in index..Len(vm.queue) : i < j => vm.queue[i] < vm.queue[j]

\* No notification outlives its component.
DeadAreNotTold == \A w \in Watchers : vm.life[w] # "active" => DepsOf(vm, w) = {}

\* Watchers that write what others watch settle: a flush that was asked for
\* ends (the loop counter exists in development builds only).
FlushesEnd == waiting ~> ~waiting
=============================================================================
