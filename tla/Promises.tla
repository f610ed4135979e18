------------------------------- MODULE Promises -------------------------------
(* core-js's Promise and its microtask queue: what async functions of the     *)
(* console run on in a browser without native promises.  A program creates    *)
(* promises, resolves them (with plain values, with other promises, with a    *)
(* thenable that calls both its arguments), rejects them and attaches         *)
(* reactions, in any order; the microtasks run between its turns.             *)
EXTENDS Naturals, Sequences

CONSTANTS Names,   \* bound: the promises that can be made, in that order
          Handlers \* what reactions are given: a subset of Handler

MaxPromises == Len(Names)
P == {Names[i] : i \in DOMAIN Names}
\* A handler is no function, returns a plain value, throws, returns the promise
\* then has made, or returns the promise named.
Handler == {"none", "value", "throw", "self"} \cup P

VARIABLES made,      \* promises made so far, and those the program can settle
          own,
          state,     \* _s: 0 pending, 1 fulfilled, 2 rejected
          value,     \* _v
          spent,     \* the targets whose _d is set: a promise or a wrapper of it
          chain,     \* _c: reactions not run yet
          notified,  \* _n: a microtask will run the reactions
          handled,   \* _h: 0 unknown, 1 handled, 2 reported as unhandled
          wrappers,  \* wrappers made so far
          micro,     \* the microtask queue
          running,   \* the microtask that runs, or Idle
          alarms,    \* tasks of onUnhandled
          fate,      \* history: what the promise was first asked to become
          attached,  \* history: reactions attached to the promise
          reacted    \* history: the reactions that have run, in their order

settling == <<state, value, spent, notified>>
vars == <<made, own, settling, chain, handled, wrappers, micro, running, alarms,
          fate, attached, reacted>>

Task(kind, p, x) == [kind |-> kind, p |-> p, x |-> x]
Idle == Task("idle", "none", "none")
\* What resolve and reject act on: the promise, or wrapper w of it.
Direct(p) == [p |-> p, w |-> 0]

Made == {Names[i] : i \in 1..made}

TypeOK ==
    /\ made \in 0..MaxPromises /\ own \subseteq Made
    /\ state \in [P -> 0..2] /\ notified \in [P -> BOOLEAN] /\ handled \in [P -> 0..2]
    /\ \A t \in spent : t.p \in Made /\ t.w \in 0..wrappers
    /\ \A p \in P : \A i \in DOMAIN chain[p] : chain[p][i].to.p \in Made
    /\ \A i \in DOMAIN micro : micro[i].p \in Made
    /\ alarms \subseteq {p \in P : state[p] = 2}

Init ==
    /\ made = 0 /\ own = {} /\ wrappers = 0 /\ spent = {} /\ micro = <<>> /\ alarms = {}
    /\ state = [p \in P |-> 0] /\ value = [p \in P |-> "none"]
    /\ chain = [p \in P |-> <<>>] /\ notified = [p \in P |-> FALSE]
    /\ handled = [p \in P |-> 0] /\ fate = [p \in P |-> "none"]
    /\ attached = [p \in P |-> 0] /\ reacted = [p \in P |-> <<>>]
    /\ running = Idle

-----------------------------------------------------------------------------
\* notify: one microtask at a time runs the reactions of p; x is its isReject.
Notify(p, isReject) ==
    IF notified[p] THEN UNCHANGED <<micro, notified>>
    ELSE /\ micro' = Append(micro, Task("notify", p, isReject))
         /\ notified' = [notified EXCEPT ![p] = TRUE]

Settle(p, s, x) ==
    /\ state' = [state EXCEPT ![p] = s]
    /\ value' = [value EXCEPT ![p] = x]
    /\ Notify(p, s = 2)
    /\ UNCHANGED fate

\* _d of the promise, or of the wrapper through which it is settled.
\* Slips: it is told by the state, or kept for the promise only.
SpentByState(t) == state[t.p] # 0
SpentDirectly(t) == t.w = 0 /\ t \in spent
Spent(t) == t \in spent

Reject(t, x) ==
    IF Spent(t) THEN UNCHANGED <<settling, micro, fate>>
    ELSE spent' = spent \cup {t} /\ Settle(t.p, 2, x)

\* A promise to follow is asked in a microtask of its own.
Resolve(t, x) ==
    IF Spent(t) THEN UNCHANGED <<settling, micro, fate>>
    ELSE /\ spent' = spent \cup {t}
         /\ IF x = t.p THEN Settle(t.p, 2, "TypeError")
            ELSE IF x \in P \cup {"both"}
            THEN /\ micro' = Append(micro, Task("follow", t.p, x))
                 /\ fate' = [fate EXCEPT ![t.p] = x]
                 /\ UNCHANGED <<state, value, notified>>
            ELSE Settle(t.p, 1, x)

\* then: the reactions of a settled promise are notified at once.
Attach(p, ok, fail, t) ==
    /\ chain' = [chain EXCEPT ![p] =
                    Append(@, [ok |-> ok, fail |-> fail, to |-> t, nr |-> attached[p] + 1])]
    /\ attached' = [attached EXCEPT ![p] = @ + 1]
    /\ IF state[p] = 0 THEN UNCHANGED <<micro, notified>> ELSE Notify(p, FALSE)

-----------------------------------------------------------------------------
\* The program's calls, one at a time: from a turn of its own or from inside a
\* handler, between any two microtasks.
Turn == running = Idle

New ==
    /\ Turn /\ made < MaxPromises
    /\ made' = made + 1 /\ own' = own \cup {Names[made + 1]}
    /\ UNCHANGED <<settling, chain, handled, wrappers, micro, running, alarms, fate,
                   attached, reacted>>

CallResolve(p, x) ==
    /\ Turn /\ p \in own
    /\ Resolve(Direct(p), x)
    /\ UNCHANGED <<made, own, chain, handled, wrappers, running, alarms, attached, reacted>>

CallReject(p) ==
    /\ Turn /\ p \in own
    /\ Reject(Direct(p), "rejected")
    /\ UNCHANGED <<made, own, chain, handled, wrappers, running, alarms, attached, reacted>>

\* then makes the promise its reaction will settle.
Then(p, ok, fail) ==
    /\ Turn /\ made < MaxPromises
    /\ made' = made + 1
    /\ Attach(p, ok, fail, Direct(Names[made + 1]))
    /\ UNCHANGED <<own, state, value, spent, handled, wrappers, running, alarms, fate, reacted>>

\* onUnhandled's task: the browser's console hears of it.
Alarm(p) ==
    /\ Turn /\ micro = <<>> /\ p \in alarms
    /\ alarms' = alarms \ {p}
    /\ handled' = IF handled[p] # 1 /\ attached[p] = 0 THEN [handled EXCEPT ![p] = 2] ELSE handled
    /\ UNCHANGED <<made, own, settling, chain, wrappers, micro, running, fate, attached, reacted>>

-----------------------------------------------------------------------------
\* flush takes the oldest microtask.
Pop ==
    /\ running = Idle /\ micro # <<>>
    /\ running' = Head(micro) /\ micro' = Tail(micro)
    /\ UNCHANGED <<made, own, settling, chain, handled, wrappers, alarms, fate, attached, reacted>>

\* The promise to follow is asked with a wrapper; the thenable calls resolve
\* and, in a step of its own, reject.
Follow ==
    /\ running.kind = "follow"
    /\ wrappers' = wrappers + 1
    /\ LET t == [p |-> running.p, w |-> wrappers + 1]
       IN  IF running.x = "both"
           THEN /\ running' = Task("both", t.p, t.w)
                /\ Resolve(t, "first")
                /\ UNCHANGED <<chain, attached>>
           ELSE /\ running' = Idle
                /\ Attach(running.x, "adopt", "adopt", t)
                /\ UNCHANGED <<state, value, spent, fate>>
    /\ UNCHANGED <<made, own, handled, alarms, reacted>>
SecondCall ==
    /\ running.kind = "both"
    /\ Reject([p |-> running.p, w |-> running.x], "second")
    /\ running' = Idle
    /\ UNCHANGED <<made, own, chain, handled, wrappers, alarms, attached, reacted>>

\* What a handler h called with x does to the target of its reaction.
Pass(h, x, rejected, t) ==
    \/ h = "throw" /\ Reject(t, "thrown")
    \/ h = "self" /\ Reject(t, "TypeError")
    \/ h = "value" /\ Resolve(t, "first")
    \/ h \notin {"throw", "self", "value"} /\ IF rejected THEN Reject(t, x) ELSE Resolve(t, x)

\* One reaction of the promise that notifies, those attached meanwhile too.  A
\* promise that the handler returns is asked at once, without a wrapper.
React ==
    /\ running.kind = "notify" /\ chain[running.p] # <<>>
    /\ LET p == running.p
           r == Head(chain[p])
           h == IF state[p] = 1 THEN r.ok ELSE r.fail
           rest == [chain EXCEPT ![p] = Tail(@)]
       IN  /\ reacted' = [reacted EXCEPT ![p] = Append(@, r.nr)]
           /\ handled' = IF state[p] = 2 /\ h # "none" THEN [handled EXCEPT ![p] = 1] ELSE handled
           /\ IF h \in P /\ h # r.to.p
              THEN /\ chain' = [rest EXCEPT ![h] = Append(@, [ok |-> "adopt", fail |-> "adopt",
                                                   to |-> r.to, nr |-> attached[h] + 1])]
                   /\ attached' = [attached EXCEPT ![h] = @ + 1]
                   /\ fate' = [fate EXCEPT ![r.to.p] = h]
                   /\ IF state[h] = 0 THEN UNCHANGED <<micro, notified>> ELSE Notify(h, FALSE)
                   /\ UNCHANGED <<state, value, spent>>
              ELSE /\ chain' = rest
                   /\ Pass(IF h \in P THEN "self" ELSE h, value[p], state[p] = 2, r.to)
                   /\ UNCHANGED attached
    /\ UNCHANGED <<made, own, running, wrappers, alarms>>

\* Slip: _n is not reset.
NotifyEndStuck ==
    /\ running.kind = "notify" /\ chain[running.p] = <<>>
    /\ running' = Idle
    /\ alarms' = IF running.x /\ handled[running.p] = 0 THEN alarms \cup {running.p} ELSE alarms
    /\ UNCHANGED <<made, own, settling, chain, handled, wrappers, micro, fate, attached, reacted>>
NotifyEnd ==
    /\ running.kind = "notify" /\ chain[running.p] = <<>>
    /\ running' = Idle
    /\ notified' = [notified EXCEPT ![running.p] = FALSE]
    /\ alarms' = IF running.x /\ handled[running.p] = 0 THEN alarms \cup {running.p} ELSE alarms
    /\ UNCHANGED <<made, own, state, value, spent, chain, handled, wrappers, micro, fate,
                   attached, reacted>>

Microtask == Pop \/ Follow \/ SecondCall \/ React \/ NotifyEnd

Next ==
    \/ New \/ Microtask
    \/ \E p \in Made :
          \/ CallReject(p) \/ Alarm(p)
          \/ \E x \in {"first", "both"} \cup Made : CallResolve(p, x)
          \/ \E ok, fail \in Handlers : Then(p, ok, fail)

\* The browser runs every microtask it was given.
Fairness == WF_vars(Microtask)
Spec == Init /\ [][Next]_vars
FairSpec == Spec /\ Fairness

-----------------------------------------------------------------------------
(* A promise that was resolved with another promise becomes what that one     *)
(* became, whoever calls resolve or reject on it meanwhile: a page that awaits *)
(* a chain of calls sees the answer of the last.                              *)
FollowersAgree ==
    \A p \in P : fate[p] \in P /\ state[p] # 0 =>
        state[p] = state[fate[p]] /\ value[p] = value[fate[p]]

(* What a promise became never changes, not by a thenable that calls both of   *)
(* its arguments, and the reactions run once each, in the order in which they *)
(* were attached.                                                             *)
SettledOnce ==
    [][\A p \in P :
         /\ state[p] # 0 => state'[p] = state[p] /\ value'[p] = value[p]
         /\ reacted'[p] = [i \in DOMAIN reacted'[p] |-> i]]_vars

(* Every reaction attached to a promise that is or becomes settled runs: an    *)
(* async function that awaits it goes on.                                     *)
EveryReactionRuns ==
    \A p \in P, n \in 1..MaxPromises : (state[p] # 0 /\ attached[p] >= n) ~> (Len(reacted[p]) >= n)
=============================================================================
