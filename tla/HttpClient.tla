------------------------------ MODULE HttpClient ------------------------------
(* vue-resource: what $http does with one request of the console, from the    *)
(* interceptors that see it to the callback of the page that made it.         *)
(* Interceptors run last first; the handlers they return run over the         *)
(* response, one task each; the transport is an XMLHttpRequest, or JSONP's    *)
(* script, whose abort timer and load may both call back.                     *)
EXTENDS Naturals, Sequences, SequencesExt

CONSTANT MaxInterceptors  \* bound: interceptors in use beside sendRequest

\* What an interceptor does: nothing to the answer ("plain"), returns a handler
\* that keeps the response ("keep") or throws ("spoil"), answers in place of
\* the transport ("answer") or throws ("throw").
Interceptor == {"plain", "keep", "spoil", "answer", "throw"}

VARIABLES transport,   \* "xhr", "jsonp" or "broken": sendRequest itself throws
          reqHandlers, \* interceptors not run yet, after sendRequest
          resHandlers, \* handlers of the response not run yet, by their place
          phase,       \* "request", "sent", "respond", "done" or "thrown"
          fired,       \* events the transport has called back with
          response,    \* the response under way: see Results
          settled,     \* what the promise of the client became: see Results
          callback,    \* the page's callback that ran: "none", "success", "failure"
          ran          \* history: interceptors asked, and handlers run

vars == <<transport, reqHandlers, resHandlers, phase, fired, response, settled, callback, ran>>

\* A response by its status, the value undefined, or an exception.
Results == {"ok", "bad", "undefined", "exception", "pending"}
Events == {"load", "loadFailed", "error", "abort", "timeout"}

TypeOK ==
    /\ transport \in {"xhr", "jsonp", "broken"}
    /\ \A i \in DOMAIN reqHandlers : reqHandlers[i].kind \in Interceptor \cup {"send"}
    /\ \A i \in DOMAIN resHandlers : resHandlers[i].kind \in {"keep", "spoil"}
    /\ phase \in {"request", "sent", "respond", "done", "thrown"}
    /\ fired \subseteq Events
    /\ response \in Results /\ settled \in Results
    /\ callback \in {"none", "success", "failure"}

\* Client.use: sendRequest is the first handler.
Init ==
    /\ transport \in {"xhr", "jsonp", "broken"}
    /\ \E kinds \in BoundedSeq(Interceptor, MaxInterceptors) :
          reqHandlers = <<[kind |-> "send", at |-> 0]>>
                            \o [i \in DOMAIN kinds |-> [kind |-> kinds[i], at |-> i]]
    /\ resHandlers = <<>> /\ phase = "request" /\ fired = {}
    /\ response = "pending" /\ settled = "pending" /\ callback = "none"
    /\ ran = [asked |-> <<>>, handled |-> <<>>]

-----------------------------------------------------------------------------
\* Client: one interceptor of the request, in the turn of the caller.
Pop(h) ==
    /\ phase = "request" /\ Last(reqHandlers) = h
    /\ reqHandlers' = Front(reqHandlers)
    /\ UNCHANGED <<transport, fired, settled, callback>>

\* Slip: the handlers run in the order of the interceptors.
AfterwardsAppended(h) == resHandlers' = Append(resHandlers, h)
Afterwards(h) == resHandlers' = <<h>> \o resHandlers

Intercept(h) ==
    /\ Pop(h) /\ h.kind \in {"plain", "keep", "spoil"}
    /\ IF h.kind = "plain" THEN UNCHANGED <<resHandlers, ran>>
       ELSE Afterwards(h) /\ ran' = [ran EXCEPT !.asked = Append(@, h.at)]
    /\ UNCHANGED <<phase, response>>

InterceptorAnswers(h) ==
    /\ Pop(h) /\ h.kind = "answer"
    /\ phase' = "respond" /\ response' \in {"ok", "bad"}
    /\ UNCHANGED <<resHandlers, ran>>

\* An exception of an interceptor is one of $http itself: there is no promise.
InterceptorThrows(h) ==
    /\ Pop(h) /\ h.kind = "throw"
    /\ phase' = "thrown"
    /\ UNCHANGED <<resHandlers, response, ran>>

\* sendRequest: what it throws, its promise was rejected with.
SendRequest(h) ==
    /\ Pop(h) /\ h.kind = "send"
    /\ IF transport = "broken" THEN phase' = "respond" /\ response' = "exception"
       ELSE phase' = "sent" /\ UNCHANGED response
    /\ UNCHANGED <<resHandlers, ran>>

\* The transport calls back: an XMLHttpRequest once; JSONP's timer and script
\* may both do so, and the promise keeps the first.
TransportEvent(e) ==
    /\ phase # "request" /\ transport # "broken" /\ reqHandlers = <<>>
    /\ e \notin fired
    /\ IF transport = "xhr" THEN fired = {}
       ELSE e \in {"load", "error", "abort"} /\ \A f \in fired : "abort" \in {e, f}
    /\ fired' = fired \cup {e}
    /\ IF phase = "sent"
       THEN phase' = "respond" /\ response' = IF e = "load" THEN "ok" ELSE "bad"
       ELSE UNCHANGED <<phase, response>>
    /\ UNCHANGED <<transport, reqHandlers, resHandlers, settled, callback, ran>>

-----------------------------------------------------------------------------
\* resolve and reject of the client's promise.
\* Slip: the last one wins.
SettleAgain(x) == settled' = x
Settle(x) == settled' = IF settled = "pending" THEN x ELSE settled

\* when(response, handler, reject): an exception rejects the client's promise
\* and the handlers after it see undefined, which none of them can read.
HandleResponse ==
    /\ phase = "respond" /\ resHandlers # <<>>
    /\ resHandlers' = Tail(resHandlers)
    /\ IF response = "exception"
       THEN Settle("exception") /\ response' = "undefined" /\ UNCHANGED ran
       ELSE /\ response' = IF Head(resHandlers).kind = "spoil" \/ response = "undefined"
                           THEN "exception" ELSE response
            /\ ran' = [ran EXCEPT !.handled = Append(@, Head(resHandlers).at)]
            /\ UNCHANGED settled
    /\ UNCHANGED <<transport, reqHandlers, phase, fired, callback>>

\* when(response, resolve, reject).
\* Slip: nothing rejects the promise for an exception.
ConcludeResolved ==
    /\ phase = "respond" /\ resHandlers = <<>>
    /\ phase' = "done"
    /\ IF response = "exception" THEN UNCHANGED settled ELSE Settle(response)
    /\ UNCHANGED <<transport, reqHandlers, resHandlers, fired, response, callback, ran>>
Conclude ==
    /\ phase = "respond" /\ resHandlers = <<>>
    /\ phase' = "done"
    /\ Settle(response)
    /\ UNCHANGED <<transport, reqHandlers, resHandlers, fired, response, callback, ran>>

\* Http: a response that is not ok is one more failure for the page.
Deliver ==
    /\ settled # "pending" /\ callback = "none"
    /\ callback' = IF settled = "ok" THEN "success" ELSE "failure"
    /\ UNCHANGED <<transport, reqHandlers, resHandlers, phase, fired, response, settled, ran>>

Request == \E h \in {reqHandlers[i] : i \in DOMAIN reqHandlers} :
               Intercept(h) \/ InterceptorAnswers(h) \/ InterceptorThrows(h) \/ SendRequest(h)

Next ==
    \/ Request \/ HandleResponse \/ Conclude \/ Deliver
    \/ \E e \in Events : TransportEvent(e)

\* Tasks and promises run; the browser ends every request in one of its ways.
Fairness ==
    /\ WF_vars(Request) /\ WF_vars(HandleResponse \/ Conclude) /\ WF_vars(Deliver)
    /\ WF_vars(phase = "sent" /\ \E e \in Events : TransportEvent(e))
Spec == Init /\ [][Next]_vars
FairSpec == Spec /\ Fairness

-----------------------------------------------------------------------------
(* The page's success callback runs only for a response with a good status,   *)
(* loaded or given by an interceptor, that every handler has seen, in the      *)
(* reverse of the order in which the interceptors saw the request: the body    *)
(* the page reads is the one the json interceptor parsed.                      *)
SuccessIsHandled ==
    callback = "success" =>
        /\ "load" \in fired \/ reqHandlers # <<>>
        /\ ran.handled = Reverse(ran.asked)

(* The page is told once, and what it was told stays: a late event of the     *)
(* transport or an exception of a handler changes no answer.                  *)
ToldOnce ==
    [][/\ settled # "pending" => settled' = settled
       /\ callback # "none" => callback' = callback]_vars

(* Every request the page makes ends in one of its callbacks, unless $http     *)
(* itself threw: a button that waits for its answer does not wait for ever.   *)
EveryRequestEnds == (phase = "request") ~> (callback # "none" \/ phase = "thrown")
=============================================================================
