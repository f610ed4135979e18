------------------------------- MODULE Session --------------------------------
(* Signing in and out: the login page and the header's menu of the console,   *)
(* LoginServiceImpl, whose one static flag every browser shares, and the       *)
(* interceptor that asks it before the handlers marked @Permission.  Each     *)
(* call is served by a thread of its own, in no particular order, and its     *)
(* answer may be lost; the interceptor and the handler are two steps.         *)
EXTENDS Naturals, Sequences, FiniteSets

CONSTANTS Browsers,
          MaxCalls   \* bound: calls the browsers make

VARIABLES loginSuccess, \* the static flag
          page,         \* what a browser shows: "login" or "console"
          calls,        \* the calls made, in their order: see Call
          quiet         \* history: the sign-out acknowledged last, of those since
                        \* which no login form was submitted, or 0

vars == <<loginSuccess, page, calls, quiet>>

\* right: a login carries the configured name and password.  hush: what quiet was
\* when the call was sent, or 0 when a login form was submitted since.
Call(b, what, right) ==
    [by |-> b, what |-> what, right |-> right, at |-> "sent", data |-> FALSE,
     served |-> 0, hush |-> IF what = "login" THEN 0 ELSE quiet]

TypeOK ==
    /\ loginSuccess \in BOOLEAN /\ quiet \in Nat
    /\ page \in [Browsers -> {"login", "console"}]
    /\ \A i \in DOMAIN calls :
          /\ calls[i].by \in Browsers
          /\ calls[i].what \in {"login", "logout", "listPage"}
          /\ calls[i].at \in {"sent", "admitted", "answered", "over", "lost"}

Init ==
    /\ loginSuccess = FALSE
    /\ page = [b \in Browsers |-> "login"]
    /\ calls = <<>>
    /\ quiet = 0

-----------------------------------------------------------------------------
\* The browser: submitForm of the login page, signOut of the header, and the
\* list a page of the console asks for.  Nothing disables a button meanwhile.
SubmitForm(b, right) ==
    /\ page[b] = "login" /\ Len(calls) < MaxCalls
    /\ calls' = [i \in 1..Len(calls) + 1 |->
                    IF i > Len(calls) THEN Call(b, "login", right)
                    ELSE [calls[i] EXCEPT !.hush = 0]]
    /\ quiet' = 0
    /\ UNCHANGED <<loginSuccess, page>>

SignOut(b) ==
    /\ page[b] = "console" /\ Len(calls) < MaxCalls
    /\ calls' = Append(calls, Call(b, "logout", FALSE))
    /\ UNCHANGED <<loginSuccess, page, quiet>>

GetList(b) ==
    /\ page[b] = "console" /\ Len(calls) < MaxCalls
    /\ calls' = Append(calls, Call(b, "listPage", FALSE))
    /\ UNCHANGED <<loginSuccess, page, quiet>>

\* The console is a page of the single-page program: it can be opened by its
\* address.
OpenConsole(b) ==
    /\ page[b] = "login"
    /\ page' = [page EXCEPT ![b] = "console"]
    /\ UNCHANGED <<loginSuccess, calls, quiet>>

-----------------------------------------------------------------------------
\* The server.  Served numbers the logins and sign-outs in the order in
\* which they are served.
Served == 1 + Cardinality({i \in DOMAIN calls : calls[i].served > 0})
Answer(i, data) ==
    calls' = [calls EXCEPT ![i] = [@ EXCEPT !.at = "answered", !.data = data, !.served = Served]]

\* preHandle: login and logout are not marked, and pass with their handlers.
Login(i) ==
    /\ calls[i].at = "sent" /\ calls[i].what = "login"
    /\ loginSuccess' = (calls[i].right \/ loginSuccess)
    /\ Answer(i, calls[i].right)
    /\ UNCHANGED <<page, quiet>>

Logout(i) ==
    /\ calls[i].at = "sent" /\ calls[i].what = "logout"
    /\ loginSuccess' = FALSE
    /\ Answer(i, TRUE)
    /\ UNCHANGED <<page, quiet>>

\* A marked call passes to its handler, or is forwarded to the start page,
\* which holds no rows.  Slip: the list's handler is not marked.
PreHandleUnmarked(i) ==
    /\ calls[i].at = "sent" /\ calls[i].what = "listPage"
    /\ calls' = [calls EXCEPT ![i] = [@ EXCEPT !.at = "admitted"]]
    /\ UNCHANGED <<loginSuccess, page, quiet>>
PreHandle(i) ==
    /\ calls[i].at = "sent" /\ calls[i].what = "listPage"
    /\ calls' = [calls EXCEPT ![i] = [@ EXCEPT !.at = IF loginSuccess THEN "admitted" ELSE "answered"]]
    /\ UNCHANGED <<loginSuccess, page, quiet>>

ListPage(i) ==
    /\ calls[i].at = "admitted"
    /\ calls' = [calls EXCEPT ![i] = [@ EXCEPT !.at = "answered", !.data = TRUE]]
    /\ UNCHANGED <<loginSuccess, page, quiet>>

-----------------------------------------------------------------------------
\* The answer reaches the browser.  A page that was left still moves it.
Receive(i) ==
    /\ calls[i].at = "answered"
    /\ calls' = [calls EXCEPT ![i] = [@ EXCEPT !.at = "over"]]
    /\ page' = [page EXCEPT ![calls[i].by] =
                   CASE calls[i].what = "login" /\ calls[i].data -> "console"
                     [] calls[i].what = "logout" -> "login"
                     [] OTHER -> @]
    /\ quiet' = IF /\ calls[i].what = "logout"
                   /\ \A j \in DOMAIN calls : calls[j].what = "login" => j < i
                THEN i ELSE quiet
    /\ UNCHANGED loginSuccess

\* A call or its answer is lost: the page says so, or nothing, and stays.
Lose(i) ==
    /\ calls[i].at \in {"sent", "answered"}
    /\ calls' = [calls EXCEPT ![i] = [@ EXCEPT !.at = "lost"]]
    /\ UNCHANGED <<loginSuccess, page, quiet>>

Step(i) == PreHandle(i) \/ Login(i) \/ Logout(i) \/ ListPage(i) \/ Receive(i)

Next ==
    \/ \E b \in Browsers :
          \/ SignOut(b) \/ GetList(b) \/ OpenConsole(b)
          \/ \E right \in BOOLEAN : SubmitForm(b, right)
    \/ \E i \in DOMAIN calls : Step(i) \/ Lose(i)

\* Every call has a thread of its own; the network may lose it, once only.
Fairness == \A i \in 1..MaxCalls : WF_vars(i \in DOMAIN calls /\ Step(i))
Spec == Init /\ [][Next]_vars
FairSpec == Spec /\ Fairness

-----------------------------------------------------------------------------
(* 0.bundle.js:599-602, AuthInterceptor.java:51: a browser that is told that  *)
(* it is signed out is, and whoever is not signed in gets no data: no list     *)
(* asked for after that is served until a login form is submitted again.      *)
(* Refuted: a login that the sign-out overtook is served after it.            *)
SignedOutStaysOut ==
    \A i \in DOMAIN calls :
        calls[i].hush # 0 /\ calls[i].what = "listPage" => ~calls[i].data

(* What does hold, in any order of the calls: a list asked for once a sign-out *)
(* was acknowledged is served only if a right login, submitted before that     *)
(* sign-out was clicked, was served after it, or a login form was submitted    *)
(* since.  No other call, lost or late answer opens the console again.         *)
OnlyALateLoginReopens ==
    \A i \in DOMAIN calls :
        calls[i].hush # 0 /\ calls[i].what = "listPage" /\ calls[i].data =>
            \E j \in 1..calls[i].hush - 1 :
                /\ calls[j].what = "login" /\ calls[j].right
                /\ calls[j].served > calls[calls[i].hush].served

(* A right name and password bring the browser to the console, unless the     *)
(* call or its answer is lost.                                                *)
LoginOpensConsole ==
    \A i \in 1..MaxCalls, b \in Browsers :
        (/\ i \in DOMAIN calls /\ calls[i].by = b
         /\ calls[i].what = "login" /\ calls[i].right /\ calls[i].at = "sent")
            ~> (i \in DOMAIN calls /\ (calls[i].at = "lost" \/ page[b] = "console"))
=============================================================================
