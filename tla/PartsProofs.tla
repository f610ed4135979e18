----------------------------- MODULE PartsProofs ------------------------------
(* Theorems about the parts that stand by themselves, for any browsers, calls, *)
(* admins, interceptors, pages, transitions and promises.  Each part has        *)
(* lemmas about what its steps do, an inductive invariant, and a lemma that a   *)
(* behaviour of MCParts is one of the part.                                     *)
EXTENDS MCParts, LibraryProofs

-----------------------------------------------------------------------------
(* Session: calls, and how a step changes them.                                *)

CallSet == [by : Browsers, what : {"login", "logout", "listPage"}, right : BOOLEAN,
            at : {"sent", "admitted", "answered", "over", "lost"}, data : BOOLEAN,
            served : Nat, hush : Nat]

LEMMA CallType ==
    ASSUME NEW b \in Browsers, NEW what \in {"login", "logout", "listPage"}, NEW right \in BOOLEAN,
           quiet \in Nat
    PROVE  /\ Signing!Call(b, what, right) \in CallSet
           /\ Signing!Call(b, what, right).what = what /\ Signing!Call(b, what, right).at = "sent"
           /\ Signing!Call(b, what, right).served = 0 /\ Signing!Call(b, what, right).data = FALSE
           /\ Signing!Call(b, what, right).hush = IF what = "login" THEN 0 ELSE quiet
BY DEF Signing!Call, CallSet

LEMMA CallsType ==
    ASSUME calls \in Seq(CallSet)
    PROVE  /\ Len(calls) \in Nat /\ DOMAIN calls = 1..Len(calls)
           /\ \A i \in DOMAIN calls : calls[i] \in CallSet
BY LenProperties

LEMMA Appended ==
    ASSUME calls \in Seq(CallSet), NEW c \in CallSet, calls' = Append(calls, c)
    PROVE  /\ calls' \in Seq(CallSet)
           /\ DOMAIN calls' = 1..Len(calls) + 1 /\ DOMAIN calls = 1..Len(calls) /\ Len(calls) \in Nat
           /\ calls'[Len(calls) + 1] = c
           /\ \A i \in DOMAIN calls : calls'[i] = calls[i]
<1>1. /\ Append(calls, c) \in Seq(CallSet) /\ Len(Append(calls, c)) = Len(calls) + 1
      /\ \A i \in 1..Len(calls) : Append(calls, c)[i] = calls[i]
      /\ Append(calls, c)[Len(calls) + 1] = c
  BY AppendProperties
<1>2. DOMAIN Append(calls, c) = 1..Len(calls) + 1
  BY <1>1, LenProperties
<1> QED BY <1>1, <1>2, CallsType

LEMMA Changed ==
    ASSUME calls \in Seq(CallSet), NEW i \in DOMAIN calls, NEW c \in CallSet,
           calls' = [calls EXCEPT ![i] = c]
    PROVE  /\ calls' \in Seq(CallSet) /\ DOMAIN calls' = DOMAIN calls
           /\ calls'[i] = c
           /\ \A j \in DOMAIN calls : j # i => calls'[j] = calls[j]
<1>1. i \in 1..Len(calls) /\ DOMAIN calls = 1..Len(calls)
  BY CallsType
<1>2. [calls EXCEPT ![i] = c] \in Seq(CallSet)
  BY <1>1, ExceptSeq
<1> QED BY <1>1, <1>2

-----------------------------------------------------------------------------
(* Session: the inductive invariant.                                           *)

SessionTyped ==
    /\ calls \in Seq(CallSet)
    /\ loginSuccess \in BOOLEAN /\ quiet \in Nat
    /\ page \in [Browsers -> {"login", "console"}]

\* Logins and sign-outs are numbered as they are served.
ServedCalls == {i \in DOMAIN calls : calls[i].served > 0}
ServiceNumbered ==
    /\ IsFiniteSet(ServedCalls)
    /\ \A i \in DOMAIN calls : /\ calls[i].served <= Cardinality(ServedCalls)
                               /\ calls[i].at = "sent" => calls[i].served = 0

\* A sign-out is not asked about, and one that is answered was served.
AnsweredServed ==
    \A i \in DOMAIN calls :
        calls[i].what = "logout" => /\ calls[i].at # "admitted"
                                    /\ calls[i].at = "answered" => calls[i].served > 0

\* The flag is set only by a right login served after every sign-out.
Opens(j) ==
    /\ calls[j].what = "login" /\ calls[j].right /\ calls[j].served > 0
    /\ \A i \in DOMAIN calls : calls[i].what = "logout" => calls[i].served < calls[j].served
SignedInByLogin == loginSuccess => \E j \in DOMAIN calls : Opens(j)

\* A sign-out that was served, after which no login form was submitted; and a
\* right login it overtook.
Outlives(k) ==
    /\ k \in DOMAIN calls /\ calls[k].what = "logout" /\ calls[k].served > 0
    /\ \A j \in DOMAIN calls : calls[j].what = "login" => j < k
Overtook(k, j) ==
    /\ j \in DOMAIN calls /\ j < k
    /\ calls[j].what = "login" /\ calls[j].right /\ calls[j].served > calls[k].served

Overtaken(k) == \E j \in DOMAIN calls : Overtook(k, j)

\* The sign-outs that quiet and hush name.
Silencing(k) == k # 0 /\ (quiet = k \/ \E i \in DOMAIN calls : calls[i].hush = k)
QuietOutlives == \A k \in Nat : Silencing(k) => Outlives(k)

LetIn(i) == calls[i].what = "listPage" /\ (calls[i].at = "admitted" \/ calls[i].data)
Hushed(k, i) == k # 0 /\ calls[i].hush = k
HushedAreLate ==
    \A k \in Nat, i \in DOMAIN calls : Hushed(k, i) /\ LetIn(i) => Overtaken(k)

SessionInv ==
    /\ SessionTyped /\ ServiceNumbered /\ AnsweredServed /\ SignedInByLogin
    /\ QuietOutlives /\ HushedAreLate

\* A step that submits no login form and serves no call twice.
Continues ==
    /\ DOMAIN calls \subseteq DOMAIN calls'
    /\ \A i \in DOMAIN calls : /\ calls'[i].what = calls[i].what /\ calls'[i].right = calls[i].right
                               /\ calls[i].served > 0 => calls'[i].served = calls[i].served
    /\ \A i \in DOMAIN calls' : i \notin DOMAIN calls => calls'[i].what # "login"

LEMMA OutlivesStays ==
    ASSUME Continues, NEW k, Outlives(k)
    PROVE  Outlives(k)'
BY DEF Continues, Outlives

LEMMA OvertakenStays ==
    ASSUME Continues, SessionTyped, NEW k \in Nat, Outlives(k), Overtaken(k)
    PROVE  Overtaken(k)'
<1>1. PICK j \in DOMAIN calls : Overtook(k, j)
  BY DEF Overtaken
<1>2. calls[j].served \in Nat /\ calls[k].served \in Nat /\ calls[k].served > 0
  BY CallsType DEF SessionTyped, CallSet, Outlives
<1>3. calls'[j].served = calls[j].served /\ calls'[k].served = calls[k].served
  BY <1>1, <1>2 DEF Continues, Outlives, Overtook
<1>4. Overtook(k, j)' /\ j \in DOMAIN calls'
  BY <1>1, <1>3 DEF Continues, Overtook
<1> QED BY <1>4 DEF Overtaken

\* What a continuing step leaves of the history: new calls are hushed as it is
\* quiet, and a list that gets in has its overtaken login.
LEMMA HistoryStays ==
    ASSUME SessionInv, Continues,
           quiet' = quiet \/ (quiet' \in Nat /\ Outlives(quiet')),
           \A i \in DOMAIN calls : calls'[i].hush = calls[i].hush,
           \A i \in DOMAIN calls' : i \notin DOMAIN calls => calls'[i].hush = quiet /\ ~ LetIn(i)',
           \A k \in Nat, i \in DOMAIN calls :
               Hushed(k, i) /\ LetIn(i)' => LetIn(i) \/ Overtaken(k)
    PROVE  QuietOutlives' /\ HushedAreLate'
<1>1. ASSUME NEW k \in Nat, Silencing(k)'
      PROVE  Silencing(k) \/ Outlives(k)
  BY <1>1 DEF Silencing, Continues
<1>2. ASSUME NEW k \in Nat, Silencing(k)'
      PROVE  Outlives(k) /\ Outlives(k)'
  BY <1>1, <1>2, OutlivesStays DEF SessionInv, QuietOutlives
<1>3. ASSUME NEW k \in Nat, NEW i \in DOMAIN calls', Hushed(k, i)', LetIn(i)'
      PROVE  Overtaken(k)'
  <2>1. i \in DOMAIN calls
    BY <1>3
  <2>2. Hushed(k, i)
    BY <1>3, <2>1 DEF Hushed
  <2>3. Overtaken(k)
    BY <1>3, <2>1, <2>2 DEF SessionInv, HushedAreLate
  <2>4. Silencing(k)'
    BY <1>3 DEF Hushed, Silencing
  <2> QED BY <1>2, <2>3, <2>4, OvertakenStays DEF SessionInv
<1> QED BY <1>2, <1>3 DEF QuietOutlives, HushedAreLate

\* A step that serves nobody leaves the numbers as they are.
LEMMA NumbersStay ==
    ASSUME SessionInv, DOMAIN calls \subseteq DOMAIN calls',
           \A i \in DOMAIN calls : calls'[i].served = calls[i].served,
           \A i \in DOMAIN calls : calls'[i].at = "sent" => calls[i].at = "sent",
           \A i \in DOMAIN calls' : i \notin DOMAIN calls => calls'[i].served = 0
    PROVE  ServiceNumbered'
<1>1. IsFiniteSet(ServedCalls) /\ Cardinality(ServedCalls) \in Nat
  BY FS_CardinalityType DEF SessionInv, ServiceNumbered
<1>2. ServedCalls' = ServedCalls
  BY DEF ServedCalls
<1>3. ASSUME NEW i \in DOMAIN calls'
      PROVE  /\ calls'[i].served <= Cardinality(ServedCalls)
             /\ calls'[i].at = "sent" => calls'[i].served = 0
  BY <1>1 DEF SessionInv, ServiceNumbered
<1> QED BY <1>1, <1>2, <1>3 DEF ServiceNumbered

LEMMA ServedNext == Signing!Served = 1 + Cardinality(ServedCalls)
BY DEF Signing!Served, Signing!Cardinality, Cardinality, ServedCalls

\* A call that is served gets the next number, above all others.
LEMMA NumbersGrow ==
    ASSUME SessionInv, NEW i \in DOMAIN calls, calls[i].at = "sent",
           DOMAIN calls' = DOMAIN calls,
           calls'[i].served = Signing!Served, calls'[i].at # "sent",
           \A j \in DOMAIN calls : j # i => calls'[j] = calls[j]
    PROVE  /\ ServiceNumbered' /\ calls'[i].served > 0
           /\ \A j \in DOMAIN calls : j # i => calls'[j].served < calls'[i].served
<1>1. IsFiniteSet(ServedCalls) /\ Cardinality(ServedCalls) \in Nat
  BY FS_CardinalityType DEF SessionInv, ServiceNumbered
<1>2. calls[i].served = 0 /\ i \notin ServedCalls /\ Signing!Served = 1 + Cardinality(ServedCalls)
  BY ServedNext DEF SessionInv, ServiceNumbered, ServedCalls
<1>3. ServedCalls' = ServedCalls \cup {i}
  <2>1. calls'[i].served > 0
    BY <1>1, <1>2
  <2> QED BY <1>2, <2>1 DEF ServedCalls
<1>4. IsFiniteSet(ServedCalls \cup {i}) /\ Cardinality(ServedCalls \cup {i}) = Cardinality(ServedCalls) + 1
  BY <1>1, <1>2, FS_AddElement
<1>5. \A j \in DOMAIN calls : /\ calls[j].served \in Nat /\ calls[j].served <= Cardinality(ServedCalls)
                              /\ calls[j].at = "sent" => calls[j].served = 0
  BY CallsType DEF SessionInv, SessionTyped, ServiceNumbered, CallSet
<1>6. ASSUME NEW j \in DOMAIN calls
      PROVE  /\ calls'[j].served <= Cardinality(ServedCalls) + 1
             /\ calls'[j].at = "sent" => calls'[j].served = 0
             /\ j # i => calls'[j].served < calls'[i].served
  <2>1. CASE j = i
    BY <1>1, <1>2, <2>1
  <2>2. CASE j # i
    BY <1>1, <1>2, <1>5, <2>2
  <2> QED BY <2>1, <2>2
<1>7. calls'[i].served > 0
  BY <1>1, <1>2
<1> QED BY <1>3, <1>4, <1>6, <1>7 DEF ServiceNumbered

-----------------------------------------------------------------------------
(* The browser's steps.                                                       *)

LEMMA SubmitFormKeeps ==
    ASSUME SessionInv, NEW b \in Browsers, NEW right \in BOOLEAN, Signing!SubmitForm(b, right)
    PROVE  SessionInv'
<1> DEFINE n == Len(calls)
           c == Signing!Call(b, "login", right)
<1>1. /\ calls \in Seq(CallSet) /\ quiet \in Nat /\ n \in Nat /\ DOMAIN calls = 1..n
      /\ \A i \in DOMAIN calls : calls[i] \in CallSet
  BY CallsType DEF SessionInv, SessionTyped
<1>2. /\ c \in CallSet /\ c.what = "login" /\ c.at = "sent" /\ c.served = 0 /\ c.hush = 0
  BY <1>1, CallType
<1> HIDE DEF c
<1>3. calls' = [i \in 1..n + 1 |-> IF i > n THEN c ELSE [calls[i] EXCEPT !.hush = 0]]
  BY DEF Signing!SubmitForm, c
<1>4. \A i \in DOMAIN calls : [calls[i] EXCEPT !.hush = 0] \in CallSet
  BY <1>1 DEF CallSet
<1>5. calls' \in [1..n + 1 -> CallSet]
  BY <1>1, <1>2, <1>3, <1>4
<1>6. calls' \in Seq(CallSet) /\ DOMAIN calls' = 1..n + 1
  BY <1>1, <1>5, SeqDef
<1>7. /\ calls'[n + 1] = c
      /\ \A i \in DOMAIN calls : calls'[i] = [calls[i] EXCEPT !.hush = 0]
  BY <1>1, <1>3
<1>8. \A i \in DOMAIN calls : /\ calls'[i].what = calls[i].what /\ calls'[i].served = calls[i].served
                              /\ calls'[i].at = calls[i].at /\ calls'[i].hush = 0
                              /\ calls'[i].right = calls[i].right
  BY <1>1, <1>7 DEF CallSet
<1>9. SessionTyped'
  BY <1>6 DEF SessionInv, SessionTyped, Signing!SubmitForm
<1>10. ServiceNumbered'
  BY <1>1, <1>2, <1>6, <1>7, <1>8, NumbersStay
<1>11. SignedInByLogin'
  <2> SUFFICES ASSUME loginSuccess PROVE SignedInByLogin'
    BY DEF Signing!SubmitForm, SignedInByLogin
  <2>1. PICK j \in DOMAIN calls : Opens(j)
    BY DEF SessionInv, SignedInByLogin
  <2>2. j \in DOMAIN calls' /\ Opens(j)'
    BY <1>1, <1>2, <1>6, <1>7, <1>8, <2>1 DEF Opens
  <2> QED BY <2>2 DEF SignedInByLogin
<1>12. AnsweredServed'
  BY <1>1, <1>2, <1>6, <1>7, <1>8 DEF SessionInv, AnsweredServed
<1>13. QuietOutlives' /\ HushedAreLate'
  <2>1. quiet' = 0
    BY DEF Signing!SubmitForm
  <2>2. \A i \in DOMAIN calls' : calls'[i].hush = 0
    BY <1>1, <1>2, <1>6, <1>7, <1>8
  <2> QED BY <2>1, <2>2 DEF QuietOutlives, HushedAreLate, Hushed, Silencing
<1> QED BY <1>9, <1>10, <1>11, <1>12, <1>13 DEF SessionInv

LEMMA AskKeeps ==
    ASSUME SessionInv, NEW b \in Browsers, Signing!SignOut(b) \/ Signing!GetList(b)
    PROVE  SessionInv'
<1>1. PICK what \in {"logout", "listPage"} : calls' = Append(calls, Signing!Call(b, what, FALSE))
  BY DEF Signing!SignOut, Signing!GetList
<1> DEFINE c == Signing!Call(b, what, FALSE)
<1>2. /\ c \in CallSet /\ c.what # "login" /\ c.at = "sent" /\ c.served = 0 /\ c.data = FALSE
      /\ c.hush = quiet
  <2>1. what \in {"login", "logout", "listPage"} /\ what # "login" /\ quiet \in Nat /\ FALSE \in BOOLEAN
    BY DEF SessionInv, SessionTyped
  <2>2. /\ c \in CallSet /\ c.what = what /\ c.at = "sent" /\ c.served = 0 /\ c.data = FALSE
        /\ c.hush = quiet
    BY <2>1, CallType
  <2> QED BY <2>2
<1>3. calls \in Seq(CallSet) /\ UNCHANGED <<loginSuccess, page, quiet>>
  BY DEF SessionInv, SessionTyped, Signing!SignOut, Signing!GetList
<1> HIDE DEF c
<1>4. /\ calls' \in Seq(CallSet) /\ Len(calls) \in Nat
      /\ DOMAIN calls' = 1..Len(calls) + 1 /\ DOMAIN calls = 1..Len(calls)
      /\ calls'[Len(calls) + 1] = c
      /\ \A i \in DOMAIN calls : calls'[i] = calls[i]
  <2>1. calls' = Append(calls, c)
    BY <1>1 DEF c
  <2> QED BY <1>2, <1>3, <2>1, Appended
<1>5. ServiceNumbered'
  BY <1>2, <1>4, NumbersStay
<1>6. SignedInByLogin'
  <2> SUFFICES ASSUME loginSuccess PROVE SignedInByLogin'
    BY <1>3 DEF SignedInByLogin
  <2>1. PICK j \in DOMAIN calls : Opens(j)
    BY DEF SessionInv, SignedInByLogin
  <2>2. calls[j].served \in Nat
    BY <1>3, CallsType DEF CallSet
  <2>3. Opens(j)'
    BY <1>2, <1>4, <2>1, <2>2 DEF Opens
  <2> QED BY <1>4, <2>3 DEF SignedInByLogin
<1>7. AnsweredServed'
  BY <1>2, <1>4 DEF SessionInv, AnsweredServed
<1>8. Continues
  BY <1>2, <1>4 DEF Continues
<1>9. /\ \A i \in DOMAIN calls : calls'[i].hush = calls[i].hush
      /\ \A i \in DOMAIN calls' : i \notin DOMAIN calls => calls'[i].hush = quiet /\ ~ LetIn(i)'
      /\ \A k \in Nat, i \in DOMAIN calls : Hushed(k, i) /\ LetIn(i)' => LetIn(i) \/ Overtaken(k)
  BY <1>2, <1>4 DEF LetIn
<1>10. QuietOutlives' /\ HushedAreLate'
  BY <1>3, <1>8, <1>9, HistoryStays
<1> QED BY <1>3, <1>4, <1>5, <1>6, <1>7, <1>10 DEF SessionInv, SessionTyped

-----------------------------------------------------------------------------
(* The server's steps.                                                        *)

\* A login or a sign-out is served.
LEMMA ServeKeeps ==
    ASSUME SessionInv, NEW i \in DOMAIN calls, Signing!Login(i) \/ Signing!Logout(i)
    PROVE  SessionInv'
<1>1. PICK data \in BOOLEAN : Signing!Answer(i, data)
  <2>1. calls[i].right \in BOOLEAN
    BY CallsType DEF SessionInv, SessionTyped, CallSet
  <2> QED BY <2>1 DEF Signing!Login, Signing!Logout
<1> DEFINE c == [calls[i] EXCEPT !.at = "answered", !.data = data, !.served = Signing!Served]
<1>2. Signing!Served \in Nat
  <2> QED BY ServedNext, FS_CardinalityType DEF SessionInv, ServiceNumbered
<1>3. /\ calls \in Seq(CallSet) /\ calls[i] \in CallSet /\ calls[i].at = "sent"
      /\ UNCHANGED <<page, quiet>>
  BY CallsType DEF SessionInv, SessionTyped, Signing!Login, Signing!Logout
<1>4. /\ c \in CallSet /\ c.at = "answered" /\ c.served = Signing!Served /\ c.what = calls[i].what
      /\ c.right = calls[i].right /\ c.hush = calls[i].hush
  BY <1>2, <1>3 DEF CallSet
<1> HIDE DEF c
<1>5. /\ calls' \in Seq(CallSet) /\ DOMAIN calls' = DOMAIN calls
      /\ calls'[i] = c
      /\ \A j \in DOMAIN calls : j # i => calls'[j] = calls[j]
  <2>1. calls' = [calls EXCEPT ![i] = c]
    BY <1>1 DEF Signing!Answer, c
  <2> QED BY <1>3, <1>4, <2>1, Changed
<1>6. /\ ServiceNumbered' /\ calls'[i].served > 0
      /\ \A j \in DOMAIN calls : j # i => calls'[j].served < calls'[i].served
  BY <1>3, <1>4, <1>5, NumbersGrow
<1>7. calls[i].what # "listPage"
  BY DEF Signing!Login, Signing!Logout
<1>8. Continues
  <2>1. calls[i].served = 0
    BY <1>3 DEF SessionInv, ServiceNumbered
  <2> QED BY <1>4, <1>5, <2>1 DEF Continues
<1>9. QuietOutlives' /\ HushedAreLate'
  <2>1. /\ \A j \in DOMAIN calls : calls'[j].hush = calls[j].hush
        /\ \A j \in DOMAIN calls' : j \notin DOMAIN calls => calls'[j].hush = quiet /\ ~ LetIn(j)'
        /\ \A k \in Nat, j \in DOMAIN calls : Hushed(k, j) /\ LetIn(j)' => LetIn(j) \/ Overtaken(k)
    BY <1>4, <1>5, <1>7 DEF LetIn
  <2> QED BY <1>3, <1>8, <2>1, HistoryStays
<1>10. AnsweredServed'
  BY <1>4, <1>5, <1>6 DEF SessionInv, AnsweredServed
<1>11. loginSuccess' \in BOOLEAN /\ SignedInByLogin'
  <2>1. CASE Signing!Logout(i)
    <3>1. loginSuccess' = FALSE
      BY <2>1 DEF Signing!Logout
    <3> QED BY <3>1 DEF SignedInByLogin
  <2>2. CASE Signing!Login(i)
    <3>1. calls[i].what = "login" /\ loginSuccess' = (calls[i].right \/ loginSuccess)
      BY <2>2 DEF Signing!Login
    <3>2. CASE calls[i].right
      <4>1. Opens(i)'
        BY <1>4, <1>5, <1>6, <3>1, <3>2 DEF Opens
      <4> QED BY <1>5, <3>1, <4>1 DEF SignedInByLogin
    <3>3. CASE ~ calls[i].right /\ loginSuccess
      <4>1. PICK j \in DOMAIN calls : Opens(j)
        BY <3>3 DEF SessionInv, SignedInByLogin
      <4>2. j # i /\ calls'[j] = calls[j]
        BY <1>5, <3>3, <4>1 DEF Opens
      <4>3. \A d \in DOMAIN calls' : calls'[d].what = "logout" => d # i /\ calls'[d] = calls[d]
        BY <1>4, <1>5, <3>1
      <4>4. Opens(j)'
        BY <1>5, <4>1, <4>2, <4>3 DEF Opens
      <4> QED BY <1>5, <3>1, <4>1, <4>4 DEF SignedInByLogin, SessionInv, SessionTyped
    <3>4. CASE ~ calls[i].right /\ ~ loginSuccess
      BY <3>1, <3>4 DEF SignedInByLogin
    <3> QED BY <3>1, <3>2, <3>3, <3>4
  <2> QED BY <2>1, <2>2
<1> QED BY <1>3, <1>5, <1>6, <1>9, <1>10, <1>11 DEF SessionInv, SessionTyped

\* The interceptor, the list's handler, an answer received or a call lost: the
\* numbers stay, and so does the flag.
LEMMA OtherCallsKeep ==
    ASSUME SessionInv, NEW i \in DOMAIN calls, Signing!PreHandle(i) \/ Signing!ListPage(i) \/ Signing!Receive(i) \/ Signing!Lose(i)
    PROVE  SessionInv'
<1>1. calls \in Seq(CallSet) /\ \A j \in DOMAIN calls : calls[j] \in CallSet
  BY CallsType DEF SessionInv, SessionTyped
<1>2. PICK now \in {"admitted", "answered", "over", "lost"}, data \in BOOLEAN :
         /\ calls' = [calls EXCEPT ![i] = [@ EXCEPT !.at = now, !.data = data]]
         /\ calls[i].what = "listPage" /\ (now = "admitted" \/ data) =>
               LetIn(i) \/ loginSuccess
         /\ calls[i].what = "logout" => now \notin {"admitted", "answered"}
  <2>1. calls[i].data \in BOOLEAN /\ [calls[i] EXCEPT !.data = calls[i].data] = calls[i]
    BY <1>1 DEF CallSet
  <2>2. \A now : [calls[i] EXCEPT !.at = now, !.data = calls[i].data] = [calls[i] EXCEPT !.at = now]
    BY <1>1 DEF CallSet
  <2>3. CASE Signing!PreHandle(i)
    BY <2>1, <2>2, <2>3 DEF Signing!PreHandle, LetIn
  <2>4. CASE Signing!ListPage(i)
    BY <2>4 DEF Signing!ListPage, LetIn, SessionInv, AnsweredServed
  <2>5. CASE Signing!Receive(i)
    BY <2>1, <2>2, <2>5 DEF Signing!Receive, LetIn
  <2>6. CASE Signing!Lose(i)
    BY <2>1, <2>2, <2>6 DEF Signing!Lose, LetIn
  <2> QED BY <2>3, <2>4, <2>5, <2>6
<1> DEFINE c == [calls[i] EXCEPT !.at = now, !.data = data]
<1>3. /\ c \in CallSet /\ c.at = now /\ c.data = data /\ c.served = calls[i].served
      /\ c.what = calls[i].what /\ c.right = calls[i].right /\ c.hush = calls[i].hush
  BY <1>1 DEF CallSet
<1> HIDE DEF c
<1>4. /\ calls' \in Seq(CallSet) /\ DOMAIN calls' = DOMAIN calls
      /\ calls'[i] = c
      /\ \A j \in DOMAIN calls : j # i => calls'[j] = calls[j]
  <2>1. calls' = [calls EXCEPT ![i] = c]
    BY <1>2 DEF c
  <2> QED BY <1>1, <1>3, <2>1, Changed
<1>5. \A j \in DOMAIN calls : /\ calls'[j].served = calls[j].served /\ calls'[j].what = calls[j].what
                              /\ calls'[j].hush = calls[j].hush /\ calls'[j].right = calls[j].right
                              /\ calls'[j].at = "sent" => calls[j].at = "sent"
  BY <1>2, <1>3, <1>4
<1>6. ServiceNumbered'
  BY <1>4, <1>5, NumbersStay
<1>7. loginSuccess' = loginSuccess
  BY DEF Signing!PreHandle, Signing!ListPage, Signing!Receive, Signing!Lose
<1>8. SignedInByLogin'
  BY <1>4, <1>5, <1>7 DEF SessionInv, SignedInByLogin, Opens
<1>9. page' \in [Browsers -> {"login", "console"}]
  BY <1>1 DEF Signing!PreHandle, Signing!ListPage, Signing!Receive, Signing!Lose, SessionInv, SessionTyped, CallSet
<1>10. quiet' = quiet \/ (quiet' \in Nat /\ Outlives(quiet'))
  <2>1. CASE Signing!Receive(i) /\ quiet' # quiet
    <3>1. /\ quiet' = i /\ calls[i].what = "logout" /\ calls[i].at = "answered"
          /\ \A j \in DOMAIN calls : calls[j].what = "login" => j < i
      BY <2>1 DEF Signing!Receive
    <3>2. calls[i].served > 0 /\ i \in Nat
      BY <1>1, <3>1, CallsType DEF SessionInv, AnsweredServed
    <3>3. Outlives(i)
      BY <3>1, <3>2 DEF Outlives
    <3> QED BY <3>1, <3>2, <3>3
  <2>2. CASE ~ Signing!Receive(i)
    BY <2>2 DEF Signing!PreHandle, Signing!ListPage, Signing!Lose
  <2> QED BY <2>1, <2>2
<1>11. Continues
  BY <1>4, <1>5 DEF Continues
<1>12. ASSUME NEW k \in Nat, NEW j \in DOMAIN calls, Hushed(k, j), LetIn(j)'
       PROVE  LetIn(j) \/ Overtaken(k)
  <2>1. CASE j # i
    BY <1>4, <1>12, <2>1 DEF LetIn
  <2>2. CASE j = i /\ ~ LetIn(j)
    <3>1. loginSuccess
      BY <1>2, <1>3, <1>4, <1>12, <2>2 DEF LetIn
    <3>2. PICK l \in DOMAIN calls : Opens(l)
      BY <3>1 DEF SessionInv, SignedInByLogin
    <3>3. Outlives(k)
      BY <1>12 DEF SessionInv, QuietOutlives, Silencing, Hushed
    <3>4. calls[k].served \in Nat /\ calls[l].served \in Nat
      BY <1>1, <3>2, <3>3 DEF Outlives, CallSet
    <3>5. Overtook(k, l)
      BY <3>2, <3>3, <3>4 DEF Opens, Outlives, Overtook
    <3> QED BY <3>5 DEF Overtaken
  <2> QED BY <2>1, <2>2
<1>13. QuietOutlives' /\ HushedAreLate'
  <2>1. /\ \A j \in DOMAIN calls : calls'[j].hush = calls[j].hush
        /\ \A j \in DOMAIN calls' : j \notin DOMAIN calls => calls'[j].hush = quiet /\ ~ LetIn(j)'
    BY <1>4, <1>5
  <2> QED BY <1>10, <1>11, <1>12, <2>1, HistoryStays
<1>14. AnsweredServed'
  BY <1>2, <1>3, <1>4, <1>5 DEF SessionInv, AnsweredServed
<1>15. quiet' \in Nat
  BY <1>10 DEF SessionInv, SessionTyped
<1> QED BY <1>4, <1>6, <1>7, <1>8, <1>9, <1>13, <1>14, <1>15 DEF SessionInv, SessionTyped

-----------------------------------------------------------------------------
LEMMA SessionInvariant == Signing!Spec => []SessionInv
<1>1. Signing!Init => SessionInv
  <2> SUFFICES ASSUME Signing!Init PROVE SessionInv
    OBVIOUS
  <2>1. calls = <<>> /\ calls \in Seq(CallSet) /\ DOMAIN calls = {}
    BY EmptySeq DEF Signing!Init
  <2>2. ServedCalls = {}
    BY <2>1 DEF ServedCalls
  <2>3. ServiceNumbered
    BY <2>1, <2>2, FS_EmptySet DEF ServiceNumbered
  <2> QED BY <2>1, <2>3 DEF Signing!Init, SessionInv, SessionTyped, SignedInByLogin, AnsweredServed,
           QuietOutlives, HushedAreLate, Silencing
<1>2. SessionInv /\ [Signing!Next]_Signing!vars => SessionInv'
  <2> SUFFICES ASSUME SessionInv, [Signing!Next]_Signing!vars
               PROVE  SessionInv'
    OBVIOUS
  <2>1. ASSUME UNCHANGED <<loginSuccess, calls, quiet>>, page' \in [Browsers -> {"login", "console"}]
        PROVE  SessionInv'
    BY <2>1 DEF SessionInv, SessionTyped, ServiceNumbered, ServedCalls, SignedInByLogin, Opens,
                AnsweredServed, QuietOutlives, Silencing, Outlives, HushedAreLate, Hushed, LetIn,
                Overtaken, Overtook
  <2>2. ASSUME NEW b \in Browsers, Signing!OpenConsole(b)
        PROVE  SessionInv'
    BY <2>1, <2>2 DEF Signing!OpenConsole, SessionInv, SessionTyped
  <2>3. CASE UNCHANGED Signing!vars
    BY <2>1, <2>3 DEF Signing!vars, SessionInv, SessionTyped
  <2> QED BY <2>2, <2>3, SubmitFormKeeps, AskKeeps, ServeKeeps, OtherCallsKeep DEF Signing!Next, Signing!Step
<1> QED BY <1>1, <1>2, PTL DEF Signing!Spec

\* Every call is one a browser made, and the pages are those of the console.
THEOREM SessionTypes == Signing!Spec => []Signing!TypeOK
<1>1. SessionInv => Signing!TypeOK
  BY CallsType DEF SessionInv, SessionTyped, Signing!TypeOK, CallSet
<1> QED BY <1>1, SessionInvariant, PTL

LEMMA SigningRuns == Spec => Signing!Spec
<1>1. Init => Signing!Init
  BY DEF Init
<1>2. [Next]_vars => [Signing!Next]_Signing!vars
  BY DEF Next, vars, logins, Signing!vars
<1> QED BY <1>1, <1>2, PTL DEF Spec, Signing!Spec

(* Session: any browsers and any number of calls, overlapping, lost and        *)
(* answered in any order.  Once a sign-out was acknowledged and until a login  *)
(* form is submitted again, a list asked for is served only after a right      *)
(* login that the sign-out overtook.                                           *)
THEOREM SignedOut == Spec => []OnlyALateLoginReopens
<1>1. SessionInv => OnlyALateLoginReopens
  <2> SUFFICES ASSUME SessionInv, NEW i \in DOMAIN calls,
                      calls[i].hush # 0, calls[i].what = "listPage", calls[i].data
               PROVE  \E j \in 1..calls[i].hush - 1 :
                          /\ calls[j].what = "login" /\ calls[j].right
                          /\ calls[j].served > calls[calls[i].hush].served
    BY DEF OnlyALateLoginReopens, Signing!OnlyALateLoginReopens
  <2> DEFINE k == calls[i].hush
  <2>1. k \in Nat /\ DOMAIN calls = 1..Len(calls) /\ Len(calls) \in Nat
    BY CallsType DEF SessionInv, SessionTyped, CallSet
  <2>2. Overtaken(k)
    BY <2>1 DEF SessionInv, HushedAreLate, Hushed, LetIn
  <2> QED BY <2>1, <2>2 DEF Overtaken, Overtook
<1> QED BY <1>1, SessionInvariant, SigningRuns, PTL

-----------------------------------------------------------------------------
(* Startup.                                                                    *)

LEMMA BootRuns == Spec => Booting!Spec
<1>1. Init => Booting!Init
  BY DEF Init
<1>2. [Next]_vars => [Booting!Next]_Booting!vars
  BY DEF Next, vars, programs, Booting!vars
<1> QED BY <1>1, <1>2, PTL DEF Spec, Booting!Spec


LEMMA InitTypes == Booting!Init => Booting!TypeOK
BY BoundsAssumption DEF Booting!Init, Booting!TypeOK, Booting!Phases, Booting!Names

LEMMA BootTypes ==
    ASSUME Booting!TypeOK, NEW a \in Admins, Booting!Boot(a)
    PROVE  Booting!TypeOK'
<1>1. CASE Booting!GetJoin(a)
  BY <1>1 DEF Booting!TypeOK, Booting!Phases, Booting!GetJoin, Booting!Go, Booting!Fail
<1>2. CASE Booting!InitRepository(a)
  BY <1>2 DEF Booting!TypeOK, Booting!Phases, Booting!InitRepository, Booting!Go, Booting!Fail
<1>3. CASE Booting!Connect(a) \/ Booting!Await(a)
  BY <1>3 DEF Booting!TypeOK, Booting!Phases, Booting!Connect, Booting!Await, Booting!Go, Booting!Fail
<1>4. ASSUME Booting!Unanswered(a)
      PROVE  /\ phase' \in [Admins -> Booting!Phases] /\ lost' \in 0..MaxLosses
             /\ why' \in [Admins -> {"-", "name", "config", "session", "exists"}]
             /\ session' \in [Admins -> {"none", "connecting", "connected"}]
  BY <1>4, BoundsAssumption DEF Booting!TypeOK, Booting!Phases, Booting!Unanswered, Booting!Fail, Booting!Go
<1>5. CASE Booting!Exists(a)
  BY <1>4, <1>5 DEF Booting!TypeOK, Booting!Phases, Booting!Exists, Booting!Go
<1>6. CASE Booting!Create(a)
  BY <1>4, <1>6 DEF Booting!TypeOK, Booting!Phases, Booting!Create, Booting!Go, Booting!Fail
<1> QED BY <1>1, <1>2, <1>3, <1>5, <1>6 DEF Booting!Boot

\* Whatever the admins do, each is in one of its phases.
LEMMA StartupTypes == Booting!Spec => []Booting!TypeOK
<1>1. Booting!TypeOK /\ [Booting!Next]_Booting!vars => Booting!TypeOK'
  <2> SUFFICES ASSUME Booting!TypeOK, [Booting!Next]_Booting!vars
               PROVE  Booting!TypeOK'
    OBVIOUS
  <2>1. ASSUME NEW a \in Admins, Booting!Start(a) \/ Booting!Stop(a)
        PROVE  Booting!TypeOK'
    BY <2>1 DEF Booting!TypeOK, Booting!Phases, Booting!Start, Booting!Stop, Booting!Go
  <2>2. ASSUME NEW a \in Admins, Booting!SyncConnected(a)
        PROVE  Booting!TypeOK'
    BY <2>2 DEF Booting!TypeOK, Booting!SyncConnected
  <2>3. ASSUME NEW a \in Admins, Booting!Disconnected(a)
        PROVE  Booting!TypeOK'
    BY <2>3, BoundsAssumption DEF Booting!TypeOK, Booting!Disconnected
  <2>4. CASE UNCHANGED Booting!vars
    BY <2>4 DEF Booting!TypeOK, Booting!vars
  <2> QED BY <2>1, <2>2, <2>3, <2>4, BootTypes DEF Booting!Next
<1> QED BY <1>1, InitTypes, PTL DEF Booting!Spec

-----------------------------------------------------------------------------
\* The root node, once there, stays; a step that makes an admin serve, or
\* refuses it because of the node, finds or makes it.
LEMMA RootStays ==
    ASSUME [Booting!Next]_Booting!vars
    PROVE  root => root'
BY DEF Booting!Next, Booting!vars, Booting!Start, Booting!Stop, Booting!Boot, Booting!GetJoin, Booting!InitRepository, Booting!Connect, Booting!Await, Booting!Exists, Booting!Create,
       Booting!SyncConnected, Booting!Disconnected

LEMMA BootUnderRoot ==
    ASSUME Booting!TypeOK, Booting!ReadyUnderRoot, NEW a \in Admins, Booting!Boot(a), NEW b \in Admins,
           name'[b] = "zookeeper", phase'[b] = "ready" \/ why'[b] = "exists"
    PROVE  root'
<1>1. /\ phase \in [Admins -> Booting!Phases] /\ why \in [Admins -> {"-", "name", "config", "session", "exists"}]
      /\ name' = name /\ (root => root')
      /\ (phase[b] = "ready" \/ why[b] = "exists") => root
  BY DEF Booting!TypeOK, Booting!ReadyUnderRoot, Booting!Boot, Booting!GetJoin, Booting!InitRepository, Booting!Connect, Booting!Await, Booting!Exists, Booting!Create
<1>2. CASE Booting!GetJoin(a)
  BY <1>1, <1>2 DEF Booting!GetJoin, Booting!Go, Booting!Fail
<1>3. CASE Booting!InitRepository(a)
  BY <1>1, <1>3 DEF Booting!InitRepository, Booting!Go, Booting!Fail
<1>4. CASE Booting!Connect(a) \/ Booting!Await(a)
  BY <1>1, <1>4 DEF Booting!Connect, Booting!Await, Booting!Go, Booting!Fail
<1>5. CASE Booting!Exists(a)
  BY <1>1, <1>5 DEF Booting!Exists, Booting!Go, Booting!Fail, Booting!Unanswered
<1>6. CASE Booting!Create(a)
  BY <1>1, <1>6 DEF Booting!Create, Booting!Go, Booting!Fail, Booting!Unanswered
<1> QED BY <1>2, <1>3, <1>4, <1>5, <1>6 DEF Booting!Boot

\* Any number of admins: one that serves on ZooKeeper has a root node, and one
\* that failed because the node exists finds it when it starts again.
LEMMA ServesUnderRoot == Booting!Spec => []Booting!ReadyUnderRoot
<1>1. Booting!Init => Booting!ReadyUnderRoot
  BY DEF Booting!Init, Booting!ReadyUnderRoot
<1>2. Booting!TypeOK /\ Booting!ReadyUnderRoot /\ [Booting!Next]_Booting!vars => Booting!ReadyUnderRoot'
  <2> SUFFICES ASSUME Booting!TypeOK, Booting!ReadyUnderRoot, [Booting!Next]_Booting!vars, NEW b \in Admins,
                      name'[b] = "zookeeper", phase'[b] = "ready" \/ why'[b] = "exists"
               PROVE  root'
    BY DEF Booting!ReadyUnderRoot
  <2>1. ASSUME NEW a \in Admins, Booting!Boot(a)
        PROVE  root'
    BY <2>1, BootUnderRoot
  <2>2. ASSUME NEW a \in Admins, Booting!Start(a) \/ Booting!Stop(a) \/ Booting!SyncConnected(a) \/ Booting!Disconnected(a)
        PROVE  root'
    <3>1. name' = name /\ (phase'[b] = "ready" => phase[b] = "ready") /\ (why'[b] = "exists" => why[b] = "exists")
      BY <2>2 DEF Booting!TypeOK, Booting!Start, Booting!Stop, Booting!SyncConnected, Booting!Disconnected, Booting!Go
    <3> QED BY <3>1, RootStays DEF Booting!ReadyUnderRoot
  <2>3. CASE UNCHANGED Booting!vars
    BY <2>3 DEF Booting!ReadyUnderRoot, Booting!vars
  <2> QED BY <2>1, <2>2, <2>3 DEF Booting!Next
<1> QED BY <1>1, <1>2, StartupTypes, PTL DEF Booting!Spec

(* On ZooKeeper an admin serves, and one that failed because the root node      *)
(* exists can start again, only under a root node that exists: any number of    *)
(* admins, sessions and connections lost (ZookeeperCoordinatorRepository.init).  *)
THEOREM ReadinessNeedsRoot == Spec => []ReadyUnderRoot
<1>1. Booting!ReadyUnderRoot => ReadyUnderRoot
  BY DEF ReadyUnderRoot
<1> QED BY <1>1, BootRuns, ServesUnderRoot, PTL

-----------------------------------------------------------------------------
(* HttpClient: the invariant.                                                  *)

HttpHandlers == [kind : Http!Interceptor \cup {"send"}, at : Nat]
HttpTyped ==
    /\ transport \in {"xhr", "jsonp", "broken"}
    /\ reqHandlers \in Seq(HttpHandlers) /\ resHandlers \in Seq(HttpHandlers)
    /\ stage \in {"request", "sent", "respond", "done", "thrown"}
    /\ fired \subseteq Http!Events
    /\ response \in Http!Results /\ settled \in Http!Results
    /\ callback \in {"none", "success", "failure"}
    /\ ran \in [asked : Seq(Nat), handled : Seq(Nat)]

\* sendRequest stays until no interceptor is left, and nothing is answered
\* before.
SendIsFirst ==
    /\ \A i \in DOMAIN reqHandlers : reqHandlers[i].kind = "send" <=> i = 1
    /\ stage = "request" => fired = {} /\ response = "pending"
    /\ stage \in {"request", "sent", "thrown"} => settled = "pending"
    /\ stage = "respond" => settled \in {"pending", "exception"}
    /\ stage = "sent" => response = "pending"

\* What came back is loaded, or given by an interceptor.
Loaded == "load" \in fired \/ reqHandlers # <<>>
OkIsLoaded ==
    /\ response = "ok" \/ settled = "ok" => Loaded
    /\ response = "undefined" => settled = "exception"
    /\ callback = "success" => settled = "ok"

\* The handlers that have run, and then those to come, are those the
\* interceptors asked for, the last one first: until an exception passed one by.
Reversed(done, rest, asked) ==
    /\ Len(done) + Len(rest) = Len(asked)
    /\ \A i \in 1..Len(done) : done[i] = asked[Len(asked) - i + 1]
    /\ \A i \in 1..Len(rest) : rest[i].at = asked[Len(rest) - i + 1]
InReverse ==
    /\ settled \in {"pending", "ok"} => Reversed(ran.handled, resHandlers, ran.asked)
    /\ stage \in {"request", "sent"} => ran.handled = <<>>
    /\ settled = "ok" => resHandlers = <<>>

HttpInv == HttpTyped /\ SendIsFirst /\ OkIsLoaded /\ InReverse

LEMMA ReversedEmpty == Reversed(<<>>, <<>>, <<>>)
BY DEF Reversed

LEMMA ReversedAsk ==
    ASSUME NEW rest \in Seq(HttpHandlers), NEW asked \in Seq(Nat), NEW h \in HttpHandlers,
           Reversed(<<>>, rest, asked)
    PROVE  Reversed(<<>>, <<h>> \o rest, Append(asked, h.at))
<1> DEFINE k == Len(rest)
           more == <<h>> \o rest
           all == Append(asked, h.at)
<1>1. k \in Nat /\ h.at \in Nat /\ Len(<<>>) = 0
  BY LenProperties DEF HttpHandlers
<1>2. k = Len(asked) /\ \A i \in 1..k : rest[i].at = asked[k - i + 1]
  BY <1>1, LenProperties DEF Reversed
<1>3. /\ Len(more) = k + 1
      /\ \A i \in 1..k + 1 : more[i] = IF i = 1 THEN h ELSE rest[i - 1]
  <2>1. <<h>> \in Seq(HttpHandlers) /\ Len(<<h>>) = 1 /\ <<h>>[1] = h
    OBVIOUS
  <2> QED BY <1>1, <2>1, ConcatProperties
<1>4. /\ Len(all) = k + 1 /\ all[k + 1] = h.at
      /\ \A i \in 1..k : all[i] = asked[i]
  BY <1>1, <1>2, AppendProperties
<1> HIDE DEF more, all, k
<1>5. ASSUME NEW i \in 1..k + 1
      PROVE  more[i].at = all[(k + 1) - i + 1]
  <2>1. CASE i = 1
    BY <1>1, <1>3, <1>4, <2>1
  <2>2. CASE i # 1
    <3>1. i - 1 \in 1..k /\ k - (i - 1) + 1 = (k + 1) - i + 1 /\ (k + 1) - i + 1 \in 1..k
      BY <1>1, <2>2
    <3>2. more[i].at = asked[(k + 1) - i + 1]
      BY <1>2, <1>3, <2>2, <3>1
    <3> QED BY <1>4, <3>1, <3>2
  <2> QED BY <2>1, <2>2
<1>6. Reversed(<<>>, more, all)
  BY <1>1, <1>3, <1>4, <1>5 DEF Reversed
<1> QED BY <1>6 DEF more, all

LEMMA ReversedHandle ==
    ASSUME NEW done \in Seq(Nat), NEW rest \in Seq(HttpHandlers), NEW asked \in Seq(Nat), rest # <<>>,
           Reversed(done, rest, asked)
    PROVE  Reversed(Append(done, Head(rest).at), Tail(rest), asked)
<1> DEFINE n == Len(done)
           k == Len(rest)
           more == Append(done, Head(rest).at)
           less == Tail(rest)
<1>1. /\ n \in Nat /\ k \in Nat \ {0} /\ Head(rest) = rest[1] /\ rest[1] \in HttpHandlers
      /\ Len(less) = k - 1 /\ \A i \in 1..k - 1 : less[i] = rest[i + 1]
  BY LenProperties, HeadTailProperties, EmptySeq, ElementOfSeq
<1>2. /\ n + k = Len(asked) /\ \A i \in 1..n : done[i] = asked[(n + k) - i + 1]
      /\ \A i \in 1..k : rest[i].at = asked[k - i + 1]
  BY DEF Reversed
<1>3. /\ Len(more) = n + 1 /\ more[n + 1] = rest[1].at
      /\ \A i \in 1..n : more[i] = done[i]
  <2>1. rest[1].at \in Nat
    BY <1>1 DEF HttpHandlers
  <2> QED BY <1>1, <2>1, AppendProperties
<1> HIDE DEF n, k, more, less
<1>4. ASSUME NEW i \in 1..n + 1
      PROVE  more[i] = asked[(n + k) - i + 1]
  <2>1. CASE i = n + 1
    <3>1. (n + k) - i + 1 = k /\ 1 \in 1..k /\ k - 1 + 1 = k
      BY <1>1, <2>1
    <3> QED BY <1>2, <1>3, <2>1, <3>1
  <2>2. CASE i # n + 1
    <3>1. i \in 1..n
      BY <1>1, <2>2
    <3> QED BY <1>2, <1>3, <3>1
  <2> QED BY <2>1, <2>2
<1>5. ASSUME NEW i \in 1..k - 1
      PROVE  less[i].at = asked[(k - 1) - i + 1]
  <2>1. i + 1 \in 1..k /\ k - (i + 1) + 1 = (k - 1) - i + 1
    BY <1>1
  <2> QED BY <1>1, <1>2, <2>1
<1>6. (n + 1) + (k - 1) = n + k
  BY <1>1
<1>7. Reversed(more, less, asked)
  BY <1>1, <1>2, <1>3, <1>4, <1>5, <1>6 DEF Reversed
<1> QED BY <1>7 DEF more, less

LEMMA ReversedEnd ==
    ASSUME NEW done \in Seq(Nat), NEW asked \in Seq(Nat), Reversed(done, <<>>, asked)
    PROVE  done = Http!Reverse(asked)
<1> DEFINE n == Len(asked)
<1>1. n \in Nat /\ Len(done) = n /\ \A i \in 1..n : done[i] = asked[n - i + 1]
  BY LenProperties DEF Reversed
<1>2. done = [i \in 1..n |-> done[i]]
  BY <1>1, LenProperties
<1> QED BY <1>1, <1>2 DEF Http!Reverse

LEMMA HttpInit ==
    ASSUME Http!Init
    PROVE  HttpInv
<1>1. PICK kinds \in Http!BoundedSeq(Http!Interceptor, MaxInterceptors) :
          reqHandlers = <<[kind |-> "send", at |-> 0]>>
                            \o [i \in DOMAIN kinds |-> [kind |-> kinds[i], at |-> i]]
  BY DEF Http!Init
<1>2. kinds \in Seq(Http!Interceptor)
  <2>1. PICK n \in 0..MaxInterceptors : kinds \in [1..n -> Http!Interceptor]
    BY <1>1 DEF Http!BoundedSeq, Http!SeqOf
  <2> QED BY <2>1, BoundsAssumption, SeqDef
<1> DEFINE send == [kind |-> "send", at |-> 0]
           rest == [i \in DOMAIN kinds |-> [kind |-> kinds[i], at |-> i]]
<1>3. send \in HttpHandlers
  BY DEF HttpHandlers
<1>4. /\ rest \in Seq(HttpHandlers) /\ Len(rest) \in Nat
      /\ \A i \in DOMAIN rest : rest[i].kind # "send"
  <2>1. /\ Len(kinds) \in Nat /\ DOMAIN kinds = 1..Len(kinds)
        /\ \A i \in DOMAIN kinds : kinds[i] \in Http!Interceptor
    BY <1>2, LenProperties, ElementOfSeq
  <2>2. rest \in [1..Len(kinds) -> HttpHandlers]
    BY <2>1 DEF HttpHandlers
  <2> QED BY <2>1, <2>2, SeqDef, LenProperties DEF Http!Interceptor
<1>5. <<send>> \in Seq(HttpHandlers) /\ Len(<<send>>) = 1 /\ <<send>>[1] = send
  BY <1>3
<1> HIDE DEF send, rest
<1>6. /\ reqHandlers \in Seq(HttpHandlers)
      /\ DOMAIN reqHandlers = 1..Len(rest) + 1
      /\ reqHandlers[1] = send
      /\ \A i \in 2..Len(rest) + 1 : i - 1 \in DOMAIN rest /\ reqHandlers[i] = rest[i - 1]
  <2>1. reqHandlers = <<send>> \o rest
    BY <1>1 DEF send, rest
  <2> QED BY <1>4, <1>5, <2>1, ConcatProperties, LenProperties
<1>7. \A i \in DOMAIN reqHandlers : reqHandlers[i].kind = "send" <=> i = 1
  BY <1>4, <1>6 DEF send
<1>8. /\ <<>> \in Seq(Nat) /\ <<>> \in Seq(HttpHandlers) /\ Len(<<>>) = 0
  OBVIOUS
<1>9. HttpTyped
  BY <1>6, <1>8 DEF Http!Init, HttpTyped, Http!Results
<1> QED BY <1>7, <1>9, ReversedEmpty DEF Http!Init, HttpInv, SendIsFirst, OkIsLoaded, InReverse

-----------------------------------------------------------------------------
\* An interceptor is taken from the end.
LEMMA Popping ==
    ASSUME HttpInv, NEW h \in {reqHandlers[i] : i \in DOMAIN reqHandlers}, Http!Pop(h)
    PROVE  /\ reqHandlers' \in Seq(HttpHandlers)
           /\ h \in HttpHandlers
           /\ \A i \in DOMAIN reqHandlers' : reqHandlers'[i].kind = "send" <=> i = 1
           /\ (h.kind = "send") <=> (reqHandlers' = <<>>)
           /\ reqHandlers # <<>>
<1> DEFINE n == Len(reqHandlers)
<1>1. reqHandlers \in Seq(HttpHandlers) /\ n \in Nat /\ DOMAIN reqHandlers = 1..n
  BY LenProperties DEF HttpInv, HttpTyped
<1>2. h \in HttpHandlers /\ n > 0
  BY <1>1, ElementOfSeq
<1>3. h = reqHandlers[n] /\ reqHandlers' = SubSeq(reqHandlers, 1, n - 1)
  BY DEF Http!Pop, Http!Last, Http!Front
<1>4. /\ reqHandlers' \in Seq(HttpHandlers) /\ Len(reqHandlers') = n - 1 /\ DOMAIN reqHandlers' = 1..n - 1
      /\ \A i \in 1..n - 1 : reqHandlers'[i] = reqHandlers[i]
  BY <1>1, <1>2, <1>3, SubSeqProperties, ElementOfSeq, LenProperties
<1>5. (reqHandlers' = <<>>) <=> (n = 1)
  BY <1>1, <1>2, <1>4, EmptySeq
<1>6. h.kind = "send" <=> n = 1
  BY <1>1, <1>2, <1>3 DEF HttpInv, SendIsFirst
<1>7. reqHandlers # <<>>
  BY <1>1, <1>2
<1> QED BY <1>1, <1>2, <1>4, <1>5, <1>6, <1>7 DEF HttpInv, SendIsFirst

LEMMA InterceptKeeps ==
    ASSUME HttpInv, NEW h \in {reqHandlers[i] : i \in DOMAIN reqHandlers}, Http!Intercept(h)
    PROVE  HttpInv'
<1>1. /\ Http!Pop(h) /\ stage = "request" /\ UNCHANGED <<transport, stage, fired, response, settled, callback>>
      /\ settled = "pending"
  BY DEF Http!Intercept, Http!Pop, HttpInv, SendIsFirst
<1>2. /\ h \in HttpHandlers /\ h.at \in Nat /\ reqHandlers' \in Seq(HttpHandlers)
      /\ resHandlers \in Seq(HttpHandlers) /\ ran \in [asked : Seq(Nat), handled : Seq(Nat)]
  BY <1>1, Popping DEF HttpInv, HttpTyped, HttpHandlers
<1>3. CASE h.kind = "plain"
  <2>1. resHandlers' = resHandlers /\ ran' = ran
    BY <1>3 DEF Http!Intercept
  <2> QED BY <1>1, <1>2, <2>1, Popping DEF HttpInv, HttpTyped, SendIsFirst, OkIsLoaded, Loaded, InReverse
<1>4. CASE h.kind # "plain"
  <2>1. /\ resHandlers' = <<h>> \o resHandlers
        /\ ran' = [ran EXCEPT !.asked = Append(@, h.at)]
    BY <1>4 DEF Http!Intercept, Http!Afterwards
  <2>2. /\ resHandlers' \in Seq(HttpHandlers) /\ ran' \in [asked : Seq(Nat), handled : Seq(Nat)]
        /\ ran'.handled = ran.handled /\ ran'.asked = Append(ran.asked, h.at)
    <3>1. Append(ran.asked, h.at) \in Seq(Nat)
      BY <1>2
    <3>2. ran.asked \in Seq(Nat) /\ ran.handled \in Seq(Nat)
      BY <1>2
    <3>3. <<h>> \in Seq(HttpHandlers)
      BY <1>2
    <3>4. ran'.handled = ran.handled /\ ran'.asked = Append(ran.asked, h.at)
      BY <1>2, <2>1
    <3>5. ran' \in [asked : Seq(Nat), handled : Seq(Nat)]
      BY <1>2, <2>1, <3>1, <3>2
    <3> QED BY <1>2, <2>1, <3>3, <3>4, <3>5, ConcatProperties
  <2>3. InReverse'
    <3>1. ran.handled = <<>> /\ Reversed(<<>>, resHandlers, ran.asked)
      BY <1>1 DEF HttpInv, InReverse
    <3>2. Reversed(<<>>, resHandlers', ran'.asked)
      BY <1>2, <2>1, <2>2, <3>1, ReversedAsk
    <3> QED BY <1>1, <2>2, <3>1, <3>2 DEF InReverse
  <2> QED BY <1>1, <1>2, <2>2, <2>3, Popping DEF HttpInv, HttpTyped, SendIsFirst, OkIsLoaded, Loaded
<1> QED BY <1>3, <1>4

LEMMA RequestKeeps ==
    ASSUME HttpInv, NEW h \in {reqHandlers[i] : i \in DOMAIN reqHandlers},
           Http!InterceptorAnswers(h) \/ Http!InterceptorThrows(h) \/ Http!SendRequest(h)
    PROVE  HttpInv'
<1>1. /\ Http!Pop(h) /\ stage = "request" /\ UNCHANGED <<transport, fired, settled, callback, resHandlers, ran>>
      /\ settled = "pending" /\ response = "pending" /\ callback # "success"
  BY DEF Http!InterceptorAnswers, Http!InterceptorThrows, Http!SendRequest, Http!Pop, HttpInv, SendIsFirst, OkIsLoaded
<1>2. /\ reqHandlers' \in Seq(HttpHandlers)
      /\ \A i \in DOMAIN reqHandlers' : reqHandlers'[i].kind = "send" <=> i = 1
      /\ (h.kind = "send") <=> (reqHandlers' = <<>>)
  BY <1>1, Popping
<1>3. InReverse'
  BY <1>1 DEF HttpInv, InReverse, Http!InterceptorAnswers, Http!InterceptorThrows, Http!SendRequest
<1>4. CASE Http!InterceptorAnswers(h)
  BY <1>1, <1>2, <1>3, <1>4 DEF Http!InterceptorAnswers, HttpInv, HttpTyped, SendIsFirst, OkIsLoaded, Loaded, Http!Results
<1>5. CASE Http!InterceptorThrows(h)
  BY <1>1, <1>2, <1>3, <1>5 DEF Http!InterceptorThrows, HttpInv, HttpTyped, SendIsFirst, OkIsLoaded, Loaded, Http!Results
<1>6. CASE Http!SendRequest(h)
  BY <1>1, <1>2, <1>3, <1>6 DEF Http!SendRequest, HttpInv, HttpTyped, SendIsFirst, OkIsLoaded, Loaded, Http!Results
<1> QED BY <1>4, <1>5, <1>6

LEMMA TransportKeeps ==
    ASSUME HttpInv, NEW e \in Http!Events, Http!TransportEvent(e)
    PROVE  HttpInv'
<1>1. /\ stage # "request" /\ reqHandlers = <<>> /\ fired' = fired \cup {e}
      /\ UNCHANGED <<transport, reqHandlers, resHandlers, settled, callback, ran>>
  BY DEF Http!TransportEvent
<1>2. CASE stage = "sent"
  <2>1. stage' = "respond" /\ response' = (IF e = "load" THEN "ok" ELSE "bad") /\ settled = "pending"
    BY <1>2 DEF Http!TransportEvent, HttpInv, SendIsFirst
  <2> QED BY <1>1, <1>2, <2>1 DEF HttpInv, HttpTyped, SendIsFirst, OkIsLoaded, Loaded, InReverse, Http!Results
<1>3. CASE stage # "sent"
  <2>1. UNCHANGED <<stage, response>>
    BY <1>3 DEF Http!TransportEvent
  <2> QED BY <1>1, <1>3, <2>1 DEF HttpInv, HttpTyped, SendIsFirst, OkIsLoaded, Loaded, InReverse
<1> QED BY <1>2, <1>3

LEMMA HandleKeeps ==
    ASSUME HttpInv, Http!HandleResponse
    PROVE  HttpInv'
<1>1. /\ stage = "respond" /\ resHandlers # <<>> /\ resHandlers \in Seq(HttpHandlers)
      /\ ran \in [asked : Seq(Nat), handled : Seq(Nat)] /\ settled # "ok"
      /\ UNCHANGED <<transport, reqHandlers, stage, fired, callback>>
  BY DEF Http!HandleResponse, HttpInv, HttpTyped, InReverse
<1>2. /\ resHandlers' = Tail(resHandlers) /\ resHandlers' \in Seq(HttpHandlers)
      /\ Head(resHandlers) \in HttpHandlers
  BY <1>1, HeadTailProperties DEF Http!HandleResponse
<1>3. CASE response = "exception"
  <2>1. ran' = ran /\ response' = "undefined" /\ settled' = IF settled = "pending" THEN "exception" ELSE settled
    BY <1>3 DEF Http!HandleResponse, Http!Settle
  <2>2. settled' \notin {"pending", "ok"} /\ settled' \in Http!Results
    BY <1>1, <2>1 DEF HttpInv, HttpTyped, Http!Results
  <2>3. "undefined" \in Http!Results /\ (settled # "pending" => settled' = settled)
    BY <2>1 DEF Http!Results
  <2>4. OkIsLoaded'
    BY <1>1, <1>3, <2>1, <2>2 DEF HttpInv, OkIsLoaded, SendIsFirst, Loaded
  <2> QED BY <1>1, <1>2, <2>1, <2>2, <2>3, <2>4
          DEF HttpInv, HttpTyped, SendIsFirst, InReverse
<1>4. CASE response # "exception"
  <2>1. /\ settled' = settled /\ response' \in {response, "exception"}
        /\ response = "undefined" => response' = "exception"
        /\ ran' = [ran EXCEPT !.handled = Append(@, Head(resHandlers).at)]
    BY <1>4 DEF Http!HandleResponse
  <2>2. /\ ran' \in [asked : Seq(Nat), handled : Seq(Nat)] /\ ran'.asked = ran.asked
        /\ ran'.handled = Append(ran.handled, Head(resHandlers).at)
    <3>1. Append(ran.handled, Head(resHandlers).at) \in Seq(Nat)
      BY <1>1, <1>2 DEF HttpHandlers
    <3> QED BY <1>1, <2>1, <3>1
  <2>3. InReverse'
    <3>1. settled = "pending" => Reversed(ran'.handled, resHandlers', ran'.asked)
      BY <1>1, <1>2, <2>2, ReversedHandle DEF HttpInv, InReverse
    <3> QED BY <1>1, <2>1, <3>1 DEF InReverse
  <2> QED BY <1>1, <1>2, <1>4, <2>1, <2>2, <2>3 DEF HttpInv, HttpTyped, SendIsFirst, OkIsLoaded, Loaded, Http!Results
<1> QED BY <1>3, <1>4

LEMMA ConcludeKeeps ==
    ASSUME HttpInv, Http!Conclude \/ Http!Deliver
    PROVE  HttpInv'
<1>1. CASE Http!Conclude
  <2>1. /\ stage = "respond" /\ resHandlers = <<>> /\ Len(resHandlers) = 0 /\ stage' = "done"
        /\ settled' = IF settled = "pending" THEN response ELSE settled
        /\ UNCHANGED <<transport, reqHandlers, resHandlers, fired, response, callback, ran>>
    BY <1>1 DEF Http!Conclude, Http!Settle
  <2> QED BY <2>1 DEF HttpInv, HttpTyped, SendIsFirst, OkIsLoaded, Loaded, InReverse, Http!Results
<1>2. CASE Http!Deliver
  BY <1>2 DEF Http!Deliver, HttpInv, HttpTyped, SendIsFirst, OkIsLoaded, Loaded, InReverse
<1> QED BY <1>1, <1>2

LEMMA HttpInvariant == Http!Spec => []HttpInv
<1>1. ASSUME HttpInv, [Http!Next]_Http!vars
      PROVE  HttpInv'
  <2>1. CASE UNCHANGED Http!vars
    BY <1>1, <2>1 DEF Http!vars, HttpInv, HttpTyped, SendIsFirst, OkIsLoaded, Loaded, InReverse
  <2> QED BY <1>1, <2>1, InterceptKeeps, RequestKeeps, TransportKeeps, HandleKeeps, ConcludeKeeps
          DEF Http!Next, Http!Request
<1> QED BY <1>1, HttpInit, PTL DEF Http!Spec

LEMMA SuccessFollows ==
    ASSUME HttpInv
    PROVE  Http!SuccessIsHandled
<1> SUFFICES ASSUME callback = "success" PROVE Loaded /\ ran.handled = Http!Reverse(ran.asked)
  BY DEF Http!SuccessIsHandled, Loaded
<1>1. settled = "ok" /\ Loaded
  BY DEF HttpInv, OkIsLoaded
<1>2. Reversed(ran.handled, <<>>, ran.asked) /\ ran.handled \in Seq(Nat) /\ ran.asked \in Seq(Nat)
  BY <1>1 DEF HttpInv, InReverse, HttpTyped
<1> QED BY <1>1, <1>2, ReversedEnd

LEMMA SettlesOnce == Http!Spec => Http!ToldOnce
<1>1. ASSUME [Http!Next]_Http!vars
      PROVE  /\ settled # "pending" => settled' = settled
             /\ callback # "none" => callback' = callback
  BY <1>1 DEF Http!Next, Http!vars, Http!Request, Http!Pop, Http!Intercept, Http!InterceptorAnswers, Http!InterceptorThrows, Http!SendRequest,
              Http!TransportEvent, Http!HandleResponse, Http!Conclude, Http!Deliver, Http!Settle
<1> QED BY <1>1, PTL DEF Http!Spec, Http!ToldOnce
LEMMA HttpRuns == Spec => Http!Spec
<1>1. Init => Http!Init
  BY DEF Init
<1>2. [Next]_vars => [Http!Next]_Http!vars
  BY DEF Next, vars, clients, Http!vars
<1> QED BY <1>1, <1>2, PTL DEF Spec, Http!Spec

(* HttpClient: a page's success callback is called with a response that every   *)
(* response handler was given, in the reverse of the order in which the         *)
(* interceptors were run (vue-resource's Client), for any list of interceptors. *)
THEOREM HandlersSeeSuccess == Spec => []SuccessIsHandled
<1>1. HttpInv => SuccessIsHandled
  BY SuccessFollows DEF SuccessIsHandled
<1> QED BY <1>1, HttpRuns, HttpInvariant, PTL

-----------------------------------------------------------------------------
(* KeptPages: the invariant.                                                    *)

KeptTyped ==
    /\ route \in Keeping!Routes /\ dirty \subseteq {"app", "manage", "keep"} /\ updating \in BOOLEAN
    /\ manages \in 0..MaxManages /\ manage \in {0, manages}
    /\ keys \in Seq(Pages) /\ slot \in Pages \cup {None}
    /\ orphans \subseteq Keeping!Instances /\ life \in [Keeping!Instances -> Keeping!Lives]
    /\ queued \in Seq(Keeping!Instances)

\* What is dirty is what differs: App and the manage page until App has seen the
\* route, keep-alive until the page of the route is in it.
DirtyIsBehind ==
    /\ dirty # {} /\ ~updating => "app" \in dirty
    /\ "app" \in dirty /\ manage # 0 => "manage" \in dirty
    /\ "manage" \in dirty \/ "keep" \in dirty => manage # 0
    /\ "keep" \in dirty => updating /\ dirty = {"keep"}
    /\ "app" \notin dirty => ((manage = 0) <=> (route = "login"))
    /\ dirty = {} /\ manage # 0 => slot = route
    /\ manage = 0 => slot = None
    /\ "app" \in dirty /\ manage = 0 /\ route # "login" => manages < MaxManages

\* A page is queued only once it is shown, until the flush ends; the pages of a
\* manage page that was destroyed are pruned before.
QueuedIsShown ==
    /\ queued # <<>> => updating /\ dirty = {} /\ manage # 0
    /\ \A i \in DOMAIN queued : queued[i] = <<manage, slot>>
    /\ orphans # {} => updating /\ dirty = {} /\ manage = 0
    /\ manage = 0 => orphans = {<<manages, keys[i]>> : i \in DOMAIN keys}

\* The lives of the pages: of manage pages to come, gone, going, and shown.
LifeIsShown ==
    \A m \in 1..MaxManages, p \in Pages :
        LET l == life[<<m, p>>]
        IN  /\ m > manages => l = "none"
            /\ m < manages => l \in {"none", "destroyed"}
            /\ m = manages /\ manage = 0 =>
                  IF <<m, p>> \in orphans THEN l = "deactivated" ELSE l \in {"none", "destroyed"}
            /\ m = manages /\ manage # 0 =>
                  /\ l # "destroyed" /\ (Keeping!Contains(keys, p) <=> l # "none")
                  /\ p # slot => l \in {"none", "deactivated"}
                  /\ p = slot => IF queued = <<>> THEN l = "activated" ELSE l \in {"mounted", "deactivated"}

KeptInv == KeptTyped /\ DirtyIsBehind /\ QueuedIsShown /\ LifeIsShown

-----------------------------------------------------------------------------
LEMMA RemovedAt ==
    ASSUME NEW S, NEW s \in Seq(S), NEW k \in 1..Len(s)
    PROVE  /\ Keeping!RemoveAt(s, k) \in Seq(S) /\ Len(Keeping!RemoveAt(s, k)) = Len(s) - 1
           /\ \A i \in 1..Len(s) - 1 : Keeping!RemoveAt(s, k)[i] = IF i < k THEN s[i] ELSE s[i + 1]
<1> DEFINE n == Len(s)
           before == SubSeq(s, 1, k - 1)
           after == SubSeq(s, k + 1, n)
           less == Keeping!RemoveAt(s, k)
<1>1. n \in Nat /\ \A i \in 1..n : s[i] \in S
  BY LenProperties, ElementOfSeq
<1>2. k \in 1..n /\ less = before \o after
  BY DEF Keeping!RemoveAt
<1>3. /\ before \in Seq(S) /\ Len(before) = IF 1 <= k - 1 THEN (k - 1) - 1 + 1 ELSE 0
      /\ \A i \in 1..(k - 1) - 1 + 1 : before[i] = s[1 + i - 1]
  <2>1. \A i \in 1..k - 1 : s[i] \in S
    BY <1>1
  <2> QED BY <1>1, <2>1, SubSeqProperties
<1>4. /\ after \in Seq(S) /\ Len(after) = IF k + 1 <= n THEN n - (k + 1) + 1 ELSE 0
      /\ \A i \in 1..n - (k + 1) + 1 : after[i] = s[(k + 1) + i - 1]
  <2>1. \A i \in k + 1..n : s[i] \in S
    BY <1>1
  <2> QED BY <1>1, <2>1, SubSeqProperties
<1>5. /\ before \o after \in Seq(S) /\ Len(before \o after) = Len(before) + Len(after)
      /\ \A i \in 1..Len(before) + Len(after) :
            (before \o after)[i] = IF i <= Len(before) THEN before[i] ELSE after[i - Len(before)]
  <2> HIDE DEF before, after
  <2> QED BY <1>3, <1>4, ConcatProperties
<1> HIDE DEF n, before, after, less
<1>6. Len(before) = k - 1 /\ Len(after) = n - k /\ Len(before) + Len(after) = n - 1
  BY <1>1, <1>2, <1>3, <1>4
<1>7. less \in Seq(S) /\ Len(less) = n - 1
  BY <1>2, <1>5, <1>6
<1>8. ASSUME NEW i \in 1..n - 1
      PROVE  less[i] = IF i < k THEN s[i] ELSE s[i + 1]
  <2>1. less[i] = IF i <= k - 1 THEN before[i] ELSE after[i - (k - 1)]
    BY <1>2, <1>5, <1>6
  <2>2. CASE i < k
    <3>1. i \in 1..(k - 1) - 1 + 1 /\ i <= k - 1 /\ 1 + i - 1 = i
      BY <1>2, <2>2
    <3> QED BY <1>3, <2>1, <2>2, <3>1
  <2>3. CASE ~(i < k)
    <3>1. /\ i - (k - 1) \in 1..n - (k + 1) + 1 /\ ~(i <= k - 1)
          /\ (k + 1) + (i - (k - 1)) - 1 = i + 1
      BY <1>1, <1>2, <2>3
    <3> QED BY <1>4, <2>1, <2>3, <3>1
  <2> QED BY <2>2, <2>3
<1> QED BY <1>7, <1>8 DEF n, less

LEMMA FreshestKeys ==
    ASSUME keys \in Seq(Pages), NEW p \in Pages
    PROVE  /\ Keeping!Freshest(p) \in Seq(Pages)
           /\ \A q : Keeping!Contains(Keeping!Freshest(p), q) <=> q = p \/ Keeping!Contains(keys, q)
<1> DEFINE n == Len(keys)
           less == Keeping!Removed(p)
<1>1. /\ n \in Nat /\ DOMAIN keys = 1..n
      /\ \A q : Keeping!Contains(keys, q) <=> \E i \in 1..n : keys[i] = q
  BY LenProperties DEF Keeping!Contains
<1>2. /\ less \in Seq(Pages)
      /\ \A q : q # p => (Keeping!Contains(less, q) <=> Keeping!Contains(keys, q))
  <2>1. CASE Keeping!Contains(keys, p)
    <3>1. PICK k \in 1..n : keys[k] = p /\ less = Keeping!RemoveAt(keys, k)
      BY <1>1, <2>1 DEF Keeping!Removed
    <3>2. /\ less \in Seq(Pages) /\ Len(less) = n - 1
          /\ \A i \in 1..n - 1 : less[i] = IF i < k THEN keys[i] ELSE keys[i + 1]
      BY <3>1, RemovedAt
    <3> HIDE DEF less, n
    <3>3. \A q : Keeping!Contains(less, q) <=> \E i \in 1..n - 1 : less[i] = q
      BY <3>2 DEF Keeping!Contains
    <3>4. ASSUME NEW q, q # p, Keeping!Contains(less, q)
          PROVE  Keeping!Contains(keys, q)
      <4>1. PICK i \in 1..n - 1 : less[i] = q
        BY <3>3, <3>4
      <4>2. i \in 1..n /\ i + 1 \in 1..n
        BY <1>1
      <4> QED BY <1>1, <3>2, <4>1, <4>2
    <3>5. ASSUME NEW q, q # p, Keeping!Contains(keys, q)
          PROVE  Keeping!Contains(less, q)
      <4>1. PICK i \in 1..n : keys[i] = q /\ i # k
        BY <1>1, <3>1, <3>5
      <4>2. CASE i < k
        <5>1. i \in 1..n - 1
          BY <1>1, <4>2
        <5> QED BY <3>2, <3>3, <4>1, <4>2, <5>1
      <4>3. CASE i > k
        <5>1. i - 1 \in 1..n - 1 /\ ~(i - 1 < k) /\ (i - 1) + 1 = i
          BY <1>1, <4>3
        <5> QED BY <3>2, <3>3, <4>1, <5>1
      <4> QED BY <1>1, <4>1, <4>2, <4>3
    <3> QED BY <3>2, <3>4, <3>5
  <2>2. CASE ~Keeping!Contains(keys, p)
    BY <2>2 DEF Keeping!Removed
  <2> QED BY <2>1, <2>2
<1> HIDE DEF less
<1>3. Keeping!Freshest(p) = Append(less, p)
  BY DEF Keeping!Freshest, less
<1>4. /\ Keeping!Freshest(p) \in Seq(Pages) /\ Len(Keeping!Freshest(p)) = Len(less) + 1 /\ Len(less) \in Nat
      /\ \A i \in 1..Len(less) : Keeping!Freshest(p)[i] = less[i]
      /\ Keeping!Freshest(p)[Len(less) + 1] = p
  BY <1>2, <1>3, AppendProperties, LenProperties
<1>5. ASSUME NEW q
      PROVE  Keeping!Contains(Keeping!Freshest(p), q) <=> q = p \/ Keeping!Contains(keys, q)
  <2>1. Keeping!Contains(Keeping!Freshest(p), p)
    BY <1>4 DEF Keeping!Contains
  <2>2. q # p => (Keeping!Contains(Keeping!Freshest(p), q) <=> Keeping!Contains(less, q))
    BY <1>4 DEF Keeping!Contains
  <2> QED BY <1>2, <2>1, <2>2
<1> QED BY <1>4, <1>5

LEMMA KeptInit ==
    ASSUME Keeping!Init
    PROVE  KeptInv
<1>1. <<>> \in Seq(Pages) /\ <<>> \in Seq(Keeping!Instances) /\ DOMAIN <<>> = {}
  OBVIOUS
<1>2. KeptTyped
  <2>1. life \in [Keeping!Instances -> Keeping!Lives]
    BY DEF Keeping!Init, Keeping!Lives
  <2>2. manages \in 0..MaxManages
    BY BoundsAssumption, PagesAssumption DEF Keeping!Init
  <2> QED BY <1>1, <2>1, <2>2 DEF Keeping!Init, KeptTyped, Keeping!Routes
<1>3. LifeIsShown
  BY <1>1, BoundsAssumption, PagesAssumption DEF Keeping!Init, LifeIsShown, Keeping!Instances
<1> QED BY <1>1, <1>2, <1>3, BoundsAssumption, PagesAssumption DEF Keeping!Init, KeptInv, DirtyIsBehind, QueuedIsShown
-----------------------------------------------------------------------------
\* Steps that touch no page.
LEMMA RouteKeeps ==
    ASSUME KeptInv,
           (\E r \in Keeping!Routes : Keeping!Go(r)) \/ Keeping!FlushBegin \/ Keeping!AppStays \/ Keeping!ManageRenders \/ Keeping!KeepStays
    PROVE  KeptInv'
<1>1. UNCHANGED <<manages, manage, keys, slot, orphans, life, queued>>
  BY DEF Keeping!Go, Keeping!FlushBegin, Keeping!AppStays, Keeping!ManageRenders, Keeping!KeepStays
<1>2. LifeIsShown'
  BY <1>1 DEF KeptInv, LifeIsShown
<1>3. KeptTyped'
  BY <1>1 DEF KeptInv, KeptTyped, Keeping!Go, Keeping!FlushBegin, Keeping!AppStays, Keeping!ManageRenders, Keeping!KeepStays
<1>4. DirtyIsBehind' /\ QueuedIsShown'
  <2>1. ASSUME NEW r \in Keeping!Routes, Keeping!Go(r)
        PROVE  DirtyIsBehind' /\ QueuedIsShown'
    BY <1>1, <2>1 DEF KeptInv, KeptTyped, DirtyIsBehind, QueuedIsShown, Keeping!Go
  <2>2. CASE Keeping!FlushBegin
    BY <1>1, <2>2 DEF KeptInv, KeptTyped, DirtyIsBehind, QueuedIsShown, Keeping!FlushBegin
  <2>3. CASE Keeping!AppStays
    BY <1>1, <2>3 DEF KeptInv, KeptTyped, DirtyIsBehind, QueuedIsShown, Keeping!AppStays
  <2>4. CASE Keeping!ManageRenders
    BY <1>1, <2>4 DEF KeptInv, KeptTyped, DirtyIsBehind, QueuedIsShown, Keeping!ManageRenders
  <2>5. CASE Keeping!KeepStays
    BY <1>1, <2>5 DEF KeptInv, KeptTyped, DirtyIsBehind, QueuedIsShown, Keeping!KeepStays
  <2> QED BY <2>1, <2>2, <2>3, <2>4, <2>5
<1> QED BY <1>2, <1>3, <1>4 DEF KeptInv

LEMMA CreateKeeps ==
    ASSUME KeptInv, Keeping!CreateManage
    PROVE  KeptInv'
<1>1. /\ updating /\ "app" \in dirty /\ route # "login" /\ route \in Keeping!Routes /\ manage = 0
      /\ manages \in Nat /\ MaxManages \in Nat /\ manages < MaxManages
      /\ orphans = {} /\ queued = <<>> /\ life \in [Keeping!Instances -> Keeping!Lives]
      /\ UNCHANGED <<route, updating, orphans, queued>>
  BY BoundsAssumption, PagesAssumption DEF Keeping!CreateManage, KeptInv, KeptTyped, DirtyIsBehind, QueuedIsShown
<1> DEFINE m == manages + 1
<1>2. m \in 1..MaxManages /\ manages' = m /\ manage' = m /\ dirty' = {} /\ m # 0
  BY <1>1 DEF Keeping!CreateManage
<1>3. /\ slot' = (IF route = None THEN None ELSE route)
      /\ keys' = (IF route = None THEN <<>> ELSE <<route>>)
      /\ route # None => route \in Pages
      /\ life' = IF route = None THEN life ELSE [life EXCEPT ![<<m, route>>] = "activated"]
  BY <1>1 DEF Keeping!CreateManage, Keeping!Routes
<1>4. /\ keys' \in Seq(Pages) /\ slot' \in Pages \cup {None} /\ slot' = route
      /\ \A q \in Pages : Keeping!Contains(keys', q) <=> q = route
  <2>1. CASE route = None
    BY <1>3, <2>1, BoundsAssumption, PagesAssumption DEF Keeping!Contains
  <2>2. CASE route # None
    <3>1. keys' = <<route>> /\ Len(<<route>>) = 1 /\ <<route>>[1] = route /\ <<route>> \in Seq(Pages)
      BY <1>3, <2>2
    <3> QED BY <1>3, <2>2, <3>1 DEF Keeping!Contains
  <2> QED BY <2>1, <2>2
<1>5. life' \in [Keeping!Instances -> Keeping!Lives]
  <2>1. "activated" \in Keeping!Lives
    BY DEF Keeping!Lives
  <2> QED BY <1>1, <1>3, <2>1
<1>6. ASSUME NEW k \in 1..MaxManages, NEW p \in Pages
      PROVE  life'[<<k, p>>] = IF k = m /\ p = route THEN "activated" ELSE life[<<k, p>>]
  <2>1. <<k, p>> \in Keeping!Instances
    BY DEF Keeping!Instances
  <2>2. <<k, p>> = <<m, route>> <=> k = m /\ p = route
    OBVIOUS
  <2>3. route = None => p # route
    BY BoundsAssumption, PagesAssumption
  <2> QED BY <1>1, <1>3, <2>1, <2>2, <2>3
<1> HIDE DEF m
<1>7. KeptTyped'
  BY <1>1, <1>2, <1>4, <1>5 DEF KeptInv, KeptTyped
<1>8. DirtyIsBehind' /\ QueuedIsShown'
  BY <1>1, <1>2, <1>4 DEF DirtyIsBehind, QueuedIsShown
<1>9. LifeIsShown'
  <2> SUFFICES ASSUME NEW k \in 1..MaxManages, NEW p \in Pages
               PROVE  LET l == life'[<<k, p>>]
                      IN  /\ k > m => l = "none"
                          /\ k < m => l \in {"none", "destroyed"}
                          /\ k = m =>
                               /\ l # "destroyed" /\ (p = route <=> l # "none")
                               /\ p # route => l \in {"none", "deactivated"}
                               /\ p = route => l = "activated"
    BY <1>1, <1>2, <1>4 DEF LifeIsShown
  <2>1. /\ k > manages => life[<<k, p>>] = "none"
        /\ k <= manages => life[<<k, p>>] \in {"none", "destroyed"}
    BY <1>1 DEF KeptInv, LifeIsShown
  <2> QED BY <1>1, <1>2, <1>6, <2>1 DEF m
<1> QED BY <1>7, <1>8, <1>9 DEF KeptInv

LEMMA DestroyKeeps ==
    ASSUME KeptInv, Keeping!DestroyManage
    PROVE  KeptInv'
<1>1. /\ updating /\ "app" \in dirty /\ route = "login" /\ manage # 0 /\ manage = manages
      /\ manages \in 1..MaxManages /\ keys \in Seq(Pages) /\ queued = <<>> /\ life \in [Keeping!Instances -> Keeping!Lives]
      /\ dirty' = {} /\ manage' = 0 /\ slot' = None
      /\ orphans' = {<<manage, keys[i]>> : i \in DOMAIN keys}
      /\ UNCHANGED <<route, updating, manages, keys, queued>>
  BY BoundsAssumption, PagesAssumption DEF Keeping!DestroyManage, KeptInv, KeptTyped, DirtyIsBehind, QueuedIsShown
<1>2. ASSUME NEW p \in Pages
      PROVE  <<manage, p>> \in orphans' <=> Keeping!Contains(keys, p)
  BY <1>1, LenProperties DEF Keeping!Contains
<1>3. orphans' \subseteq Keeping!Instances
  BY <1>1, LenProperties, ElementOfSeq DEF Keeping!Instances
<1>4. /\ life' = [i \in Keeping!Instances |->
                   IF i = <<manage, slot>> /\ life[i] # "deactivated" THEN "deactivated" ELSE life[i]]
      /\ life' \in [Keeping!Instances -> Keeping!Lives]
  <2>1. "deactivated" \in Keeping!Lives
    BY DEF Keeping!Lives
  <2>2. life' = [i \in Keeping!Instances |->
                   IF i = <<manage, slot>> /\ life[i] # "deactivated" THEN "deactivated" ELSE life[i]]
    BY DEF Keeping!DestroyManage
  <2> QED BY <1>1, <2>1, <2>2
<1>5. ASSUME NEW k \in 1..MaxManages, NEW p \in Pages
      PROVE  life'[<<k, p>>] = IF k = manage /\ p = slot THEN "deactivated" ELSE life[<<k, p>>]
  <2>1. <<k, p>> \in Keeping!Instances
    BY DEF Keeping!Instances
  <2>2. <<k, p>> = <<manage, slot>> <=> k = manage /\ p = slot
    OBVIOUS
  <2> QED BY <1>4, <2>1, <2>2
<1>6. KeptTyped'
  BY <1>1, <1>3, <1>4 DEF KeptInv, KeptTyped
<1>7. DirtyIsBehind' /\ QueuedIsShown'
  BY <1>1 DEF KeptInv, KeptTyped, DirtyIsBehind, QueuedIsShown
<1>8. LifeIsShown'
  <2> SUFFICES ASSUME NEW k \in 1..MaxManages, NEW p \in Pages
               PROVE  LET l == life'[<<k, p>>]
                      IN  /\ k > manages => l = "none"
                          /\ k < manages => l \in {"none", "destroyed"}
                          /\ k = manages =>
                                IF <<k, p>> \in orphans' THEN l = "deactivated"
                                ELSE l \in {"none", "destroyed"}
    BY <1>1 DEF LifeIsShown
  <2>1. /\ k > manages => life[<<k, p>>] = "none"
        /\ k < manages => life[<<k, p>>] \in {"none", "destroyed"}
        /\ k = manages =>
              /\ life[<<k, p>>] # "destroyed" /\ (Keeping!Contains(keys, p) <=> life[<<k, p>>] # "none")
              /\ p # slot => life[<<k, p>>] \in {"none", "deactivated"}
              /\ p = slot => life[<<k, p>>] = "activated"
    BY <1>1 DEF KeptInv, LifeIsShown
  <2> QED BY <1>1, <1>2, <1>5, <2>1
<1> QED BY <1>6, <1>7, <1>8 DEF KeptInv

LEMMA PruneKeeps ==
    ASSUME KeptInv, Keeping!PruneAll
    PROVE  KeptInv'
<1>1. /\ updating /\ dirty = {} /\ manage = 0 /\ queued = <<>> /\ slot = None
      /\ manages \in Nat /\ MaxManages \in Nat /\ life \in [Keeping!Instances -> Keeping!Lives]
      /\ orphans' = {} /\ keys' = <<>> /\ keys' \in Seq(Pages)
      /\ UNCHANGED <<route, dirty, updating, manages, manage, slot, queued>>
  BY BoundsAssumption, PagesAssumption DEF Keeping!PruneAll, KeptInv, KeptTyped, DirtyIsBehind, QueuedIsShown
<1>2. /\ life' = [i \in Keeping!Instances |-> IF i \in orphans THEN "destroyed" ELSE life[i]]
      /\ life' \in [Keeping!Instances -> Keeping!Lives]
  <2>1. "destroyed" \in Keeping!Lives
    BY DEF Keeping!Lives
  <2>2. life' = [i \in Keeping!Instances |-> IF i \in orphans THEN "destroyed" ELSE life[i]]
    BY DEF Keeping!PruneAll
  <2> QED BY <1>1, <2>1, <2>2
<1>3. KeptTyped' /\ DirtyIsBehind' /\ QueuedIsShown'
  BY <1>1, <1>2 DEF KeptInv, KeptTyped, DirtyIsBehind, QueuedIsShown
<1>4. LifeIsShown'
  <2> SUFFICES ASSUME NEW k \in 1..MaxManages, NEW p \in Pages
               PROVE  LET l == life'[<<k, p>>]
                      IN  /\ k > manages => l = "none"
                          /\ k < manages => l \in {"none", "destroyed"}
                          /\ k = manages => l \in {"none", "destroyed"}
    BY <1>1 DEF LifeIsShown
  <2>1. <<k, p>> \in Keeping!Instances
    BY DEF Keeping!Instances
  <2>2. <<k, p>> \in orphans => k = manages
    BY <1>1 DEF KeptInv, QueuedIsShown
  <2>3. /\ k > manages => life[<<k, p>>] = "none"
        /\ k <= manages /\ <<k, p>> \notin orphans => life[<<k, p>>] \in {"none", "destroyed"}
    BY <1>1, <2>2 DEF KeptInv, LifeIsShown
  <2> QED BY <1>1, <1>2, <2>1, <2>2, <2>3
<1> QED BY <1>3, <1>4 DEF KeptInv

LEMMA ShowKeeps ==
    ASSUME KeptInv, NEW q \in Pages, Keeping!ShowPage(q)
    PROVE  KeptInv'
<1>1. /\ updating /\ dirty = {"keep"} /\ route = q /\ q # slot /\ manage # 0 /\ manage = manages
      /\ manages \in 1..MaxManages /\ MaxManages \in Nat
      /\ queued = <<>> /\ orphans = {} /\ life \in [Keeping!Instances -> Keeping!Lives]
      /\ keys \in Seq(Pages) /\ None \notin Pages
      /\ dirty' = {} /\ slot' = q /\ keys' = Keeping!Freshest(q) /\ queued' = Append(queued, <<manage, q>>)
      /\ UNCHANGED <<route, updating, manages, manage, orphans>>
  BY BoundsAssumption, PagesAssumption DEF Keeping!ShowPage, KeptInv, KeptTyped, DirtyIsBehind, QueuedIsShown
<1>2. keys' \in Seq(Pages) /\ \A p : Keeping!Contains(keys', p) <=> p = q \/ Keeping!Contains(keys, p)
  BY <1>1, FreshestKeys
<1>3. /\ queued' \in Seq(Keeping!Instances) /\ queued' # <<>> /\ DOMAIN queued' = {1} /\ queued'[1] = <<manage, q>>
  <2>1. <<manage, q>> \in Keeping!Instances
    BY <1>1 DEF Keeping!Instances
  <2>2. queued' = <<<<manage, q>>>>
    BY <1>1
  <2> QED BY <2>1, <2>2
<1>4. /\ life' = [i \in Keeping!Instances |->
                   CASE i = <<manage, q>> -> IF Keeping!Contains(keys, q) THEN life[i] ELSE "mounted"
                     [] i = <<manage, slot>> -> "deactivated"
                     [] OTHER -> life[i]]
      /\ life' \in [Keeping!Instances -> Keeping!Lives]
  <2>1. "deactivated" \in Keeping!Lives /\ "mounted" \in Keeping!Lives
    BY DEF Keeping!Lives
  <2>2. life' = [i \in Keeping!Instances |->
                   CASE i = <<manage, q>> -> IF Keeping!Contains(keys, q) THEN life[i] ELSE "mounted"
                     [] i = <<manage, slot>> -> "deactivated"
                     [] OTHER -> life[i]]
    BY DEF Keeping!ShowPage
  <2>3. ASSUME NEW i \in Keeping!Instances
        PROVE  (CASE i = <<manage, q>> -> IF Keeping!Contains(keys, q) THEN life[i] ELSE "mounted"
                  [] i = <<manage, slot>> -> "deactivated"
                  [] OTHER -> life[i]) \in Keeping!Lives
    BY <1>1, <2>1
  <2> QED BY <2>2, <2>3
<1>5. ASSUME NEW k \in 1..MaxManages, NEW p \in Pages
      PROVE  life'[<<k, p>>] =
                IF k = manage /\ p = q THEN IF Keeping!Contains(keys, q) THEN life[<<k, p>>] ELSE "mounted"
                ELSE IF k = manage /\ p = slot THEN "deactivated"
                ELSE life[<<k, p>>]
  <2>1. <<k, p>> \in Keeping!Instances
    BY DEF Keeping!Instances
  <2>2. /\ <<k, p>> = <<manage, q>> <=> k = manage /\ p = q
        /\ <<k, p>> = <<manage, slot>> <=> k = manage /\ p = slot
    OBVIOUS
  <2>3. CASE k = manage /\ p = q
    BY <1>1, <1>4, <2>1, <2>2, <2>3
  <2>4. CASE k = manage /\ p = slot
    BY <1>1, <1>4, <2>1, <2>2, <2>4
  <2>5. CASE ~(k = manage /\ p = q) /\ ~(k = manage /\ p = slot)
    BY <1>4, <2>1, <2>2, <2>5
  <2> QED BY <1>1, <2>3, <2>4, <2>5
<1>6. KeptTyped'
  BY <1>1, <1>2, <1>3, <1>4 DEF KeptInv, KeptTyped
<1>7. DirtyIsBehind' /\ QueuedIsShown'
  BY <1>1, <1>3 DEF KeptInv, DirtyIsBehind, QueuedIsShown
<1>8. LifeIsShown'
  <2> SUFFICES ASSUME NEW k \in 1..MaxManages, NEW p \in Pages
               PROVE  LET l == life'[<<k, p>>]
                      IN  /\ k > manages => l = "none"
                          /\ k < manages => l \in {"none", "destroyed"}
                          /\ k = manages =>
                                /\ l # "destroyed" /\ (p = q \/ Keeping!Contains(keys, p) <=> l # "none")
                                /\ p # q => l \in {"none", "deactivated"}
                                /\ p = q => l \in {"mounted", "deactivated"}
    BY <1>1, <1>2, <1>3 DEF LifeIsShown
  <2>1. /\ k > manages => life[<<k, p>>] = "none"
        /\ k < manages => life[<<k, p>>] \in {"none", "destroyed"}
        /\ k = manages =>
              /\ life[<<k, p>>] # "destroyed" /\ (Keeping!Contains(keys, p) <=> life[<<k, p>>] # "none")
              /\ p # slot => life[<<k, p>>] \in {"none", "deactivated"}
              /\ p = slot => life[<<k, p>>] = "activated"
    BY <1>1 DEF KeptInv, LifeIsShown
  <2> QED BY <1>1, <1>5, <2>1
<1> QED BY <1>6, <1>7, <1>8 DEF KeptInv

LEMMA ShowNothingKeeps ==
    ASSUME KeptInv, Keeping!ShowNothing
    PROVE  KeptInv'
<1>1. /\ updating /\ dirty = {"keep"} /\ route = None /\ slot # None /\ slot \in Pages
      /\ manage # 0 /\ manage = manages
      /\ manages \in 1..MaxManages /\ MaxManages \in Nat
      /\ queued = <<>> /\ orphans = {} /\ life \in [Keeping!Instances -> Keeping!Lives] /\ None \notin Pages
      /\ dirty' = {} /\ slot' = None
      /\ UNCHANGED <<route, updating, manages, manage, keys, orphans, queued>>
  BY BoundsAssumption, PagesAssumption DEF Keeping!ShowNothing, KeptInv, KeptTyped, DirtyIsBehind, QueuedIsShown
<1>2. life' = [life EXCEPT ![<<manage, slot>>] = "deactivated"] /\ life' \in [Keeping!Instances -> Keeping!Lives]
  <2>1. "deactivated" \in Keeping!Lives
    BY DEF Keeping!Lives
  <2> QED BY <1>1, <2>1 DEF Keeping!ShowNothing
<1>3. ASSUME NEW k \in 1..MaxManages, NEW p \in Pages
      PROVE  life'[<<k, p>>] = IF k = manage /\ p = slot THEN "deactivated" ELSE life[<<k, p>>]
  <2>1. <<k, p>> \in Keeping!Instances
    BY DEF Keeping!Instances
  <2>2. <<k, p>> = <<manage, slot>> <=> k = manage /\ p = slot
    OBVIOUS
  <2> QED BY <1>1, <1>2, <2>1, <2>2
<1>4. KeptTyped'
  BY <1>1, <1>2 DEF KeptInv, KeptTyped
<1>5. DirtyIsBehind' /\ QueuedIsShown'
  BY <1>1 DEF KeptInv, DirtyIsBehind, QueuedIsShown
<1>6. LifeIsShown'
  <2> SUFFICES ASSUME NEW k \in 1..MaxManages, NEW p \in Pages
               PROVE  LET l == life'[<<k, p>>]
                      IN  /\ k > manages => l = "none"
                          /\ k < manages => l \in {"none", "destroyed"}
                          /\ k = manages => l \in {"none", "deactivated"} /\ (Keeping!Contains(keys, p) <=> l # "none")
    BY <1>1 DEF LifeIsShown
  <2>1. /\ k > manages => life[<<k, p>>] = "none"
        /\ k < manages => life[<<k, p>>] \in {"none", "destroyed"}
        /\ k = manages =>
              /\ (Keeping!Contains(keys, p) <=> life[<<k, p>>] # "none")
              /\ p # slot => life[<<k, p>>] \in {"none", "deactivated"}
              /\ p = slot => life[<<k, p>>] = "activated"
    BY <1>1 DEF KeptInv, LifeIsShown
  <2> QED BY <1>1, <1>3, <2>1
<1> QED BY <1>4, <1>5, <1>6 DEF KeptInv

LEMMA EndKeeps ==
    ASSUME KeptInv, Keeping!FlushEnd
    PROVE  /\ KeptInv'
           /\ \A i \in Keeping!Instances : life'[i] # life[i] =>
                 life'[i] = "activated" /\ life[i] \in {"mounted", "deactivated"}
<1>1. /\ updating /\ dirty = {} /\ orphans = {} /\ queued' = <<>> /\ updating' = FALSE
      /\ manages \in Nat /\ MaxManages \in Nat /\ life \in [Keeping!Instances -> Keeping!Lives]
      /\ queued \in Seq(Keeping!Instances) /\ queued' \in Seq(Keeping!Instances)
      /\ UNCHANGED <<route, dirty, manages, manage, keys, slot, orphans>>
  BY BoundsAssumption, PagesAssumption DEF Keeping!FlushEnd, KeptInv, KeptTyped
<1>2. life' = [i \in Keeping!Instances |-> IF Keeping!Contains(queued, i) THEN "activated" ELSE life[i]]
  BY DEF Keeping!FlushEnd
<1>3. ASSUME NEW i \in Keeping!Instances
      PROVE  Keeping!Contains(queued, i) <=> queued # <<>> /\ i = <<manage, slot>>
  <2>1. Len(queued) \in Nat /\ DOMAIN queued = 1..Len(queued) /\ (queued # <<>> => Len(queued) > 0)
    BY <1>1, LenProperties, EmptySeq
  <2>2. \A j \in DOMAIN queued : queued[j] = <<manage, slot>>
    BY DEF KeptInv, QueuedIsShown
  <2>3. queued = <<>> => Len(queued) = 0
    OBVIOUS
  <2>4. ASSUME queued # <<>>, i = <<manage, slot>>
        PROVE  Keeping!Contains(queued, i)
    <3>1. 1 \in 1..Len(queued) /\ queued[1] = i
      BY <2>1, <2>2, <2>4
    <3> QED BY <3>1 DEF Keeping!Contains
  <2>5. ASSUME Keeping!Contains(queued, i)
        PROVE  queued # <<>> /\ i = <<manage, slot>>
    <3>1. PICK j \in 1..Len(queued) : queued[j] = i
      BY <2>5 DEF Keeping!Contains
    <3>2. j \in DOMAIN queued
      BY <2>1
    <3>3. Len(queued) # 0
      BY <2>1
    <3> QED BY <2>2, <2>3, <3>1, <3>2, <3>3
  <2> QED BY <2>4, <2>5
<1>4. life' \in [Keeping!Instances -> Keeping!Lives]
  <2>1. "activated" \in Keeping!Lives
    BY DEF Keeping!Lives
  <2> QED BY <1>1, <1>2, <2>1
<1>5. ASSUME NEW k \in 1..MaxManages, NEW p \in Pages
      PROVE  life'[<<k, p>>] = IF queued # <<>> /\ k = manage /\ p = slot THEN "activated" ELSE life[<<k, p>>]
  <2>1. <<k, p>> \in Keeping!Instances
    BY DEF Keeping!Instances
  <2>2. <<k, p>> = <<manage, slot>> <=> k = manage /\ p = slot
    OBVIOUS
  <2> QED BY <1>2, <1>3, <2>1, <2>2
<1>6. queued # <<>> => manage # 0 /\ manage = manages
  BY DEF KeptInv, KeptTyped, QueuedIsShown
<1>7. KeptTyped'
  BY <1>1, <1>4 DEF KeptInv, KeptTyped
<1>8. DirtyIsBehind' /\ QueuedIsShown'
  BY <1>1 DEF KeptInv, DirtyIsBehind, QueuedIsShown
<1>9. ASSUME NEW k \in 1..MaxManages, NEW p \in Pages
      PROVE  LET l == life[<<k, p>>]
             IN  /\ k > manages => l = "none"
                 /\ k < manages => l \in {"none", "destroyed"}
                 /\ k = manages /\ manage = 0 => l \in {"none", "destroyed"}
                 /\ k = manages /\ manage # 0 =>
                      /\ l # "destroyed" /\ (Keeping!Contains(keys, p) <=> l # "none")
                      /\ p # slot => l \in {"none", "deactivated"}
                      /\ p = slot => IF queued = <<>> THEN l = "activated" ELSE l \in {"mounted", "deactivated"}
  BY <1>1 DEF KeptInv, LifeIsShown
<1>10. LifeIsShown'
  <2> SUFFICES ASSUME NEW k \in 1..MaxManages, NEW p \in Pages
               PROVE  LET l == life'[<<k, p>>]
                      IN  /\ k > manages => l = "none"
                          /\ k < manages => l \in {"none", "destroyed"}
                          /\ k = manages /\ manage = 0 => l \in {"none", "destroyed"}
                          /\ k = manages /\ manage # 0 =>
                                /\ l # "destroyed" /\ (Keeping!Contains(keys, p) <=> l # "none")
                                /\ p # slot => l \in {"none", "deactivated"}
                                /\ p = slot => l = "activated"
    BY <1>1 DEF LifeIsShown
  <2> QED BY <1>1, <1>5, <1>6, <1>9
<1>11. ASSUME NEW i \in Keeping!Instances, life'[i] # life[i]
       PROVE  life'[i] = "activated" /\ life[i] \in {"mounted", "deactivated"}
  <2>1. PICK k \in 1..MaxManages, p \in Pages : i = <<k, p>>
    BY DEF Keeping!Instances
  <2> QED BY <1>1, <1>5, <1>6, <1>9, <1>11, <2>1
<1> QED BY <1>7, <1>8, <1>10, <1>11 DEF KeptInv

LEMMA KeptInvariant == Keeping!Spec => []KeptInv
<1>1. ASSUME KeptInv, [Keeping!Next]_Keeping!vars
      PROVE  KeptInv'
  <2>1. CASE UNCHANGED Keeping!vars
    BY <1>1, <2>1 DEF Keeping!vars, KeptInv, KeptTyped, DirtyIsBehind, QueuedIsShown, LifeIsShown
  <2> QED BY <1>1, <2>1, RouteKeeps, CreateKeeps, DestroyKeeps, PruneKeeps, ShowKeeps, ShowNothingKeeps, EndKeeps
          DEF Keeping!Next
<1> QED BY <1>1, KeptInit, PTL DEF Keeping!Spec

LEMMA ActiveIsShown ==
    ASSUME KeptInv
    PROVE  Keeping!OnlyShownIsActive
<1> SUFFICES ASSUME ~updating, dirty = {}, NEW i \in Keeping!Instances
             PROVE  /\ life[i] = "activated" <=> i[1] = manage /\ i[2] = route
                    /\ life[i] \notin {"none", "destroyed"} => i[1] = manage /\ Keeping!Contains(keys, i[2])
  BY DEF Keeping!OnlyShownIsActive
<1>1. PICK k \in 1..MaxManages, p \in Pages : i = <<k, p>>
  BY DEF Keeping!Instances
<1>2. /\ queued = <<>> /\ orphans = {} /\ (manage = 0 <=> route = "login") /\ (manage # 0 => slot = route)
      /\ manages \in Nat /\ manage \in {0, manages} /\ MaxManages \in Nat
  BY BoundsAssumption, PagesAssumption DEF KeptInv, KeptTyped, DirtyIsBehind, QueuedIsShown
<1>3. LET l == life[<<k, p>>]
      IN  /\ k > manages => l = "none"
          /\ k < manages => l \in {"none", "destroyed"}
          /\ k = manages /\ manage = 0 => l \in {"none", "destroyed"}
          /\ k = manages /\ manage # 0 =>
               /\ l # "destroyed" /\ (Keeping!Contains(keys, p) <=> l # "none")
               /\ p # slot => l \in {"none", "deactivated"}
               /\ p = slot => l = "activated"
  BY <1>2 DEF KeptInv, LifeIsShown
<1> QED BY <1>1, <1>2, <1>3

LEMMA HooksFollow ==
    ASSUME KeptInv, [Keeping!Next]_Keeping!vars
    PROVE  \A i \in Keeping!Instances : life'[i] # life[i] =>
              <<life[i], life'[i]>> \in
                 {<<"none", "mounted">>, <<"none", "activated">>, <<"mounted", "activated">>,
                  <<"activated", "deactivated">>, <<"deactivated", "activated">>,
                  <<"deactivated", "destroyed">>}
<1> SUFFICES ASSUME NEW i \in Keeping!Instances, life'[i] # life[i]
             PROVE  <<life[i], life'[i]>> \in
                       {<<"none", "mounted">>, <<"none", "activated">>, <<"mounted", "activated">>,
                        <<"activated", "deactivated">>, <<"deactivated", "activated">>,
                        <<"deactivated", "destroyed">>}
  OBVIOUS
<1>1. PICK k \in 1..MaxManages, p \in Pages : i = <<k, p>>
  BY DEF Keeping!Instances
<1>2. /\ manages \in Nat /\ manage \in {0, manages} /\ MaxManages \in Nat /\ None \notin Pages
      /\ life \in [Keeping!Instances -> Keeping!Lives]
  BY BoundsAssumption, PagesAssumption DEF KeptInv, KeptTyped
<1>3. CASE Keeping!CreateManage
  <2>1. k > manages => life[<<k, p>>] = "none"
    BY DEF KeptInv, LifeIsShown
  <2>2. manages + 1 \in 1..MaxManages
    BY <1>2, <1>3 DEF Keeping!CreateManage, KeptInv, DirtyIsBehind
  <2>3. life' = IF route = None THEN life ELSE [life EXCEPT ![<<manages + 1, route>>] = "activated"]
    BY <1>3 DEF Keeping!CreateManage
  <2>4. i = <<manages + 1, route>> /\ life'[i] = "activated"
    BY <1>2, <1>3, <2>3
  <2>5. k > manages
    BY <1>1, <1>2, <2>4
  <2> QED BY <1>1, <2>1, <2>4, <2>5
<1>4. CASE Keeping!DestroyManage
  <2>1. i = <<manage, slot>> /\ life'[i] = "deactivated"
    BY <1>4 DEF Keeping!DestroyManage
  <2>2. manage # 0 /\ queued = <<>>
    BY <1>4 DEF Keeping!DestroyManage, KeptInv, QueuedIsShown
  <2>3. k = manages /\ p = slot
    BY <1>1, <1>2, <2>1, <2>2
  <2>4. life[<<k, p>>] = "activated"
    BY <2>2, <2>3 DEF KeptInv, LifeIsShown
  <2> QED BY <1>1, <2>1, <2>4
<1>5. CASE Keeping!PruneAll
  <2>1. i \in orphans /\ life'[i] = "destroyed"
    BY <1>5 DEF Keeping!PruneAll
  <2>2. k = manages /\ manage = 0
    BY <1>1, <2>1 DEF KeptInv, QueuedIsShown
  <2>3. life[<<k, p>>] = "deactivated"
    BY <1>1, <2>1, <2>2 DEF KeptInv, LifeIsShown
  <2> QED BY <1>1, <2>1, <2>3
<1>6. ASSUME NEW q \in Pages, Keeping!ShowPage(q)
      PROVE  <<life[i], life'[i]>> \in {<<"none", "mounted">>, <<"activated", "deactivated">>}
  <2>1. /\ queued = <<>> /\ manage # 0 /\ manage = manages /\ q # slot
    BY <1>6 DEF Keeping!ShowPage, KeptInv, KeptTyped, QueuedIsShown, DirtyIsBehind
  <2>2. CASE i = <<manage, q>>
    <3>1. ~Keeping!Contains(keys, q) /\ life'[i] = "mounted"
      BY <1>6, <2>2 DEF Keeping!ShowPage
    <3>2. life[<<k, p>>] = "none"
      BY <1>1, <2>1, <2>2, <3>1 DEF KeptInv, LifeIsShown
    <3> QED BY <1>1, <3>1, <3>2
  <2>3. CASE i # <<manage, q>>
    <3>1. i = <<manage, slot>> /\ life'[i] = "deactivated"
      BY <1>6, <2>3 DEF Keeping!ShowPage
    <3>2. k = manages /\ p = slot
      BY <1>1, <2>1, <3>1
    <3>3. life[<<k, p>>] = "activated"
      BY <2>1, <3>2 DEF KeptInv, LifeIsShown
    <3> QED BY <1>1, <3>1, <3>3
  <2> QED BY <2>2, <2>3
<1>7. CASE Keeping!ShowNothing
  <2>1. /\ queued = <<>> /\ manage # 0 /\ manage = manages
    BY <1>7 DEF Keeping!ShowNothing, KeptInv, KeptTyped, QueuedIsShown, DirtyIsBehind
  <2>2. i = <<manage, slot>> /\ life'[i] = "deactivated"
    BY <1>2, <1>7 DEF Keeping!ShowNothing
  <2>3. k = manages /\ p = slot
    BY <1>1, <2>1, <2>2
  <2>4. life[<<k, p>>] = "activated"
    BY <2>1, <2>3 DEF KeptInv, LifeIsShown
  <2> QED BY <1>1, <2>2, <2>4
<1>8. CASE Keeping!FlushEnd
  <2>1. life'[i] = "activated" /\ life[i] \in {"mounted", "deactivated"}
    BY <1>8, EndKeeps
  <2> QED BY <2>1
<1>9. CASE (\E r \in Keeping!Routes : Keeping!Go(r)) \/ Keeping!FlushBegin \/ Keeping!AppStays \/ Keeping!ManageRenders \/ Keeping!KeepStays \/ UNCHANGED Keeping!vars
  BY <1>9 DEF Keeping!Go, Keeping!FlushBegin, Keeping!AppStays, Keeping!ManageRenders, Keeping!KeepStays, Keeping!vars
<1> QED BY <1>3, <1>4, <1>5, <1>6, <1>7, <1>8, <1>9 DEF Keeping!Next

LEMMA HooksOrdered == Keeping!Spec => Keeping!HooksInOrder
<1> QED BY KeptInvariant, HooksFollow, PTL DEF Keeping!Spec, Keeping!HooksInOrder
LEMMA KeepingRuns == Spec => Keeping!Spec
<1>1. Init => Keeping!Init
  BY DEF Init
<1>2. [Next]_vars => [Keeping!Next]_Keeping!vars
  BY DEF Next, vars, kept, Keeping!vars
<1> QED BY <1>1, <1>2, PTL DEF Spec, Keeping!Spec

(* KeptPages: between two turns of the event loop the page of the route is       *)
(* active and no other page is, however often the user goes to and fro and      *)
(* signs out and in (Vue's keep-alive), for any pages.                           *)
THEOREM ShownPageIsActive == Spec => []OnlyShownIsActive
<1>1. KeptInv => OnlyShownIsActive
  BY ActiveIsShown DEF OnlyShownIsActive
<1> QED BY <1>1, KeepingRuns, KeptInvariant, PTL

-----------------------------------------------------------------------------
(* Promises: what they, their reactions and the microtasks are.               *)

Targets == [p : Awaiting!P, w : Nat]
Reaction == [ok : Awaiting!Handler \cup {"adopt"}, fail : Awaiting!Handler \cup {"adopt"}, to : Targets, nr : Nat]
Outcomes == {"none", "first", "rejected", "thrown", "TypeError", "second"}
MicroTasks == [kind : {"notify"}, p : Awaiting!P, x : BOOLEAN] \cup [kind : {"follow"}, p : Awaiting!P, x : Awaiting!P \cup {"both"}]

PromisesTyped ==
    /\ made \in 0..Awaiting!MaxPromises /\ own \subseteq Awaiting!Made /\ wrappers \in Nat
    /\ state \in [Awaiting!P -> 0..2] /\ value \in [Awaiting!P -> Outcomes] /\ spent \subseteq Targets
    /\ chain \in [Awaiting!P -> Seq(Reaction)] /\ micro \in Seq(MicroTasks)
    /\ fate \in [Awaiting!P -> Awaiting!P \cup {"none", "both"}]
    /\ attached \in [Awaiting!P -> Nat] /\ reacted \in [Awaiting!P -> Seq(Nat)]
    /\ running \in {Awaiting!Idle} \cup MicroTasks \cup [kind : {"both"}, p : Awaiting!P, x : Nat]

\* The reactions with the promises whose they are, and the microtasks.
Entries(c) == UNION {{<<q, c[q][i]>> : i \in DOMAIN c[q]} : q \in Awaiting!P}
Tasks(m) == {m[i] : i \in DOMAIN m}

\* A promise is settled by one reaction at most, and followed by one microtask.
ReactsOnce(c) ==
    \A q, s \in Awaiting!P : \A i \in DOMAIN c[q], j \in DOMAIN c[s] :
        c[q][i].to.p = c[s][j].to.p => q = s /\ i = j
FollowsOnce(m) ==
    \A i, j \in DOMAIN m : m[i].kind = "follow" /\ m[j].kind = "follow" /\ m[i].p = m[j].p => i = j

-----------------------------------------------------------------------------
(* Reactions and microtasks, added and taken.                                 *)

LEMMA EntriesOf ==
    ASSUME NEW c \in [Awaiting!P -> Seq(Reaction)]
    PROVE  /\ \A e \in Entries(c) : /\ e[1] \in Awaiting!P /\ e[2] \in Reaction
                                    /\ \E i \in DOMAIN c[e[1]] : e[2] = c[e[1]][i]
           /\ \A q \in Awaiting!P : \A i \in DOMAIN c[q] : <<q, c[q][i]>> \in Entries(c)
<1>1. ASSUME NEW q \in Awaiting!P
      PROVE  DOMAIN c[q] = 1..Len(c[q]) /\ Len(c[q]) \in Nat /\ \A i \in DOMAIN c[q] : c[q][i] \in Reaction
  BY LenProperties, ElementOfSeq
<1> QED BY <1>1 DEF Entries

AddsReaction(c, q, r, d) == d = [c EXCEPT ![q] = Append(@, r)]
TakesReaction(c, q, d) == c[q] # <<>> /\ d = [c EXCEPT ![q] = Tail(@)]

LEMMA ReactionAdded ==
    ASSUME NEW c \in [Awaiting!P -> Seq(Reaction)], NEW q \in Awaiting!P, NEW r \in Reaction, NEW d, AddsReaction(c, q, r, d)
    PROVE  /\ d \in [Awaiting!P -> Seq(Reaction)]
           /\ Entries(d) = Entries(c) \cup {<<q, r>>}
           /\ ReactsOnce(c) /\ (\A e \in Entries(c) : e[2].to.p # r.to.p) => ReactsOnce(d)
<1> DEFINE n == Len(c[q])
           l == Append(c[q], r)
<1>1. /\ n \in Nat /\ DOMAIN c[q] = 1..n
      /\ DOMAIN l = 1..n + 1 /\ l \in Seq(Reaction)
      /\ \A i \in 1..n : l[i] = c[q][i]
      /\ l[n + 1] = r
  BY AppendProperties, LenProperties
<1>2. /\ d \in [Awaiting!P -> Seq(Reaction)] /\ d[q] = l
      /\ \A s \in Awaiting!P : s # q => d[s] = c[s]
  <2> HIDE DEF n, l
  <2>1. d = [c EXCEPT ![q] = l]
    BY DEF AddsReaction, l
  <2> QED BY <1>1, <2>1
<1> HIDE DEF n, l
<1>3. \A s \in Awaiting!P : \A i \in DOMAIN d[s] :
         IF s = q /\ i = n + 1 THEN d[s][i] = r ELSE i \in DOMAIN c[s] /\ d[s][i] = c[s][i]
  <2>1. \A i \in 1..n + 1 : i = n + 1 \/ i \in 1..n
    BY <1>1
  <2> QED BY <1>1, <1>2, <2>1
<1>4. \A s \in Awaiting!P : \A i \in DOMAIN c[s] : i \in DOMAIN d[s] /\ d[s][i] = c[s][i]
  <2>1. \A i \in 1..n : i \in 1..n + 1
    BY <1>1
  <2> QED BY <1>1, <1>2, <2>1
<1>5. n + 1 \in DOMAIN d[q] /\ d[q][n + 1] = r
  BY <1>1, <1>2
<1>6. Entries(d) = Entries(c) \cup {<<q, r>>}
  <2>1. ASSUME NEW e \in Entries(d)
        PROVE  e \in Entries(c) \cup {<<q, r>>}
    <3>1. PICK s \in Awaiting!P : \E i \in DOMAIN d[s] : e = <<s, d[s][i]>>
      BY DEF Entries
    <3>2. PICK i \in DOMAIN d[s] : e = <<s, d[s][i]>>
      BY <3>1
    <3> QED BY <1>3, <3>2, EntriesOf
  <2>2. ASSUME NEW e \in Entries(c)
        PROVE  e \in Entries(d)
    <3>1. PICK s \in Awaiting!P : \E i \in DOMAIN c[s] : e = <<s, c[s][i]>>
      BY DEF Entries
    <3>2. PICK i \in DOMAIN c[s] : e = <<s, c[s][i]>>
      BY <3>1
    <3>3. i \in DOMAIN d[s] /\ d[s][i] = c[s][i]
      BY <1>4
    <3>4. <<s, d[s][i]>> \in Entries(d)
      BY <1>2, <3>3, EntriesOf
    <3> QED BY <3>2, <3>3, <3>4
  <2>3. <<q, r>> \in Entries(d)
    BY <1>2, <1>5, EntriesOf
  <2> QED BY <2>1, <2>2, <2>3
<1>7. ASSUME ReactsOnce(c), \A e \in Entries(c) : e[2].to.p # r.to.p
      PROVE  ReactsOnce(d)
  <2>1. ASSUME NEW s \in Awaiting!P, NEW i \in DOMAIN c[s]
        PROVE  c[s][i].to.p # r.to.p
    <3>1. <<s, c[s][i]>> \in Entries(c) /\ <<s, c[s][i]>>[2] = c[s][i]
      BY EntriesOf
    <3> QED BY <1>7, <3>1
  <2> QED BY <1>3, <1>7, <2>1 DEF ReactsOnce
<1> QED BY <1>2, <1>6, <1>7

LEMMA ReactionTaken ==
    ASSUME NEW c \in [Awaiting!P -> Seq(Reaction)], NEW q \in Awaiting!P, NEW d, TakesReaction(c, q, d)
    PROVE  /\ d \in [Awaiting!P -> Seq(Reaction)]
           /\ Head(c[q]) \in Reaction /\ <<q, Head(c[q])>> \in Entries(c)
           /\ Entries(d) \subseteq Entries(c)
           /\ ReactsOnce(c) => ReactsOnce(d) /\ \A e \in Entries(d) : e[2].to.p # Head(c[q]).to.p
<1> DEFINE n == Len(c[q])
           l == Tail(c[q])
           old(s, i) == IF s = q THEN i + 1 ELSE i
<1>1. /\ n \in Nat \ {0} /\ DOMAIN c[q] = 1..n /\ Head(c[q]) = c[q][1]
      /\ l \in Seq(Reaction) /\ DOMAIN l = 1..n - 1
      /\ \A i \in 1..n - 1 : l[i] = c[q][i + 1]
  BY HeadTailProperties, LenProperties, EmptySeq DEF TakesReaction
<1>2. /\ d \in [Awaiting!P -> Seq(Reaction)] /\ d[q] = l
      /\ \A s \in Awaiting!P : s # q => d[s] = c[s]
  <2> HIDE DEF n, l
  <2>1. d = [c EXCEPT ![q] = l]
    BY DEF TakesReaction, l
  <2> QED BY <1>1, <2>1
<1> HIDE DEF n, l
<1>3. ASSUME NEW s \in Awaiting!P, NEW i \in DOMAIN d[s]
      PROVE  /\ old(s, i) \in DOMAIN c[s] /\ d[s][i] = c[s][old(s, i)] /\ i \in Nat
             /\ s = q => old(s, i) # 1
  <2>1. CASE s = q
    BY <1>1, <1>2, <2>1
  <2>2. CASE s # q
    BY <1>2, <2>2, LenProperties
  <2> QED BY <2>1, <2>2
<1>4. 1 \in DOMAIN c[q] /\ Head(c[q]) = c[q][1]
  BY <1>1
<1>5. Head(c[q]) \in Reaction /\ <<q, Head(c[q])>> \in Entries(c)
  BY <1>4, EntriesOf, ElementOfSeq, LenProperties
<1>6. ASSUME NEW e \in Entries(d)
      PROVE  \E s \in Awaiting!P : \E i \in DOMAIN d[s] : e = <<s, c[s][old(s, i)]>> /\ e \in Entries(c)
  <2>1. PICK s \in Awaiting!P : \E i \in DOMAIN d[s] : e = <<s, d[s][i]>>
    BY DEF Entries
  <2>2. PICK i \in DOMAIN d[s] : e = <<s, d[s][i]>>
    BY <2>1
  <2>3. old(s, i) \in DOMAIN c[s] /\ e = <<s, c[s][old(s, i)]>>
    BY <1>3, <2>2
  <2>4. e \in Entries(c)
    BY <2>3, EntriesOf
  <2> QED BY <2>2, <2>3, <2>4
<1>7. ASSUME ReactsOnce(c)
      PROVE  ReactsOnce(d) /\ \A e \in Entries(d) : e[2].to.p # Head(c[q]).to.p
  <2>1. ASSUME NEW s \in Awaiting!P, NEW u \in Awaiting!P, NEW i \in DOMAIN d[s], NEW j \in DOMAIN d[u],
               d[s][i].to.p = d[u][j].to.p
        PROVE  s = u /\ i = j
    <3>1. s = u /\ old(s, i) = old(u, j)
      BY <1>3, <1>7, <2>1 DEF ReactsOnce
    <3> QED BY <1>3, <3>1
  <2>2. ASSUME NEW e \in Entries(d)
        PROVE  e[2].to.p # Head(c[q]).to.p
    <3>1. PICK s \in Awaiting!P : \E i \in DOMAIN d[s] : e = <<s, c[s][old(s, i)]>>
      BY <1>6
    <3>2. PICK i \in DOMAIN d[s] : e = <<s, c[s][old(s, i)]>>
      BY <3>1
    <3>3. old(s, i) \in DOMAIN c[s] /\ (s = q => old(s, i) # 1)
      BY <1>3
    <3> HIDE DEF old
    <3>4. c[s][old(s, i)].to.p # c[q][1].to.p
      BY <1>4, <1>7, <3>3 DEF ReactsOnce
    <3> QED BY <1>4, <3>2, <3>4
  <2> QED BY <2>1, <2>2 DEF ReactsOnce
<1> QED BY <1>2, <1>5, <1>6, <1>7

LEMMA TaskAdded ==
    ASSUME NEW m \in Seq(MicroTasks), NEW t \in MicroTasks
    PROVE  /\ Append(m, t) \in Seq(MicroTasks)
           /\ Tasks(Append(m, t)) = Tasks(m) \cup {t}
           /\ FollowsOnce(m) /\ (t.kind = "follow" => \A u \in Tasks(m) : u.kind = "follow" => u.p # t.p)
              => FollowsOnce(Append(m, t))
<1> DEFINE n == Len(m)
           l == Append(m, t)
<1>1. /\ n \in Nat /\ DOMAIN m = 1..n /\ l \in Seq(MicroTasks) /\ DOMAIN l = 1..n + 1
      /\ \A i \in 1..n : l[i] = m[i]
      /\ l[n + 1] = t
  BY AppendProperties, LenProperties
<1> HIDE DEF n, l
<1>2. \A i \in DOMAIN l : IF i = n + 1 THEN l[i] = t ELSE i \in DOMAIN m /\ l[i] = m[i]
  BY <1>1
<1>3. \A i \in DOMAIN m : i \in DOMAIN l /\ l[i] = m[i]
  BY <1>1
<1>4. n + 1 \in DOMAIN l
  BY <1>1
<1>5. Tasks(l) = Tasks(m) \cup {t}
  BY <1>1, <1>2, <1>3, <1>4 DEF Tasks
<1>6. FollowsOnce(m) /\ (t.kind = "follow" => \A u \in Tasks(m) : u.kind = "follow" => u.p # t.p)
      => FollowsOnce(l)
  BY <1>1, <1>2 DEF FollowsOnce, Tasks
<1> QED BY <1>1, <1>5, <1>6 DEF l

LEMMA TaskTaken ==
    ASSUME NEW m \in Seq(MicroTasks), m # <<>>
    PROVE  /\ Tail(m) \in Seq(MicroTasks) /\ Head(m) \in MicroTasks
           /\ Tasks(m) = Tasks(Tail(m)) \cup {Head(m)}
           /\ FollowsOnce(m) =>
                 /\ FollowsOnce(Tail(m))
                 /\ Head(m).kind = "follow" => \A u \in Tasks(Tail(m)) : u.kind = "follow" => u.p # Head(m).p
<1> DEFINE n == Len(m)
           l == Tail(m)
<1>1. /\ n \in Nat \ {0} /\ DOMAIN m = 1..n /\ l \in Seq(MicroTasks) /\ DOMAIN l = 1..n - 1
      /\ \A i \in 1..n - 1 : l[i] = m[i + 1]
      /\ Head(m) = m[1] /\ Head(m) \in MicroTasks
  BY HeadTailProperties, LenProperties, EmptySeq
<1> HIDE DEF n, l
<1>2. \A i \in DOMAIN l : i + 1 \in DOMAIN m /\ l[i] = m[i + 1] /\ i + 1 # 1 /\ i \in Nat
  BY <1>1
<1>3. \A i \in DOMAIN m : i = 1 \/ (i - 1 \in DOMAIN l /\ l[i - 1] = m[i])
  BY <1>1
<1>4. 1 \in DOMAIN m
  BY <1>1
<1>5. Tasks(m) = Tasks(l) \cup {Head(m)}
  BY <1>1, <1>2, <1>3, <1>4 DEF Tasks
<1>6. ASSUME FollowsOnce(m)
      PROVE  /\ FollowsOnce(l)
             /\ Head(m).kind = "follow" => \A u \in Tasks(l) : u.kind = "follow" => u.p # Head(m).p
  <2>1. FollowsOnce(l)
    <3> SUFFICES ASSUME NEW i \in DOMAIN l, NEW j \in DOMAIN l,
                        l[i].kind = "follow" /\ l[j].kind = "follow" /\ l[i].p = l[j].p
                 PROVE  i = j
      BY DEF FollowsOnce
    <3>1. i + 1 = j + 1
      BY <1>2, <1>6 DEF FollowsOnce
    <3> QED BY <1>2, <3>1
  <2>2. ASSUME Head(m).kind = "follow", NEW i \in DOMAIN l, l[i].kind = "follow"
        PROVE  l[i].p # Head(m).p
    BY <1>1, <1>2, <1>4, <1>6, <2>2 DEF FollowsOnce
  <2> QED BY <2>1, <2>2 DEF Tasks
<1> QED BY <1>1, <1>5, <1>6 DEF l

-----------------------------------------------------------------------------
(* The invariant.                                                             *)

Owned(p) == p \in own /\ Awaiting!Direct(p) \notin spent
Follows(m, p) == m.kind = "follow" /\ m.p = p

\* Who may still settle a promise: the program, a microtask that asks another
\* promise, or a reaction; never two of them, and then nobody has settled it.
ReactionsMaySettle ==
    /\ ReactsOnce(chain)
    /\ \A e \in Entries(chain) :
          LET t == e[2].to
          IN  /\ t.p \in Awaiting!Made /\ t.w <= wrappers /\ t \notin spent
              /\ state[t.p] = 0 /\ ~Owned(t.p)
              /\ \A m \in Tasks(micro) \cup {running} : ~Follows(m, t.p)
FollowersMaySettle ==
    /\ FollowsOnce(micro)
    /\ \A m \in Tasks(micro) \cup {running} :
          m.kind = "follow" => m.p \in Awaiting!Made /\ state[m.p] = 0 /\ ~Owned(m.p) /\ fate[m.p] = m.x
    /\ running.kind = "follow" => \A m \in Tasks(micro) : ~Follows(m, running.p)
OwnersMaySettle ==
    /\ \A p \in Awaiting!P : Owned(p) => state[p] = 0 /\ fate[p] = "none"
    /\ running.kind = "both" => [p |-> running.p, w |-> running.x] \in spent
    /\ \A t \in spent : t.p \in Awaiting!Made /\ t.w <= wrappers
    /\ \A p \in Awaiting!P \ Awaiting!Made : state[p] = 0 /\ fate[p] = "none"

\* A reaction that adopts is one of the promise to follow.
AdoptsFate ==
    /\ \A e \in Entries(chain) :
          /\ e[2].ok = "adopt" <=> e[2].fail = "adopt"
          /\ fate[e[2].to.p] = IF e[2].ok = "adopt" THEN e[1] ELSE "none"
    /\ \A m \in Tasks(micro) \cup {running} : m.kind = "notify" => state[m.p] # 0

PromisesInv ==
    PromisesTyped /\ ReactionsMaySettle /\ FollowersMaySettle /\ OwnersMaySettle /\ AdoptsFate /\ Awaiting!FollowersAgree

LEMMA NamesAreApart ==
    /\ \A p \in Awaiting!P : /\ p \notin Outcomes /\ p \notin {"both", "adopt", "value", "throw", "self"}
                             /\ p # "none"
    /\ Awaiting!Made \subseteq Awaiting!P \/ made \notin 0..Awaiting!MaxPromises
    /\ Awaiting!MaxPromises \in Nat
<1>1. Awaiting!MaxPromises \in Nat /\ DOMAIN PromiseNames = 1..Awaiting!MaxPromises
  BY LenProperties, NamesAssumption DEF Awaiting!MaxPromises
<1>2. made \in 0..Awaiting!MaxPromises => Awaiting!Made \subseteq Awaiting!P
  BY <1>1 DEF Awaiting!Made, Awaiting!P
<1>3. \A p \in Awaiting!P : /\ p \notin Outcomes /\ p \notin {"both", "adopt", "value", "throw", "self"}
                            /\ p # "none"
  BY NamesAssumption DEF Outcomes
<1> QED BY <1>1, <1>2, <1>3

\* The next promise is a new one.
LEMMA MakesNew ==
    ASSUME made \in 0..Awaiting!MaxPromises, made < Awaiting!MaxPromises, made' = made + 1
    PROVE  /\ made' \in 0..Awaiting!MaxPromises /\ PromiseNames[made + 1] \in Awaiting!P \ Awaiting!Made
           /\ Awaiting!Made' = Awaiting!Made \cup {PromiseNames[made + 1]}
<1>1. Awaiting!MaxPromises \in Nat /\ DOMAIN PromiseNames = 1..Awaiting!MaxPromises
  BY LenProperties, NamesAssumption DEF Awaiting!MaxPromises
<1>2. \A i, j \in 1..Awaiting!MaxPromises : PromiseNames[i] = PromiseNames[j] => i = j
  BY <1>1, NamesAssumption
<1> QED BY <1>1, <1>2 DEF Awaiting!Made, Awaiting!P

LEMMA PromisesInit ==
    ASSUME Awaiting!Init
    PROVE  PromisesInv
<1>1. /\ <<>> \in Seq(MicroTasks) /\ <<>> \in Seq(Reaction) /\ <<>> \in Seq(Nat) /\ DOMAIN <<>> = {}
      /\ Awaiting!MaxPromises \in Nat
  BY NamesAreApart
<1>2. PromisesTyped
  BY <1>1 DEF Awaiting!Init, PromisesTyped, Outcomes
<1>3. Entries(chain) = {} /\ Tasks(micro) = {} /\ ReactsOnce(chain) /\ FollowsOnce(micro)
  BY <1>1 DEF Awaiting!Init, Entries, Tasks, ReactsOnce, FollowsOnce
<1>4. running.kind = "idle"
  BY DEF Awaiting!Init, Awaiting!Idle, Awaiting!Task
<1> QED BY <1>2, <1>3, <1>4, NamesAreApart
        DEF PromisesInv, Awaiting!Init, ReactionsMaySettle, FollowersMaySettle, OwnersMaySettle, AdoptsFate,
            Awaiting!FollowersAgree, Follows, Owned

\* A promise nobody else may settle is settled, and what is left of the
\* reactions and of the microtasks is that of the others.
LEMMA SettlingKeeps ==
    ASSUME PromisesInv, NEW t \in Targets, t.p \in Awaiting!Made, t.w <= wrappers', t \notin spent,
           attached' \in [Awaiting!P -> Nat], reacted' \in [Awaiting!P -> Seq(Nat)],
           NEW s \in {1, 2}, NEW x \in Outcomes, NEW n \in BOOLEAN,
           state[t.p] = 0, state' = [state EXCEPT ![t.p] = s], value' = [value EXCEPT ![t.p] = x],
           spent' = spent \cup {t}, fate' = fate, own' = own, made' = made,
           wrappers' \in {wrappers, wrappers + 1},
           chain' \in [Awaiting!P -> Seq(Reaction)], ReactsOnce(chain'),
           Entries(chain') \subseteq Entries(chain),
           \A e \in Entries(chain') : e[2].to.p # t.p,
           micro' \in {micro, Append(micro, Awaiting!Task("notify", t.p, n))},
           running' \in {running, Awaiting!Idle, Awaiting!Task("both", t.p, t.w)},
           \A m \in Tasks(micro) \cup {running'} : ~Follows(m, t.p),
           t.p \in own => Awaiting!Direct(t.p) \in spent',
           fate[t.p] \in Awaiting!P => /\ state[fate[t.p]] = s /\ value[fate[t.p]] = x
    PROVE  PromisesInv'
<1> DEFINE p == t.p
           note == Awaiting!Task("notify", p, n)
<1>1. /\ p \in Awaiting!P /\ t.w \in Nat /\ wrappers \in Nat /\ wrappers' \in Nat /\ wrappers <= wrappers'
      /\ t = [p |-> p, w |-> t.w]
  BY NamesAreApart DEF Targets, PromisesInv, PromisesTyped
<1>2. note \in MicroTasks /\ note.kind = "notify" /\ note.p = p
  BY <1>1 DEF MicroTasks, Awaiting!Task
<1>3. /\ micro' \in Seq(MicroTasks) /\ FollowsOnce(micro')
      /\ Tasks(micro') \subseteq Tasks(micro) \cup {note}
  <2>1. micro \in Seq(MicroTasks) /\ FollowsOnce(micro)
    BY DEF PromisesInv, PromisesTyped, FollowersMaySettle
  <2>2. CASE micro' = micro
    BY <2>1, <2>2
  <2>3. CASE micro' = Append(micro, note)
    <3> HIDE DEF note
    <3>1. note.kind # "follow"
      BY <1>2
    <3> QED BY <1>2, <2>1, <2>3, <3>1, TaskAdded
  <2> QED BY <2>2, <2>3
<1> HIDE DEF note, p
<1>4. /\ state' \in [Awaiting!P -> 0..2] /\ value' \in [Awaiting!P -> Outcomes]
      /\ state'[p] = s /\ value'[p] = x /\ s # 0
      /\ \A q \in Awaiting!P \ {p} : state'[q] = state[q] /\ value'[q] = value[q]
  <2>1. state \in [Awaiting!P -> 0..2] /\ value \in [Awaiting!P -> Outcomes]
    BY DEF PromisesInv, PromisesTyped
  <2>2. s \in 0..2
    OBVIOUS
  <2> QED BY <1>1, <2>1, <2>2 DEF p
<1>5. Awaiting!Made' = Awaiting!Made /\ Awaiting!Direct(p) = [p |-> p, w |-> 0] /\ state[p] = 0
  BY DEF Awaiting!Made, Awaiting!Direct, p
<1>6. /\ running' \in {Awaiting!Idle} \cup MicroTasks \cup [kind : {"both"}, p : Awaiting!P, x : Nat]
      /\ running'.kind \in {"notify", "follow"} => running' = running
      /\ running'.kind = "both" => running' = running \/ [p |-> running'.p, w |-> running'.x] = t
  <2>1. CASE running' = running
    BY <2>1 DEF PromisesInv, PromisesTyped
  <2>2. CASE running' = Awaiting!Idle
    BY <2>2 DEF Awaiting!Idle, Awaiting!Task
  <2>3. CASE running' = Awaiting!Task("both", p, t.w)
    BY <1>1, <2>3 DEF Awaiting!Task
  <2> QED BY <2>1, <2>2, <2>3 DEF p
<1>7. PromisesTyped'
  BY <1>1, <1>3, <1>4, <1>5, <1>6 DEF PromisesInv, PromisesTyped
<1>8. \A q \in Awaiting!P : Owned(q)' => Owned(q) /\ q # p
  BY DEF Owned, Awaiting!Direct, p
<1>9. ReactionsMaySettle'
  <2> SUFFICES ASSUME NEW e \in Entries(chain')
               PROVE  LET u == e[2].to
                      IN  /\ u.p \in Awaiting!Made' /\ u.w <= wrappers' /\ u \notin spent'
                          /\ state'[u.p] = 0 /\ ~Owned(u.p)'
                          /\ \A m \in Tasks(micro') \cup {running'} : ~Follows(m, u.p)
    BY DEF ReactionsMaySettle, Follows
  <2>1. /\ e \in Entries(chain) /\ e[2].to.p # p /\ e[2] \in Reaction
    BY EntriesOf DEF p
  <2>2. e[2].to.p \in Awaiting!P /\ e[2].to.w \in Nat /\ e[2].to # t
    BY <2>1 DEF Reaction, Targets, p
  <2>3. /\ e[2].to.p \in Awaiting!Made /\ e[2].to.w <= wrappers /\ e[2].to \notin spent
        /\ state[e[2].to.p] = 0 /\ ~Owned(e[2].to.p)
        /\ \A m \in Tasks(micro) \cup {running} : ~Follows(m, e[2].to.p)
    BY <2>1 DEF PromisesInv, ReactionsMaySettle
  <2>4. \A m \in Tasks(micro') \cup {running'} : ~Follows(m, e[2].to.p)
    BY <1>2, <1>3, <1>6, <2>3 DEF Follows
  <2>5. e[2].to.w <= wrappers'
    BY <1>1, <2>2, <2>3
  <2> QED BY <1>4, <1>5, <1>8, <2>1, <2>2, <2>3, <2>4, <2>5
<1>10. FollowersMaySettle'
  <2>1. ASSUME NEW m \in Tasks(micro') \cup {running'}, m.kind = "follow"
        PROVE  m \in Tasks(micro) \cup {running} /\ m.p # p /\ m.p \in Awaiting!P
    BY <1>2, <1>3, <1>6, <2>1, NamesAreApart DEF Follows, p, PromisesInv, PromisesTyped, FollowersMaySettle
  <2>2. ASSUME NEW m \in Tasks(micro') \cup {running'}, m.kind = "follow"
        PROVE  m.p \in Awaiting!Made' /\ state'[m.p] = 0 /\ ~Owned(m.p)' /\ fate'[m.p] = m.x
    BY <1>4, <1>5, <1>8, <2>1, <2>2 DEF PromisesInv, FollowersMaySettle
  <2>3. ASSUME running'.kind = "follow", NEW m \in Tasks(micro')
        PROVE  ~Follows(m, running'.p)
    BY <1>2, <1>3, <1>6, <2>3 DEF Follows, PromisesInv, FollowersMaySettle
  <2> QED BY <1>3, <2>2, <2>3 DEF FollowersMaySettle, Follows
<1>11. OwnersMaySettle'
  <2>1. \A u \in spent' : u.p \in Awaiting!Made /\ u.w <= wrappers'
    <3>1. \A u \in spent : u.w \in Nat /\ u.p \in Awaiting!Made /\ u.w <= wrappers
      BY DEF PromisesInv, PromisesTyped, Targets, OwnersMaySettle
    <3> QED BY <1>1, <3>1 DEF p
  <2>2. running'.kind = "both" => [p |-> running'.p, w |-> running'.x] \in spent'
    BY <1>6 DEF PromisesInv, OwnersMaySettle
  <2>3. \A q \in Awaiting!P \ Awaiting!Made : state'[q] = 0 /\ fate'[q] = "none"
    BY <1>4 DEF PromisesInv, OwnersMaySettle, p
  <2>4. \A q \in Awaiting!P : Owned(q)' => state'[q] = 0 /\ fate'[q] = "none"
    BY <1>4, <1>8 DEF PromisesInv, OwnersMaySettle
  <2> QED BY <1>5, <2>1, <2>2, <2>3, <2>4 DEF OwnersMaySettle
<1>12. AdoptsFate'
  BY <1>2, <1>3, <1>4, <1>6 DEF PromisesInv, AdoptsFate, p
<1>13. Awaiting!FollowersAgree'
  BY <1>1, <1>4, <1>5 DEF PromisesInv, Awaiting!FollowersAgree, p
<1> QED BY <1>7, <1>9, <1>10, <1>11, <1>12, <1>13 DEF PromisesInv

\* What a handler did settles its target.
LEMMA PassSettles ==
    ASSUME NEW t \in Targets, t \notin spent,
           NEW h \in {"none", "value", "throw", "self", "adopt"}, NEW x \in Outcomes, NEW rejected \in BOOLEAN,
           Awaiting!Pass(h, x, rejected, t)
    PROVE  \E s \in {1, 2}, y \in Outcomes, n \in BOOLEAN :
              /\ state' = [state EXCEPT ![t.p] = s] /\ value' = [value EXCEPT ![t.p] = y]
              /\ spent' = spent \cup {t} /\ fate' = fate
              /\ micro' \in {micro, Append(micro, Awaiting!Task("notify", t.p, n))}
              /\ h = "adopt" => y = x /\ (s = 2 <=> rejected)
<1>1. /\ t.p \in Awaiting!P /\ t.p \notin Outcomes /\ "first" \in Outcomes /\ "thrown" \in Outcomes /\ "TypeError" \in Outcomes
      /\ x \notin Awaiting!P \cup {"both"} /\ "first" \notin Awaiting!P \cup {"both"} /\ x # t.p /\ "first" # t.p
  BY NamesAreApart DEF Targets, Outcomes
<1>2. ASSUME NEW y \in Outcomes, Awaiting!Reject(t, y)
      PROVE  /\ state' = [state EXCEPT ![t.p] = 2] /\ value' = [value EXCEPT ![t.p] = y]
             /\ spent' = spent \cup {t} /\ fate' = fate
             /\ micro' \in {micro, Append(micro, Awaiting!Task("notify", t.p, TRUE))}
  BY <1>2 DEF Awaiting!Reject, Awaiting!Spent, Awaiting!Settle, Awaiting!Notify
<1>3. ASSUME NEW y \in {"first", x}, Awaiting!Resolve(t, y)
      PROVE  /\ state' = [state EXCEPT ![t.p] = 1] /\ value' = [value EXCEPT ![t.p] = y]
             /\ spent' = spent \cup {t} /\ fate' = fate
             /\ micro' \in {micro, Append(micro, Awaiting!Task("notify", t.p, 1 = 2))}
  <2>1. y \notin Awaiting!P \cup {"both"} /\ y # t.p
    BY <1>1
  <2>2. spent' = spent \cup {t} /\ Awaiting!Settle(t.p, 1, y)
    BY <1>3, <2>1 DEF Awaiting!Resolve, Awaiting!Spent
  <2> QED BY <2>2 DEF Awaiting!Settle, Awaiting!Notify
<1>4. CASE h = "throw" \/ h = "self" \/ (h \in {"none", "adopt"} /\ rejected)
  <2>1. \E y \in Outcomes : Awaiting!Reject(t, y) /\ (h = "adopt" => y = x)
    <3>1. CASE h = "throw" \/ h = "self"
      BY <1>1, <3>1 DEF Awaiting!Pass
    <3>2. CASE h \in {"none", "adopt"} /\ rejected
      BY <1>1, <3>2 DEF Awaiting!Pass
    <3> QED BY <1>4, <3>1, <3>2
  <2>2. PICK y \in Outcomes : Awaiting!Reject(t, y) /\ (h = "adopt" => y = x)
    BY <2>1
  <2>3. h = "adopt" => rejected
    BY <1>4
  <2>4. 2 \in {1, 2} /\ TRUE \in BOOLEAN
    OBVIOUS
  <2> QED BY <1>2, <2>2, <2>3, <2>4
<1>5. CASE h = "value" \/ (h \in {"none", "adopt"} /\ ~rejected)
  <2>1. \E y \in {"first", x} : Awaiting!Resolve(t, y) /\ (h = "adopt" => y = x)
    <3>1. CASE h = "value"
      BY <3>1 DEF Awaiting!Pass
    <3>2. CASE h \in {"none", "adopt"} /\ ~rejected
      <4>1. ~rejected /\ h # "throw" /\ h # "self" /\ h # "value"
        BY <3>2
      <4>2. Awaiting!Resolve(t, x)
        BY <4>1 DEF Awaiting!Pass
      <4> QED BY <4>2
    <3> QED BY <1>5, <3>1, <3>2
  <2>2. PICK y \in {"first", x} : Awaiting!Resolve(t, y) /\ (h = "adopt" => y = x)
    BY <2>1
  <2>3. h = "adopt" => ~rejected
    BY <1>5
  <2>4. y \in Outcomes
    BY <1>1, <2>2
  <2>5. 1 \in {1, 2} /\ (1 = 2) \in BOOLEAN
    OBVIOUS
  <2>6. h = "adopt" => y = x /\ ((1 = 2) <=> rejected)
    BY <2>2, <2>3
  <2>7. /\ state' = [state EXCEPT ![t.p] = 1] /\ value' = [value EXCEPT ![t.p] = y]
        /\ spent' = spent \cup {t} /\ fate' = fate
        /\ micro' \in {micro, Append(micro, Awaiting!Task("notify", t.p, 1 = 2))}
    BY <1>3, <2>2
  <2> QED BY <2>4, <2>5, <2>6, <2>7
<1> QED BY <1>4, <1>5

\* A microtask that runs the reactions of a settled promise.
LEMMA NotedKeeps ==
    ASSUME PromisesInv, NEW p \in Awaiting!P, state[p] # 0,
           micro' \in {micro, Append(micro, Awaiting!Task("notify", p, FALSE))}
    PROVE  /\ micro' \in Seq(MicroTasks) /\ FollowsOnce(micro')
           /\ \A m \in Tasks(micro') : m \in Tasks(micro) \/ (m.kind = "notify" /\ m.p = p)
<1> DEFINE note == Awaiting!Task("notify", p, FALSE)
<1>1. note \in MicroTasks /\ note.kind = "notify" /\ note.p = p
  BY DEF MicroTasks, Awaiting!Task
<1>2. micro \in Seq(MicroTasks) /\ FollowsOnce(micro)
  BY DEF PromisesInv, PromisesTyped, FollowersMaySettle
<1> HIDE DEF note
<1>3. note.kind # "follow"
  BY <1>1
<1>4. CASE micro' = Append(micro, note)
  BY <1>1, <1>2, <1>3, <1>4, TaskAdded
<1> QED BY <1>2, <1>4 DEF note

\* A reaction is attached for a promise that no other reaction settles.
LEMMA AttachAdds ==
    ASSUME PromisesInv, NEW p \in Awaiting!P, NEW t \in Targets,
           NEW ok \in Awaiting!Handler \cup {"adopt"}, NEW fail \in Awaiting!Handler \cup {"adopt"},
           Awaiting!Attach(p, ok, fail, t), \A e \in Entries(chain) : e[2].to.p # t.p
    PROVE  /\ chain' \in [Awaiting!P -> Seq(Reaction)] /\ ReactsOnce(chain')
           /\ \A e \in Entries(chain') :
                 e \in Entries(chain) \/ (e[1] = p /\ e[2].ok = ok /\ e[2].fail = fail /\ e[2].to = t)
           /\ attached' \in [Awaiting!P -> Nat]
           /\ micro' \in Seq(MicroTasks) /\ FollowsOnce(micro')
           /\ \A m \in Tasks(micro') : m \in Tasks(micro) \/ (m.kind = "notify" /\ state[m.p] # 0)
<1> DEFINE r == [ok |-> ok, fail |-> fail, to |-> t, nr |-> attached[p] + 1]
<1>1. /\ chain \in [Awaiting!P -> Seq(Reaction)] /\ attached \in [Awaiting!P -> Nat] /\ ReactsOnce(chain)
      /\ micro \in Seq(MicroTasks) /\ FollowsOnce(micro)
  BY DEF PromisesInv, PromisesTyped, ReactionsMaySettle, FollowersMaySettle
<1>2. r \in Reaction /\ r.ok = ok /\ r.fail = fail /\ r.to = t
  BY <1>1 DEF Reaction
<1>3. chain' = [chain EXCEPT ![p] = Append(@, r)] /\ attached' \in [Awaiting!P -> Nat]
  BY <1>1 DEF Awaiting!Attach
<1> HIDE DEF r
<1>4. /\ chain' \in [Awaiting!P -> Seq(Reaction)] /\ ReactsOnce(chain')
      /\ Entries(chain') = Entries(chain) \cup {<<p, r>>}
  <2>1. \A e \in Entries(chain) : e[2].to.p # r.to.p
    BY <1>2
  <2>2. AddsReaction(chain, p, r, chain')
    BY <1>3 DEF AddsReaction
  <2> QED BY <1>1, <1>2, <2>1, <2>2, ReactionAdded
<1>5. \A e \in Entries(chain') :
         e \in Entries(chain) \/ (e[1] = p /\ e[2].ok = ok /\ e[2].fail = fail /\ e[2].to = t)
  BY <1>2, <1>4
<1>6. /\ micro' \in Seq(MicroTasks) /\ FollowsOnce(micro')
      /\ \A m \in Tasks(micro') : m \in Tasks(micro) \/ (m.kind = "notify" /\ state[m.p] # 0)
  <2>1. CASE state[p] = 0
    <3>1. micro' = micro
      BY <2>1 DEF Awaiting!Attach
    <3> QED BY <1>1, <3>1
  <2>2. CASE state[p] # 0
    <3>1. micro' \in {micro, Append(micro, Awaiting!Task("notify", p, FALSE))}
      BY <2>2 DEF Awaiting!Attach, Awaiting!Notify
    <3>2. /\ micro' \in Seq(MicroTasks) /\ FollowsOnce(micro')
          /\ \A m \in Tasks(micro') : m \in Tasks(micro) \/ (m.kind = "notify" /\ m.p = p)
      BY <2>2, <3>1, NotedKeeps
    <3> QED BY <2>2, <3>2
  <2> QED BY <2>1, <2>2
<1> QED BY <1>3, <1>4, <1>5, <1>6

-----------------------------------------------------------------------------
(* The steps.                                                                 *)

Relevant == <<made, own, state, value, spent, chain, wrappers, micro, running, fate, attached, reacted>>

LEMMA SameKeeps ==
    ASSUME PromisesInv, UNCHANGED Relevant
    PROVE  PromisesInv'
<1>1. /\ made' = made /\ own' = own /\ state' = state /\ value' = value /\ spent' = spent /\ chain' = chain
      /\ wrappers' = wrappers /\ micro' = micro /\ running' = running /\ fate' = fate
      /\ attached' = attached /\ reacted' = reacted
  BY DEF Relevant
<1>2. /\ Awaiting!Made' = Awaiting!Made /\ Entries(chain') = Entries(chain) /\ Tasks(micro') = Tasks(micro)
      /\ ReactsOnce(chain') <=> ReactsOnce(chain)
      /\ FollowsOnce(micro') <=> FollowsOnce(micro)
      /\ \A p : Owned(p)' <=> Owned(p)
  BY <1>1 DEF Awaiting!Made, Owned
<1>3. PromisesTyped' /\ ReactionsMaySettle' /\ FollowersMaySettle'
  BY <1>1, <1>2 DEF PromisesInv, PromisesTyped, ReactionsMaySettle, FollowersMaySettle
<1>4. OwnersMaySettle' /\ AdoptsFate' /\ Awaiting!FollowersAgree'
  BY <1>1, <1>2 DEF PromisesInv, OwnersMaySettle, AdoptsFate, Awaiting!FollowersAgree
<1> QED BY <1>3, <1>4 DEF PromisesInv

\* The program resolves a promise it holds with another one.
LEMMA AskedKeeps ==
    ASSUME PromisesInv, NEW p \in Awaiting!P, Owned(p), NEW x \in Awaiting!P \cup {"both"},
           spent' = spent \cup {Awaiting!Direct(p)}, micro' = Append(micro, Awaiting!Task("follow", p, x)),
           fate' = [fate EXCEPT ![p] = x],
           UNCHANGED <<made, own, state, value, chain, wrappers, running, attached, reacted>>
    PROVE  PromisesInv'
<1> DEFINE ask == Awaiting!Task("follow", p, x)
<1>1. ask \in MicroTasks /\ ask.kind = "follow" /\ ask.p = p /\ ask.x = x
  BY DEF MicroTasks, Awaiting!Task
<1> HIDE DEF ask
<1>2. /\ made' = made /\ own' = own /\ state' = state /\ value' = value /\ chain' = chain
      /\ wrappers' = wrappers /\ running' = running /\ attached' = attached /\ reacted' = reacted
      /\ Awaiting!Made' = Awaiting!Made
  BY DEF Awaiting!Made
<1>3. /\ own \subseteq Awaiting!Made /\ Awaiting!Made \subseteq Awaiting!P /\ p \in Awaiting!Made /\ wrappers \in Nat
      /\ Awaiting!Direct(p) \in Targets /\ Awaiting!Direct(p).p = p /\ Awaiting!Direct(p).w = 0
  BY NamesAreApart DEF PromisesInv, PromisesTyped, Awaiting!Direct, Targets, Owned
<1>4. state[p] = 0 /\ fate[p] = "none"
  BY DEF PromisesInv, OwnersMaySettle
<1>5. /\ \A e \in Entries(chain) : e[2].to.p # p
      /\ \A m \in Tasks(micro) \cup {running} : ~Follows(m, p)
  BY DEF PromisesInv, ReactionsMaySettle, FollowersMaySettle, Follows
<1>6. micro \in Seq(MicroTasks) /\ FollowsOnce(micro)
  BY DEF PromisesInv, PromisesTyped, FollowersMaySettle
<1>7. /\ micro' \in Seq(MicroTasks) /\ Tasks(micro') = Tasks(micro) \cup {ask} /\ FollowsOnce(micro')
  <2>1. micro' = Append(micro, ask)
    BY DEF ask
  <2>2. \A u \in Tasks(micro) : u.kind = "follow" => u.p # ask.p
    BY <1>1, <1>5 DEF Follows
  <2> QED BY <1>1, <1>6, <2>1, <2>2, TaskAdded
<1>8. /\ fate' \in [Awaiting!P -> Awaiting!P \cup {"none", "both"}] /\ fate'[p] = x
      /\ \A q \in Awaiting!P : q # p => fate'[q] = fate[q]
  BY DEF PromisesInv, PromisesTyped
<1>9. ~Owned(p)' /\ \A q \in Awaiting!P : Owned(q)' => Owned(q) /\ q # p
  BY <1>2 DEF Owned
<1>10. PromisesTyped'
  BY <1>2, <1>3, <1>7, <1>8 DEF PromisesInv, PromisesTyped
<1>11. ReactionsMaySettle'
  <2>1. ASSUME NEW e \in Entries(chain)
        PROVE  LET t == e[2].to
               IN  /\ t.p \in Awaiting!Made /\ t.w <= wrappers /\ t \notin spent' /\ state[t.p] = 0 /\ ~Owned(t.p)'
                   /\ \A m \in Tasks(micro') \cup {running} : ~Follows(m, t.p)
    BY <1>1, <1>3, <1>5, <1>7, <1>9 DEF PromisesInv, ReactionsMaySettle, Follows
  <2> QED BY <1>2, <2>1 DEF PromisesInv, ReactionsMaySettle
<1>12. FollowersMaySettle'
  <2>1. ASSUME NEW m \in Tasks(micro') \cup {running}, m.kind = "follow"
        PROVE  m.p \in Awaiting!Made /\ state[m.p] = 0 /\ ~Owned(m.p)' /\ fate'[m.p] = m.x
    <3>1. CASE m = ask
      BY <1>1, <1>3, <1>4, <1>8, <1>9, <3>1
    <3>2. CASE m # ask
      BY <1>3, <1>5, <1>7, <1>8, <1>9, <2>1, <3>2 DEF PromisesInv, FollowersMaySettle, Follows
    <3> QED BY <3>1, <3>2
  <2>2. running.kind = "follow" => \A m \in Tasks(micro') : ~Follows(m, running.p)
    BY <1>1, <1>5, <1>7 DEF PromisesInv, FollowersMaySettle, Follows
  <2> QED BY <1>2, <1>7, <2>1, <2>2 DEF FollowersMaySettle
<1>13. OwnersMaySettle'
  <2>1. \A q \in Awaiting!P : Owned(q)' => state[q] = 0 /\ fate'[q] = "none"
    BY <1>8, <1>9 DEF PromisesInv, OwnersMaySettle
  <2>2. running.kind = "both" => [p |-> running.p, w |-> running.x] \in spent'
    BY DEF PromisesInv, OwnersMaySettle
  <2>3. \A t \in spent' : t.p \in Awaiting!Made /\ t.w <= wrappers
    BY <1>3 DEF PromisesInv, OwnersMaySettle
  <2>4. \A q \in Awaiting!P \ Awaiting!Made : state[q] = 0 /\ fate'[q] = "none"
    BY <1>3, <1>8 DEF PromisesInv, OwnersMaySettle
  <2> QED BY <1>2, <2>1, <2>2, <2>3, <2>4 DEF OwnersMaySettle
<1>14. AdoptsFate'
  <2>1. \A e \in Entries(chain) : e[2].to.p \in Awaiting!P /\ fate'[e[2].to.p] = fate[e[2].to.p]
    BY <1>3, <1>5, <1>8 DEF PromisesInv, ReactionsMaySettle
  <2> QED BY <1>1, <1>2, <1>7, <2>1 DEF PromisesInv, AdoptsFate
<1>15. Awaiting!FollowersAgree'
  BY <1>2, <1>4, <1>8 DEF PromisesInv, Awaiting!FollowersAgree
<1> QED BY <1>10, <1>11, <1>12, <1>13, <1>14, <1>15 DEF PromisesInv

LEMMA CallKeeps ==
    ASSUME PromisesInv, NEW p \in Awaiting!Made,
           Awaiting!CallReject(p) \/ \E x \in {"first", "both"} \cup Awaiting!Made : Awaiting!CallResolve(p, x)
    PROVE  PromisesInv'
<1>1. /\ p \in own /\ UNCHANGED <<made, own, chain, wrappers, running, attached, reacted>>
      /\ own \subseteq Awaiting!Made /\ Awaiting!Made \subseteq Awaiting!P /\ p \in Awaiting!P /\ wrappers \in Nat
      /\ Awaiting!Direct(p) \in Targets /\ Awaiting!Direct(p).p = p /\ Awaiting!Direct(p).w = 0
  BY NamesAreApart DEF Awaiting!CallReject, Awaiting!CallResolve, PromisesInv, PromisesTyped, Awaiting!Direct, Targets
<1>2. CASE Awaiting!Direct(p) \in spent
  <2>1. UNCHANGED <<state, value, spent, micro, fate>>
    BY <1>2 DEF Awaiting!CallReject, Awaiting!CallResolve, Awaiting!Reject, Awaiting!Resolve, Awaiting!Spent, Awaiting!settling
  <2> QED BY <1>1, <2>1, SameKeeps DEF Relevant
<1>3. ASSUME Awaiting!Direct(p) \notin spent, NEW s \in {1, 2}, NEW x \in Outcomes, NEW n \in BOOLEAN,
             state' = [state EXCEPT ![p] = s], value' = [value EXCEPT ![p] = x],
             spent' = spent \cup {Awaiting!Direct(p)}, fate' = fate,
             micro' \in {micro, Append(micro, Awaiting!Task("notify", p, n))}
      PROVE  PromisesInv'
  <2>1. Owned(p) /\ state[p] = 0 /\ fate[p] \notin Awaiting!P
    BY <1>1, <1>3, NamesAreApart DEF Owned, PromisesInv, OwnersMaySettle
  <2>2. /\ \A e \in Entries(chain) : e[2].to.p # p
        /\ \A m \in Tasks(micro) \cup {running} : ~Follows(m, p)
    BY <2>1 DEF PromisesInv, ReactionsMaySettle, FollowersMaySettle, Follows
  <2>3. /\ chain \in [Awaiting!P -> Seq(Reaction)] /\ ReactsOnce(chain)
        /\ attached \in [Awaiting!P -> Nat] /\ reacted \in [Awaiting!P -> Seq(Nat)]
    BY DEF PromisesInv, PromisesTyped, ReactionsMaySettle
  <2> DEFINE t == Awaiting!Direct(p)
  <2>4. /\ t \in Targets /\ t.p \in Awaiting!Made /\ t.w <= wrappers' /\ t \notin spent
        /\ state[t.p] = 0 /\ spent' = spent \cup {t} /\ t.p = p
    BY <1>1, <1>3, <2>1
  <2>5. /\ chain' = chain /\ made' = made /\ own' = own /\ wrappers' = wrappers /\ running' = running
        /\ attached' = attached /\ reacted' = reacted
    BY <1>1
  <2>6. Awaiting!Direct(t.p) \in spent'
    BY <2>4
  <2> HIDE DEF t
  <2> QED BY <1>3, <2>1, <2>2, <2>3, <2>4, <2>5, <2>6, SettlingKeeps
<1>4. CASE Awaiting!Direct(p) \notin spent /\ Awaiting!CallReject(p)
  <2>1. /\ state' = [state EXCEPT ![p] = 2] /\ value' = [value EXCEPT ![p] = "rejected"]
        /\ spent' = spent \cup {Awaiting!Direct(p)} /\ fate' = fate
        /\ micro' \in {micro, Append(micro, Awaiting!Task("notify", p, TRUE))}
    BY <1>1, <1>4 DEF Awaiting!CallReject, Awaiting!Reject, Awaiting!Spent, Awaiting!Settle, Awaiting!Notify
  <2>2. "rejected" \in Outcomes
    BY DEF Outcomes
  <2> QED BY <1>3, <1>4, <2>1, <2>2
<1>5. ASSUME Awaiting!Direct(p) \notin spent, NEW x \in {"first", "both"} \cup Awaiting!Made, Awaiting!CallResolve(p, x)
      PROVE  PromisesInv'
  <2>1. Awaiting!Resolve(Awaiting!Direct(p), x)
    BY <1>5 DEF Awaiting!CallResolve
  <2>2. CASE x = p
    <3>1. /\ state' = [state EXCEPT ![p] = 2] /\ value' = [value EXCEPT ![p] = "TypeError"]
          /\ spent' = spent \cup {Awaiting!Direct(p)} /\ fate' = fate
          /\ micro' \in {micro, Append(micro, Awaiting!Task("notify", p, TRUE))}
      BY <1>1, <1>5, <2>1, <2>2 DEF Awaiting!Resolve, Awaiting!Spent, Awaiting!Settle, Awaiting!Notify
    <3>2. "TypeError" \in Outcomes
      BY DEF Outcomes
    <3> QED BY <1>3, <1>5, <3>1, <3>2
  <2>3. CASE x # p /\ x \in Awaiting!P \cup {"both"}
    <3>1. /\ spent' = spent \cup {Awaiting!Direct(p)} /\ micro' = Append(micro, Awaiting!Task("follow", p, x))
          /\ fate' = [fate EXCEPT ![p] = x] /\ UNCHANGED <<state, value>>
      BY <1>1, <1>5, <2>1, <2>3 DEF Awaiting!Resolve, Awaiting!Spent
    <3>2. Owned(p)
      BY <1>1, <1>5 DEF Owned
    <3> QED BY <1>1, <2>3, <3>1, <3>2, AskedKeeps
  <2>4. CASE x = "first" /\ x # p /\ x \notin Awaiting!P \cup {"both"}
    <3>1. spent' = spent \cup {Awaiting!Direct(p)} /\ Awaiting!Settle(p, 1, x)
      BY <1>1, <1>5, <2>1, <2>4 DEF Awaiting!Resolve, Awaiting!Spent
    <3>2. /\ state' = [state EXCEPT ![p] = 1] /\ value' = [value EXCEPT ![p] = x]
          /\ fate' = fate
          /\ micro' \in {micro, Append(micro, Awaiting!Task("notify", p, 1 = 2))}
      BY <3>1 DEF Awaiting!Settle, Awaiting!Notify
    <3>3. x \in Outcomes /\ (1 = 2) \in BOOLEAN
      BY <2>4 DEF Outcomes
    <3> QED BY <1>3, <1>5, <3>1, <3>2, <3>3
  <2> QED BY <1>1, <1>5, <2>2, <2>3, <2>4
<1> QED BY <1>2, <1>4, <1>5

LEMMA NewKeeps ==
    ASSUME PromisesInv, Awaiting!New
    PROVE  PromisesInv'
<1> DEFINE n == PromiseNames[made + 1]
<1>1. /\ state' = state /\ value' = value /\ spent' = spent /\ chain' = chain
      /\ wrappers' = wrappers /\ micro' = micro /\ running' = running /\ fate' = fate
      /\ attached' = attached /\ reacted' = reacted /\ own' = own \cup {n}
  BY DEF Awaiting!New, Awaiting!settling
<1>2. /\ made' \in 0..Awaiting!MaxPromises /\ n \in Awaiting!P \ Awaiting!Made /\ Awaiting!Made' = Awaiting!Made \cup {n}
  <2>1. made \in 0..Awaiting!MaxPromises /\ made < Awaiting!MaxPromises /\ made' = made + 1
    BY DEF Awaiting!New, PromisesInv, PromisesTyped
  <2> QED BY <2>1, MakesNew
<1> HIDE DEF n
<1>3. \A p : Owned(p)' => Owned(p) \/ p = n
  BY <1>1 DEF Owned
<1>4. state[n] = 0 /\ fate[n] = "none"
  BY <1>2 DEF PromisesInv, OwnersMaySettle
<1>5. PromisesTyped'
  BY <1>1, <1>2 DEF PromisesInv, PromisesTyped
<1>6. ReactionsMaySettle'
  <2>1. ASSUME NEW e \in Entries(chain)
        PROVE  e[2].to.p \in Awaiting!Made /\ ~Owned(e[2].to.p)'
    BY <1>2, <1>3 DEF PromisesInv, ReactionsMaySettle
  <2> QED BY <1>1, <1>2, <2>1 DEF PromisesInv, ReactionsMaySettle
<1>7. FollowersMaySettle'
  <2>1. ASSUME NEW m \in Tasks(micro) \cup {running}, m.kind = "follow"
        PROVE  m.p \in Awaiting!Made /\ ~Owned(m.p)'
    BY <1>2, <1>3, <2>1 DEF PromisesInv, FollowersMaySettle
  <2> QED BY <1>1, <1>2, <2>1 DEF PromisesInv, FollowersMaySettle
<1>8. OwnersMaySettle' /\ AdoptsFate' /\ Awaiting!FollowersAgree'
  BY <1>1, <1>2, <1>3, <1>4 DEF PromisesInv, OwnersMaySettle, AdoptsFate, Awaiting!FollowersAgree
<1> QED BY <1>5, <1>6, <1>7, <1>8 DEF PromisesInv

LEMMA ThenKeeps ==
    ASSUME PromisesInv, NEW p \in Awaiting!Made, NEW ok \in Handlers, NEW fail \in Handlers,
           Awaiting!Then(p, ok, fail)
    PROVE  PromisesInv'
<1> DEFINE n == PromiseNames[made + 1]
<1>1. /\ state' = state /\ value' = value /\ spent' = spent
      /\ wrappers' = wrappers /\ running' = running /\ fate' = fate
      /\ reacted' = reacted /\ own' = own
      /\ Awaiting!Attach(p, ok, fail, Awaiting!Direct(n))
  BY DEF Awaiting!Then
<1>2. /\ made' \in 0..Awaiting!MaxPromises /\ n \in Awaiting!P \ Awaiting!Made /\ Awaiting!Made' = Awaiting!Made \cup {n}
  <2>1. made \in 0..Awaiting!MaxPromises /\ made < Awaiting!MaxPromises /\ made' = made + 1
    BY DEF Awaiting!Then, PromisesInv, PromisesTyped
  <2> QED BY <2>1, MakesNew
<1> HIDE DEF n
<1>3. /\ p \in Awaiting!P /\ Awaiting!Direct(n) \in Targets /\ Awaiting!Direct(n).p = n /\ Awaiting!Direct(n).w = 0 /\ wrappers \in Nat
      /\ ok \in Awaiting!Handler /\ fail \in Awaiting!Handler /\ ok # "adopt" /\ fail # "adopt"
  BY <1>2, NamesAreApart, NamesAssumption DEF PromisesInv, PromisesTyped, Awaiting!Direct, Targets, Awaiting!Handler
<1>4. \A e \in Entries(chain) : e[2].to.p # n
  BY <1>2 DEF PromisesInv, ReactionsMaySettle
<1>5. /\ chain' \in [Awaiting!P -> Seq(Reaction)] /\ ReactsOnce(chain')
      /\ \A e \in Entries(chain') :
            e \in Entries(chain) \/ (e[1] = p /\ e[2].ok = ok /\ e[2].fail = fail /\ e[2].to = Awaiting!Direct(n))
      /\ attached' \in [Awaiting!P -> Nat]
      /\ micro' \in Seq(MicroTasks) /\ FollowsOnce(micro')
      /\ \A m \in Tasks(micro') : m \in Tasks(micro) \/ (m.kind = "notify" /\ state[m.p] # 0)
  BY <1>1, <1>3, <1>4, AttachAdds
<1>6. \A q : Owned(q)' <=> Owned(q)
  BY <1>1 DEF Owned
<1>7. /\ state[n] = 0 /\ fate[n] = "none" /\ ~Owned(n) /\ Awaiting!Direct(n) \notin spent
      /\ \A m \in Tasks(micro) \cup {running} : ~Follows(m, n)
  BY <1>2, <1>3 DEF PromisesInv, PromisesTyped, OwnersMaySettle, FollowersMaySettle, Follows, Owned
<1>8. PromisesTyped'
  BY <1>1, <1>2, <1>5 DEF PromisesInv, PromisesTyped
<1>9. ReactionsMaySettle'
  <2>1. ASSUME NEW e \in Entries(chain'), NEW m \in Tasks(micro') \cup {running}
        PROVE  LET t == e[2].to
               IN  /\ t.p \in Awaiting!Made' /\ t.w <= wrappers /\ t \notin spent /\ state[t.p] = 0 /\ ~Owned(t.p)
                   /\ ~Follows(m, t.p)
    <3>1. CASE e \in Entries(chain)
      BY <1>2, <1>5, <3>1 DEF PromisesInv, ReactionsMaySettle, Follows
    <3>2. CASE e[2].to = Awaiting!Direct(n)
      BY <1>2, <1>3, <1>5, <1>7, <3>2 DEF Follows
    <3> QED BY <1>5, <3>1, <3>2
  <2> QED BY <1>1, <1>5, <1>6, <2>1 DEF ReactionsMaySettle
<1>10. FollowersMaySettle'
  <2>1. ASSUME NEW m \in Tasks(micro') \cup {running}, m.kind = "follow"
        PROVE  m.p \in Awaiting!Made' /\ state[m.p] = 0 /\ ~Owned(m.p) /\ fate[m.p] = m.x
    BY <1>2, <1>5, <2>1 DEF PromisesInv, FollowersMaySettle
  <2>2. running.kind = "follow" => \A m \in Tasks(micro') : ~Follows(m, running.p)
    BY <1>5 DEF PromisesInv, FollowersMaySettle, Follows
  <2> QED BY <1>1, <1>5, <1>6, <2>1, <2>2 DEF FollowersMaySettle
<1>11. OwnersMaySettle'
  BY <1>1, <1>2, <1>6 DEF PromisesInv, OwnersMaySettle
<1>12. AdoptsFate'
  <2>1. ASSUME NEW e \in Entries(chain')
        PROVE  /\ e[2].ok = "adopt" <=> e[2].fail = "adopt"
               /\ fate[e[2].to.p] = IF e[2].ok = "adopt" THEN e[1] ELSE "none"
    BY <1>3, <1>5, <1>7 DEF PromisesInv, AdoptsFate
  <2> QED BY <1>1, <1>5, <2>1 DEF PromisesInv, AdoptsFate
<1>13. Awaiting!FollowersAgree'
  BY <1>1 DEF PromisesInv, Awaiting!FollowersAgree
<1> QED BY <1>8, <1>9, <1>10, <1>11, <1>12, <1>13 DEF PromisesInv

\* A microtask is taken, and one that notified ends.
LEMMA PopKeeps ==
    ASSUME PromisesInv, Awaiting!Pop
    PROVE  PromisesInv'
<1>1. /\ state' = state /\ value' = value /\ spent' = spent /\ chain' = chain
      /\ wrappers' = wrappers /\ fate' = fate /\ made' = made
      /\ attached' = attached /\ reacted' = reacted /\ own' = own /\ Awaiting!Made' = Awaiting!Made
      /\ micro # <<>> /\ micro' = Tail(micro) /\ running' = Head(micro) /\ running = Awaiting!Idle
      /\ micro \in Seq(MicroTasks) /\ FollowsOnce(micro)
  BY DEF Awaiting!Pop, Awaiting!settling, Awaiting!Made, PromisesInv, PromisesTyped, FollowersMaySettle
<1>2. /\ micro' \in Seq(MicroTasks) /\ running' \in MicroTasks
      /\ Tasks(micro) = Tasks(micro') \cup {running'}
      /\ FollowsOnce(micro')
      /\ running'.kind = "follow" => \A u \in Tasks(micro') : u.kind = "follow" => u.p # running'.p
  BY <1>1, TaskTaken
<1>3. running'.kind # "both" /\ \A q : Owned(q)' <=> Owned(q)
  BY <1>1, <1>2 DEF Owned, MicroTasks
<1>4. PromisesTyped'
  BY <1>1, <1>2 DEF PromisesInv, PromisesTyped
<1>5. ReactionsMaySettle' /\ FollowersMaySettle'
  BY <1>1, <1>2, <1>3 DEF PromisesInv, ReactionsMaySettle, FollowersMaySettle, Follows
<1>6. OwnersMaySettle' /\ AdoptsFate' /\ Awaiting!FollowersAgree'
  BY <1>1, <1>2, <1>3 DEF PromisesInv, OwnersMaySettle, AdoptsFate, Awaiting!FollowersAgree
<1> QED BY <1>4, <1>5, <1>6 DEF PromisesInv

LEMMA EndingKeeps ==
    ASSUME PromisesInv, running' = Awaiting!Idle,
           UNCHANGED <<made, own, state, value, spent, chain, wrappers, micro, fate, attached, reacted>>
    PROVE  PromisesInv'
<1>1. Awaiting!Idle.kind \notin {"follow", "notify", "both"} /\ Awaiting!Made' = Awaiting!Made /\ \A q : Owned(q)' <=> Owned(q)
  BY DEF Awaiting!Idle, Awaiting!Task, Awaiting!Made, Owned
<1>2. PromisesTyped'
  BY <1>1 DEF PromisesInv, PromisesTyped
<1>3. ReactionsMaySettle' /\ FollowersMaySettle'
  BY <1>1 DEF PromisesInv, ReactionsMaySettle, FollowersMaySettle, Follows
<1>4. OwnersMaySettle' /\ AdoptsFate' /\ Awaiting!FollowersAgree'
  BY <1>1 DEF PromisesInv, OwnersMaySettle, AdoptsFate, Awaiting!FollowersAgree
<1> QED BY <1>2, <1>3, <1>4 DEF PromisesInv

\* The thenable's second call is of a wrapper that is spent.
LEMMA SecondKeeps ==
    ASSUME PromisesInv, Awaiting!SecondCall
    PROVE  PromisesInv'
<1>1. [p |-> running.p, w |-> running.x] \in spent
  BY DEF Awaiting!SecondCall, PromisesInv, OwnersMaySettle
<1> QED BY <1>1, EndingKeeps DEF Awaiting!SecondCall, Awaiting!Reject, Awaiting!Spent, Awaiting!settling

LEMMA FollowKeeps ==
    ASSUME PromisesInv, Awaiting!Follow
    PROVE  PromisesInv'
<1> DEFINE p == running.p
           t == [p |-> p, w |-> wrappers + 1]
<1>1. /\ running.kind = "follow" /\ running \in MicroTasks /\ p \in Awaiting!P /\ running.x \in Awaiting!P \cup {"both"}
      /\ wrappers' = wrappers + 1 /\ wrappers \in Nat
      /\ made' = made /\ own' = own /\ reacted' = reacted /\ Awaiting!Made' = Awaiting!Made
  BY DEF Awaiting!Follow, PromisesInv, PromisesTyped, MicroTasks, Awaiting!Idle, Awaiting!Task, Awaiting!Made
<1>2. /\ t \in Targets /\ t.p = p /\ t.w = wrappers + 1
  BY <1>1 DEF Targets
<1>3. /\ p \in Awaiting!Made /\ state[p] = 0 /\ ~Owned(p) /\ fate[p] = running.x
      /\ \A m \in Tasks(micro) : ~Follows(m, p)
      /\ FollowsOnce(micro)
  BY <1>1 DEF PromisesInv, FollowersMaySettle
<1>4. t \notin spent
  BY <1>1, <1>2 DEF PromisesInv, OwnersMaySettle, PromisesTyped, Targets
<1>5. \A e \in Entries(chain) : e[2].to.p # p
  BY <1>1 DEF PromisesInv, ReactionsMaySettle, Follows
<1>6. /\ chain \in [Awaiting!P -> Seq(Reaction)] /\ ReactsOnce(chain)
      /\ attached \in [Awaiting!P -> Nat] /\ reacted \in [Awaiting!P -> Seq(Nat)]
  BY DEF PromisesInv, PromisesTyped, ReactionsMaySettle
<1>7. CASE running.x = "both"
  <2>1. /\ running' = Awaiting!Task("both", t.p, t.w) /\ Awaiting!Resolve(t, "first") /\ chain' = chain /\ attached' = attached
    BY <1>2, <1>7 DEF Awaiting!Follow
  <2>2. "first" \notin Awaiting!P \cup {"both"} /\ "first" # t.p /\ "first" \in Outcomes
    BY <1>1, <1>2, NamesAreApart DEF Outcomes
  <2>3. spent' = spent \cup {t} /\ Awaiting!Settle(t.p, 1, "first")
    BY <1>4, <2>1, <2>2 DEF Awaiting!Resolve, Awaiting!Spent
  <2>4. /\ state' = [state EXCEPT ![t.p] = 1] /\ value' = [value EXCEPT ![t.p] = "first"]
        /\ fate' = fate
        /\ micro' \in {micro, Append(micro, Awaiting!Task("notify", t.p, 1 = 2))}
    BY <2>3 DEF Awaiting!Settle, Awaiting!Notify
  <2>5. fate[t.p] \notin Awaiting!P /\ (t.p \in own => Awaiting!Direct(t.p) \in spent')
    BY <1>2, <1>3, <1>7, <2>3, NamesAreApart DEF Owned
  <2>6. \A m \in Tasks(micro) \cup {running'} : ~Follows(m, t.p)
    BY <1>2, <1>3, <2>1 DEF Follows, Awaiting!Task
  <2>7. t.p \in Awaiting!Made /\ t.w <= wrappers' /\ state[t.p] = 0 /\ \A e \in Entries(chain') : e[2].to.p # t.p
    BY <1>1, <1>2, <1>3, <1>5, <2>1
  <2>8. (1 = 2) \in BOOLEAN /\ 1 \in {1, 2}
    OBVIOUS
  <2> HIDE DEF t, p
  <2> QED BY <1>1, <1>2, <1>4, <1>6, <2>1, <2>2, <2>3, <2>4, <2>5, <2>6, <2>7, <2>8, SettlingKeeps
<1>8. CASE running.x # "both"
  <2>1. /\ running' = Awaiting!Idle /\ Awaiting!Attach(running.x, "adopt", "adopt", t)
        /\ state' = state /\ value' = value /\ spent' = spent /\ fate' = fate
    BY <1>8 DEF Awaiting!Follow
  <2>2. /\ chain' \in [Awaiting!P -> Seq(Reaction)] /\ ReactsOnce(chain')
        /\ \A e \in Entries(chain') :
              e \in Entries(chain)
                \/ (e[1] = running.x /\ e[2].ok = "adopt" /\ e[2].fail = "adopt" /\ e[2].to = t)
        /\ attached' \in [Awaiting!P -> Nat]
        /\ micro' \in Seq(MicroTasks) /\ FollowsOnce(micro')
        /\ \A m \in Tasks(micro') : m \in Tasks(micro) \/ (m.kind = "notify" /\ state[m.p] # 0)
    <3>1. running.x \in Awaiting!P /\ "adopt" \in Awaiting!Handler \cup {"adopt"} /\ \A e \in Entries(chain) : e[2].to.p # t.p
      BY <1>1, <1>2, <1>5, <1>8
    <3> DEFINE q == running.x
               adopt == "adopt"
    <3>2. q \in Awaiting!P /\ adopt \in Awaiting!Handler \cup {"adopt"} /\ Awaiting!Attach(q, adopt, adopt, t)
      BY <2>1, <3>1
    <3> HIDE DEF t, q, adopt
    <3>3. /\ chain' \in [Awaiting!P -> Seq(Reaction)] /\ ReactsOnce(chain')
          /\ \A e \in Entries(chain') :
                e \in Entries(chain) \/ (e[1] = q /\ e[2].ok = adopt /\ e[2].fail = adopt /\ e[2].to = t)
          /\ attached' \in [Awaiting!P -> Nat]
          /\ micro' \in Seq(MicroTasks) /\ FollowsOnce(micro')
          /\ \A m \in Tasks(micro') : m \in Tasks(micro) \/ (m.kind = "notify" /\ state[m.p] # 0)
      BY <1>2, <3>1, <3>2, AttachAdds
    <3> QED BY <3>3 DEF q, adopt
  <2>3. Awaiting!Idle.kind \notin {"follow", "notify", "both"} /\ \A q : Owned(q)' <=> Owned(q)
    BY <1>1, <2>1 DEF Awaiting!Idle, Awaiting!Task, Owned
  <2> HIDE DEF t, p
  <2>4. PromisesTyped'
    BY <1>1, <2>1, <2>2 DEF PromisesInv, PromisesTyped
  <2>5. ReactionsMaySettle'
    <3>1. ASSUME NEW e \in Entries(chain'), NEW m \in Tasks(micro') \cup {Awaiting!Idle}
          PROVE  LET u == e[2].to
                 IN  /\ u.p \in Awaiting!Made /\ u.w <= wrappers + 1 /\ u \notin spent /\ state[u.p] = 0 /\ ~Owned(u.p)
                     /\ ~Follows(m, u.p)
      <4>1. CASE e \in Entries(chain)
        <5>1. e[2].to.w \in Nat
          BY <1>6, <4>1, EntriesOf DEF Reaction, Targets
        <5> QED BY <1>1, <2>2, <2>3, <4>1, <5>1 DEF PromisesInv, ReactionsMaySettle, Follows
      <4>2. CASE e[2].to = t
        BY <1>1, <1>2, <1>3, <1>4, <2>2, <2>3, <4>2 DEF Follows
      <4> QED BY <2>2, <4>1, <4>2
    <3> QED BY <1>1, <2>1, <2>2, <2>3, <3>1 DEF ReactionsMaySettle
  <2>6. FollowersMaySettle'
    <3>1. ASSUME NEW m \in Tasks(micro') \cup {Awaiting!Idle}, m.kind = "follow"
          PROVE  m.p \in Awaiting!Made /\ state[m.p] = 0 /\ ~Owned(m.p) /\ fate[m.p] = m.x
      BY <2>2, <2>3, <3>1 DEF PromisesInv, FollowersMaySettle
    <3> QED BY <1>1, <2>1, <2>2, <2>3, <3>1 DEF FollowersMaySettle
  <2>7. OwnersMaySettle'
    <3>1. \A u \in spent : u.w \in Nat /\ u.w <= wrappers
      BY DEF PromisesInv, PromisesTyped, OwnersMaySettle, Targets
    <3>2. \A u \in spent : u.w <= wrappers'
      BY <1>1, <3>1
    <3> QED BY <1>1, <2>1, <2>3, <3>2 DEF PromisesInv, OwnersMaySettle
  <2>8. AdoptsFate'
    <3>1. ASSUME NEW e \in Entries(chain')
          PROVE  /\ e[2].ok = "adopt" <=> e[2].fail = "adopt"
                 /\ fate[e[2].to.p] = IF e[2].ok = "adopt" THEN e[1] ELSE "none"
      BY <1>2, <1>3, <2>2 DEF PromisesInv, AdoptsFate
    <3> QED BY <2>1, <2>2, <2>3, <3>1 DEF PromisesInv, AdoptsFate
  <2>9. Awaiting!FollowersAgree'
    BY <2>1 DEF PromisesInv, Awaiting!FollowersAgree
  <2> QED BY <2>4, <2>5, <2>6, <2>7, <2>8, <2>9 DEF PromisesInv
<1> QED BY <1>7, <1>8

\* A reaction: its handler returns a promise, which the target then follows, or
\* settles the target.
LEMMA ReactKeeps ==
    ASSUME PromisesInv, Awaiting!React
    PROVE  PromisesInv'
<1> DEFINE p == running.p
           r == Head(chain[p])
           h == IF state[p] = 1 THEN r.ok ELSE r.fail
           t == r.to
           rest == [chain EXCEPT ![p] = Tail(@)]
<1>1. /\ running.kind = "notify" /\ running \in MicroTasks /\ p \in Awaiting!P /\ chain[p] # <<>>
      /\ made' = made /\ own' = own /\ wrappers' = wrappers /\ running' = running /\ Awaiting!Made' = Awaiting!Made
      /\ wrappers \in Nat /\ chain \in [Awaiting!P -> Seq(Reaction)] /\ ReactsOnce(chain)
      /\ attached \in [Awaiting!P -> Nat] /\ reacted \in [Awaiting!P -> Seq(Nat)] /\ state \in [Awaiting!P -> 0..2]
      /\ value \in [Awaiting!P -> Outcomes]
      /\ micro \in Seq(MicroTasks) /\ FollowsOnce(micro)
  <2>1. running.kind = "notify" /\ chain[p] # <<>> /\ UNCHANGED <<made, own, running, wrappers>>
    BY DEF Awaiting!React
  <2>2. running \in MicroTasks /\ p \in Awaiting!P
    BY <2>1 DEF PromisesInv, PromisesTyped, MicroTasks, Awaiting!Idle, Awaiting!Task
  <2>3. /\ wrappers \in Nat /\ chain \in [Awaiting!P -> Seq(Reaction)] /\ ReactsOnce(chain)
        /\ attached \in [Awaiting!P -> Nat] /\ reacted \in [Awaiting!P -> Seq(Nat)] /\ state \in [Awaiting!P -> 0..2]
        /\ value \in [Awaiting!P -> Outcomes]
        /\ micro \in Seq(MicroTasks) /\ FollowsOnce(micro)
    BY DEF PromisesInv, PromisesTyped, ReactionsMaySettle, FollowersMaySettle
  <2>4. Awaiting!Made' = Awaiting!Made
    BY <2>1 DEF Awaiting!Made
  <2> QED BY <2>1, <2>2, <2>3, <2>4
<1>2. /\ rest \in [Awaiting!P -> Seq(Reaction)] /\ r \in Reaction /\ <<p, r>> \in Entries(chain)
      /\ Entries(rest) \subseteq Entries(chain)
      /\ ReactsOnce(rest) /\ \A e \in Entries(rest) : e[2].to.p # r.to.p
  <2>1. TakesReaction(chain, p, rest)
    BY <1>1 DEF TakesReaction
  <2> HIDE DEF rest
  <2> QED BY <1>1, <2>1, ReactionTaken
<1>3. /\ t \in Targets /\ t.p \in Awaiting!P /\ t.w \in Nat
      /\ r.ok \in Awaiting!Handler \cup {"adopt"} /\ r.fail \in Awaiting!Handler \cup {"adopt"} /\ r.nr \in Nat
  BY <1>2 DEF Reaction, Targets
<1>4. /\ t.p \in Awaiting!Made /\ t.w <= wrappers /\ t \notin spent /\ state[t.p] = 0 /\ ~Owned(t.p)
      /\ \A m \in Tasks(micro) \cup {running} : ~Follows(m, t.p)
  BY <1>2 DEF PromisesInv, ReactionsMaySettle
<1>5. /\ r.ok = "adopt" <=> r.fail = "adopt"
      /\ fate[t.p] = IF r.ok = "adopt" THEN p ELSE "none"
      /\ state[p] \in {1, 2}
  BY <1>1, <1>2 DEF PromisesInv, AdoptsFate
<1>6. reacted' = [reacted EXCEPT ![p] = Append(@, r.nr)] /\ reacted' \in [Awaiting!P -> Seq(Nat)]
  <2>1. reacted' = [reacted EXCEPT ![p] = Append(@, r.nr)]
    BY DEF Awaiting!React
  <2>2. Append(reacted[p], r.nr) \in Seq(Nat)
    BY <1>1, <1>3
  <2> QED BY <1>1, <2>1, <2>2
<1>7. h \in Awaiting!Handler \cup {"adopt"}
  BY <1>3
<1>8. CASE h \in Awaiting!P /\ h # t.p
  <2> DEFINE a == [ok |-> "adopt", fail |-> "adopt", to |-> t, nr |-> attached[h] + 1]
  <2>1. /\ chain' = [rest EXCEPT ![h] = Append(@, a)]
        /\ attached' = [attached EXCEPT ![h] = @ + 1]
        /\ fate' = [fate EXCEPT ![t.p] = h]
        /\ IF state[h] = 0 THEN micro' = micro ELSE micro' \in {micro, Append(micro, Awaiting!Task("notify", h, FALSE))}
        /\ state' = state /\ value' = value /\ spent' = spent
    BY <1>8 DEF Awaiting!React, Awaiting!Notify
  <2>2. a \in Reaction /\ a.ok = "adopt" /\ a.fail = "adopt" /\ a.to = t
    <3> HIDE DEF h, t, p, r
    <3>1. attached[h] + 1 \in Nat
      BY <1>1, <1>8
    <3> HIDE DEF a
    <3>2. a = [ok |-> "adopt", fail |-> "adopt", to |-> t, nr |-> attached[h] + 1]
      BY DEF a
    <3> QED BY <1>3, <3>1, <3>2 DEF Reaction
  <2>3. r.ok # "adopt" /\ fate[t.p] = "none" /\ h \in Awaiting!P
    <3>1. h # "adopt"
      BY <1>8, NamesAreApart
    <3>2. h = r.ok \/ h = r.fail
      OBVIOUS
    <3> HIDE DEF h, t, p, r
    <3> QED BY <1>5, <1>8, <3>1, <3>2
  <2>4. attached' \in [Awaiting!P -> Nat]
    <3> HIDE DEF h, r, t, rest, a
    <3>1. attached \in [Awaiting!P -> Nat] /\ attached' = [attached EXCEPT ![h] = @ + 1]
      BY <1>1, <2>1
    <3>2. attached[h] + 1 \in Nat
      BY <2>3, <3>1
    <3> HIDE DEF p
    <3> QED BY <2>3, <3>1, <3>2
  <2>5. AddsReaction(rest, h, a, chain')
    BY <2>1 DEF AddsReaction
  <2> HIDE DEF a, rest
  <2>6. /\ chain' \in [Awaiting!P -> Seq(Reaction)] /\ ReactsOnce(chain')
        /\ Entries(chain') = Entries(rest) \cup {<<h, a>>}
    <3>1. \A e \in Entries(rest) : e[2].to.p # a.to.p
      BY <1>2, <2>2
    <3> HIDE DEF h
    <3> QED BY <1>2, <2>2, <2>3, <2>5, <3>1, ReactionAdded
  <2> HIDE DEF p, r, h, t
  <2>7. \A e \in Entries(chain') :
           (e \in Entries(chain) /\ e[2].to.p # t.p)
             \/ (e[1] = h /\ e[2].ok = "adopt" /\ e[2].fail = "adopt" /\ e[2].to = t)
    BY <1>2, <2>2, <2>6 DEF t
  <2>8. /\ micro' \in Seq(MicroTasks) /\ FollowsOnce(micro')
        /\ \A m \in Tasks(micro') : m \in Tasks(micro) \/ (m.kind = "notify" /\ state[m.p] # 0)
    <3>1. CASE state[h] = 0
      BY <1>1, <2>1, <3>1
    <3>2. CASE state[h] # 0
      <4>1. /\ micro' \in Seq(MicroTasks) /\ FollowsOnce(micro')
            /\ \A m \in Tasks(micro') : m \in Tasks(micro) \/ (m.kind = "notify" /\ m.p = h)
        BY <2>1, <2>3, <3>2, NotedKeeps
      <4> QED BY <3>2, <4>1
    <3> QED BY <3>1, <3>2
  <2>9. /\ fate' \in [Awaiting!P -> Awaiting!P \cup {"none", "both"}] /\ fate'[t.p] = h
        /\ \A q \in Awaiting!P : q # t.p => fate'[q] = fate[q]
    BY <1>3, <2>1, <2>3 DEF PromisesInv, PromisesTyped
  <2>10. \A q : Owned(q)' <=> Owned(q)
    BY <1>1, <2>1 DEF Owned
  <2>11. PromisesTyped'
    BY <1>1, <1>6, <2>1, <2>4, <2>6, <2>8, <2>9 DEF PromisesInv, PromisesTyped
  <2>12. ReactionsMaySettle'
    <3>1. ASSUME NEW e \in Entries(chain'), NEW m \in Tasks(micro') \cup {running}
          PROVE  LET u == e[2].to
                 IN  /\ u.p \in Awaiting!Made /\ u.w <= wrappers /\ u \notin spent /\ state[u.p] = 0 /\ ~Owned(u.p)
                     /\ ~Follows(m, u.p)
      <4>1. CASE e \in Entries(chain)
        BY <2>8, <4>1 DEF PromisesInv, ReactionsMaySettle, Follows
      <4>2. CASE e[2].to = t
        BY <1>4, <2>8, <4>2 DEF Follows
      <4> QED BY <2>7, <4>1, <4>2
    <3> QED BY <1>1, <2>1, <2>6, <2>10, <3>1 DEF ReactionsMaySettle
  <2>13. FollowersMaySettle'
    <3>1. ASSUME NEW m \in Tasks(micro') \cup {running}, m.kind = "follow"
          PROVE  m.p \in Awaiting!Made /\ state[m.p] = 0 /\ ~Owned(m.p) /\ fate'[m.p] = m.x
      <4>1. m \in Tasks(micro) \cup {running} /\ m.p # t.p
        BY <1>4, <2>8, <3>1 DEF Follows
      <4>2. m.p \in Awaiting!Made /\ state[m.p] = 0 /\ ~Owned(m.p) /\ fate[m.p] = m.x /\ Awaiting!Made \subseteq Awaiting!P
        BY <3>1, <4>1, NamesAreApart DEF PromisesInv, PromisesTyped, FollowersMaySettle
      <4> QED BY <2>9, <4>1, <4>2
    <3> QED BY <1>1, <2>1, <2>8, <2>10, <3>1 DEF FollowersMaySettle
  <2>14. OwnersMaySettle'
    <3>1. \A q \in Awaiting!P \ Awaiting!Made : q # t.p
      BY <1>4
    <3>2. \A q \in Awaiting!P : Owned(q) => q # t.p
      BY <1>4
    <3> QED BY <1>1, <2>1, <2>9, <2>10, <3>1, <3>2 DEF PromisesInv, OwnersMaySettle
  <2>15. AdoptsFate'
    <3>1. ASSUME NEW e \in Entries(chain')
          PROVE  /\ e[2].ok = "adopt" <=> e[2].fail = "adopt"
                 /\ fate'[e[2].to.p] = IF e[2].ok = "adopt" THEN e[1] ELSE "none"
      <4>1. CASE e \in Entries(chain) /\ e[2].to.p # t.p
        <5>1. e[2].to.p \in Awaiting!P
          BY <1>1, <4>1, EntriesOf DEF Reaction, Targets
        <5> QED BY <2>9, <4>1, <5>1 DEF PromisesInv, AdoptsFate
      <4>2. CASE e[1] = h /\ e[2].ok = "adopt" /\ e[2].fail = "adopt" /\ e[2].to = t
        BY <2>9, <4>2
      <4> QED BY <2>7, <4>1, <4>2
    <3> QED BY <1>1, <2>1, <2>8, <3>1 DEF PromisesInv, AdoptsFate
  <2>16. Awaiting!FollowersAgree'
    BY <1>4, <2>1, <2>9 DEF PromisesInv, Awaiting!FollowersAgree
  <2> QED BY <2>11, <2>12, <2>13, <2>14, <2>15, <2>16 DEF PromisesInv
<1>9. CASE ~(h \in Awaiting!P /\ h # t.p)
  <2> DEFINE g == IF h \in Awaiting!P THEN "self" ELSE h
             rejected == state[p] = 2
  <2>1. chain' = rest /\ attached' = attached /\ Awaiting!Pass(g, value[p], rejected, t)
    BY <1>9 DEF Awaiting!React
  <2>2. g \in {"none", "value", "throw", "self", "adopt"} /\ rejected \in BOOLEAN /\ value[p] \in Outcomes
    BY <1>1, <1>7 DEF Awaiting!Handler
  <2>3. fate[t.p] \in Awaiting!P => g = "adopt" /\ fate[t.p] = p
    BY <1>5, NamesAreApart
  <2> HIDE DEF g, rejected
  <2>4. PICK s \in {1, 2}, y \in Outcomes, n \in BOOLEAN :
           /\ state' = [state EXCEPT ![t.p] = s] /\ value' = [value EXCEPT ![t.p] = y]
           /\ spent' = spent \cup {t} /\ fate' = fate
           /\ micro' \in {micro, Append(micro, Awaiting!Task("notify", t.p, n))}
           /\ g = "adopt" => y = value[p] /\ (s = 2 <=> rejected)
    <3> HIDE DEF p, t
    <3> QED BY <1>3, <1>4, <2>1, <2>2, PassSettles
  <2>5. fate[t.p] \in Awaiting!P => state[fate[t.p]] = s /\ value[fate[t.p]] = y
    BY <1>5, <2>3, <2>4 DEF rejected
  <2>6. t.p \in own => Awaiting!Direct(t.p) \in spent'
    BY <1>4, <2>4 DEF Owned
  <2>7. \A e \in Entries(rest) : e[2].to.p # t.p
    BY <1>2
  <2>8. t.w <= wrappers' /\ \A m \in Tasks(micro) \cup {running'} : ~Follows(m, t.p)
    BY <1>1, <1>4
  <2> HIDE DEF p, r, h, t, rest
  <2> QED BY <1>1, <1>2, <1>3, <1>4, <1>6, <2>1, <2>4, <2>5, <2>6, <2>7, <2>8, SettlingKeeps
<1> QED BY <1>8, <1>9

LEMMA PromisesStep ==
    ASSUME PromisesInv, [Awaiting!Next]_Awaiting!vars
    PROVE  PromisesInv'
<1>1. CASE UNCHANGED Awaiting!vars
  BY <1>1, SameKeeps DEF Awaiting!vars, Awaiting!settling, Relevant
<1>2. CASE Awaiting!New \/ Awaiting!Pop \/ Awaiting!Follow \/ Awaiting!SecondCall \/ Awaiting!React
  BY <1>2, NewKeeps, PopKeeps, FollowKeeps, SecondKeeps, ReactKeeps
<1>3. CASE Awaiting!NotifyEnd
  BY <1>3, EndingKeeps DEF Awaiting!NotifyEnd
<1>4. ASSUME NEW p \in Awaiting!Made, Awaiting!CallReject(p) \/ Awaiting!Alarm(p) \/ (\E x \in {"first", "both"} \cup Awaiting!Made : Awaiting!CallResolve(p, x))
                                \/ (\E ok, fail \in Handlers : Awaiting!Then(p, ok, fail))
      PROVE  PromisesInv'
  <2>1. CASE Awaiting!Alarm(p)
    BY <2>1, SameKeeps DEF Awaiting!Alarm, Awaiting!settling, Relevant
  <2> QED BY <1>4, <2>1, CallKeeps, ThenKeeps
<1> QED BY <1>1, <1>2, <1>3, <1>4 DEF Awaiting!Next, Awaiting!Microtask

LEMMA PromisesInvariant == Awaiting!Spec => []PromisesInv
BY PromisesInit, PromisesStep, PTL DEF Awaiting!Spec

(* A promise resolved with another one becomes what that one became, for any  *)
(* number of promises, handlers and calls: it is settled only by the reaction *)
(* of the promise it follows.                                                 *)
LEMMA FollowersOfPromises == Awaiting!Spec => []Awaiting!FollowersAgree
<1>1. PromisesInv => Awaiting!FollowersAgree
  BY DEF PromisesInv
<1> QED BY <1>1, PromisesInvariant, PTL

-----------------------------------------------------------------------------
(* Settled once: what settles a promise finds it pending.                     *)

LEMMA StaysSettled ==
    ASSUME PromisesInv, [Awaiting!Next]_Awaiting!vars, NEW p \in Awaiting!P, state[p] # 0
    PROVE  state'[p] = state[p] /\ value'[p] = value[p]
<1>1. state \in [Awaiting!P -> 0..2] /\ value \in [Awaiting!P -> Outcomes]
  BY DEF PromisesInv, PromisesTyped
<1>2. ASSUME NEW t, t.p \in Awaiting!P, state[t.p] = 0 \/ t \in spent,
             \/ \E x : Awaiting!Resolve(t, x) \/ Awaiting!Reject(t, x)
             \/ \E h, x, rejected : Awaiting!Pass(h, x, rejected, t)
      PROVE  state'[p] = state[p] /\ value'[p] = value[p]
  <2>1. \E x : Awaiting!Resolve(t, x) \/ Awaiting!Reject(t, x)
    BY <1>2 DEF Awaiting!Pass
  <2>2. PICK x : Awaiting!Resolve(t, x) \/ Awaiting!Reject(t, x)
    BY <2>1
  <2>3. \/ state' = state /\ value' = value
        \/ /\ t \notin spent
           /\ \E s, y : state' = [state EXCEPT ![t.p] = s] /\ value' = [value EXCEPT ![t.p] = y]
    BY <2>2 DEF Awaiting!Resolve, Awaiting!Reject, Awaiting!Spent, Awaiting!Settle, Awaiting!settling
  <2> QED BY <1>1, <1>2, <2>3
<1>3. ASSUME NEW q \in Awaiting!Made, Awaiting!CallReject(q) \/ \E x \in {"first", "both"} \cup Awaiting!Made : Awaiting!CallResolve(q, x)
      PROVE  state'[p] = state[p] /\ value'[p] = value[p]
  <2>1. q \in own /\ q \in Awaiting!P /\ Awaiting!Direct(q).p = q
    BY <1>3, NamesAreApart DEF Awaiting!CallReject, Awaiting!CallResolve, PromisesInv, PromisesTyped, Awaiting!Direct
  <2>2. state[q] = 0 \/ Awaiting!Direct(q) \in spent
    BY <2>1 DEF PromisesInv, OwnersMaySettle, Owned
  <2> QED BY <1>2, <1>3, <2>1, <2>2 DEF Awaiting!CallReject, Awaiting!CallResolve
<1>4. CASE Awaiting!Follow
  <2>1. running \in MicroTasks /\ running.p \in Awaiting!P /\ state[running.p] = 0
    BY <1>4 DEF Awaiting!Follow, PromisesInv, PromisesTyped, FollowersMaySettle, MicroTasks, Awaiting!Idle, Awaiting!Task
  <2>2. CASE running.x = "both"
    BY <1>2, <1>4, <2>1, <2>2 DEF Awaiting!Follow
  <2>3. CASE running.x # "both"
    BY <1>4, <2>3 DEF Awaiting!Follow
  <2> QED BY <2>2, <2>3
<1>5. CASE Awaiting!SecondCall
  <2>1. [p |-> running.p, w |-> running.x] \in spent
    BY <1>5 DEF Awaiting!SecondCall, PromisesInv, OwnersMaySettle
  <2> QED BY <1>5, <2>1 DEF Awaiting!SecondCall, Awaiting!Reject, Awaiting!Spent, Awaiting!settling
<1>6. CASE Awaiting!React
  <2> DEFINE q == running.p
             r == Head(chain[q])
             h == IF state[q] = 1 THEN r.ok ELSE r.fail
  <2>1. q \in Awaiting!P /\ chain[q] # <<>> /\ chain \in [Awaiting!P -> Seq(Reaction)]
    <3>1. running.kind = "notify" /\ chain[q] # <<>>
      BY <1>6 DEF Awaiting!React
    <3>2. q \in Awaiting!P /\ chain \in [Awaiting!P -> Seq(Reaction)]
      BY <3>1 DEF PromisesInv, PromisesTyped, MicroTasks, Awaiting!Idle, Awaiting!Task
    <3> QED BY <3>1, <3>2
  <2>2. r \in Reaction /\ <<q, r>> \in Entries(chain)
    <3>1. TakesReaction(chain, q, [chain EXCEPT ![q] = Tail(@)])
      BY <2>1 DEF TakesReaction
    <3> QED BY <2>1, <3>1, ReactionTaken
  <2>3. r.to.p \in Awaiting!P /\ state[r.to.p] = 0
    BY <2>2 DEF Reaction, Targets, PromisesInv, ReactionsMaySettle
  <2>4. CASE h \in Awaiting!P /\ h # r.to.p
    BY <1>6, <2>4 DEF Awaiting!React
  <2>5. CASE ~(h \in Awaiting!P /\ h # r.to.p)
    <3>1. \E g, x, rejected : Awaiting!Pass(g, x, rejected, r.to)
      BY <1>6, <2>5 DEF Awaiting!React
    <3> HIDE DEF r
    <3> QED BY <1>2, <2>3, <3>1
  <2> QED BY <2>4, <2>5
<1>7. CASE Awaiting!New \/ Awaiting!Pop \/ Awaiting!NotifyEnd \/ UNCHANGED Awaiting!vars
  BY <1>7 DEF Awaiting!New, Awaiting!Pop, Awaiting!NotifyEnd, Awaiting!vars, Awaiting!settling
<1>8. ASSUME NEW q \in Awaiting!Made, Awaiting!Alarm(q) \/ \E ok, fail \in Handlers : Awaiting!Then(q, ok, fail)
      PROVE  state'[p] = state[p] /\ value'[p] = value[p]
  BY <1>8 DEF Awaiting!Alarm, Awaiting!Then, Awaiting!settling
<1> QED BY <1>3, <1>4, <1>5, <1>6, <1>7, <1>8 DEF Awaiting!Next, Awaiting!Microtask

(* The reactions of a promise are numbered as they were attached.              *)
NumberedIn(c, att, rea) ==
    \A p \in Awaiting!P :
        /\ att[p] = Len(rea[p]) + Len(c[p])
        /\ \A i \in 1..Len(c[p]) : c[p][i].nr = Len(rea[p]) + i
        /\ \A i \in 1..Len(rea[p]) : rea[p][i] = i
Numbered == NumberedIn(chain, attached, reacted)
IsCounted(att, q, b) == b = [att EXCEPT ![q] = @ + 1]
IsRecorded(rea, q, i, b) == b = [rea EXCEPT ![q] = Append(@, i)]

LEMMA AttachNumbers ==
    ASSUME NEW c \in [Awaiting!P -> Seq(Reaction)], NEW att \in [Awaiting!P -> Nat], NEW rea \in [Awaiting!P -> Seq(Nat)],
           NumberedIn(c, att, rea), NEW p \in Awaiting!P, NEW r \in Reaction, r.nr = att[p] + 1,
           NEW d, AddsReaction(c, p, r, d), NEW b, IsCounted(att, p, b)
    PROVE  NumberedIn(d, b, rea)
<1> DEFINE n == Len(c[p])
           k == Len(rea[p])
           l == Append(c[p], r)
<1>1. n \in Nat /\ k \in Nat /\ att[p] \in Nat
  BY LenProperties
<1>2. Len(l) = n + 1 /\ l[n + 1] = r /\ \A i \in 1..n : l[i] = c[p][i]
  BY <1>1, AppendProperties
<1>3. d = [c EXCEPT ![p] = l]
  BY DEF AddsReaction
<1> HIDE DEF l
<1>4. /\ d[p] = l /\ b[p] = att[p] + 1
      /\ \A q \in Awaiting!P : q # p => d[q] = c[q] /\ b[q] = att[q]
  BY <1>1, <1>3 DEF IsCounted
<1>5. att[p] = k + n /\ \A i \in 1..n : c[p][i].nr = k + i
  BY DEF NumberedIn
<1> HIDE DEF n, k
<1>6. b[p] = k + Len(l)
  BY <1>1, <1>2, <1>4, <1>5
<1>7. ASSUME NEW i \in 1..Len(l)
      PROVE  l[i].nr = k + i
  <2>1. CASE i = n + 1
    BY <1>1, <1>2, <1>5, <2>1
  <2>2. CASE i # n + 1
    <3>1. i \in 1..n
      BY <1>1, <1>2, <2>2
    <3> QED BY <1>2, <1>5, <3>1
  <2> QED BY <2>1, <2>2
<1>8. ASSUME NEW q \in Awaiting!P
      PROVE  /\ b[q] = Len(rea[q]) + Len(d[q])
             /\ \A i \in 1..Len(d[q]) : d[q][i].nr = Len(rea[q]) + i
             /\ \A i \in 1..Len(rea[q]) : rea[q][i] = i
  <2>1. CASE q = p
    BY <1>4, <1>6, <1>7, <2>1 DEF NumberedIn, k
  <2>2. CASE q # p
    BY <1>4, <2>2 DEF NumberedIn
  <2> QED BY <2>1, <2>2
<1> QED BY <1>8 DEF NumberedIn

LEMMA TakeNumbers ==
    ASSUME NEW c \in [Awaiting!P -> Seq(Reaction)], NEW att \in [Awaiting!P -> Nat], NEW rea \in [Awaiting!P -> Seq(Nat)],
           NumberedIn(c, att, rea), NEW p \in Awaiting!P,
           NEW d, TakesReaction(c, p, d), NEW b, IsRecorded(rea, p, Head(c[p]).nr, b)
    PROVE  NumberedIn(d, att, b)
<1> DEFINE n == Len(c[p])
           k == Len(rea[p])
           l == Tail(c[p])
           m == Append(rea[p], Head(c[p]).nr)
<1>1. n \in Nat \ {0} /\ k \in Nat /\ Head(c[p]) = c[p][1] /\ c[p][1].nr \in Nat
  <2>1. c[p] # <<>> /\ c[p] \in Seq(Reaction)
    BY DEF TakesReaction
  <2>2. n \in Nat \ {0} /\ Head(c[p]) = c[p][1]
    BY <2>1, LenProperties, EmptySeq, HeadTailProperties
  <2>3. c[p][1] \in Reaction
    BY <2>1, <2>2, ElementOfSeq
  <2>4. c[p][1].nr \in Nat
    BY <2>3 DEF Reaction
  <2>5. k \in Nat
    BY LenProperties
  <2> QED BY <2>2, <2>4, <2>5
<1>2. /\ Len(l) = n - 1 /\ \A i \in 1..n - 1 : l[i] = c[p][i + 1]
      /\ Len(m) = k + 1 /\ m[k + 1] = c[p][1].nr /\ \A i \in 1..k : m[i] = rea[p][i]
  <2>1. c[p] # <<>>
    BY DEF TakesReaction
  <2>2. Len(l) = n - 1 /\ \A i \in 1..n - 1 : l[i] = c[p][i + 1]
    BY <2>1, LenProperties, HeadTailProperties
  <2>3. Len(m) = k + 1 /\ m[k + 1] = c[p][1].nr /\ \A i \in 1..k : m[i] = rea[p][i]
    BY <1>1, AppendProperties
  <2> QED BY <2>2, <2>3
<1>3. d = [c EXCEPT ![p] = l] /\ b = [rea EXCEPT ![p] = m]
  BY DEF TakesReaction, IsRecorded
<1> HIDE DEF l, m
<1>4. /\ d[p] = l /\ b[p] = m
      /\ \A q \in Awaiting!P : q # p => d[q] = c[q] /\ b[q] = rea[q]
  BY <1>3
<1>5. /\ att[p] = k + n /\ \A i \in 1..n : c[p][i].nr = k + i
      /\ \A i \in 1..k : rea[p][i] = i
  BY DEF NumberedIn
<1> HIDE DEF n, k
<1>6. c[p][1].nr = k + 1 /\ att[p] = Len(m) + Len(l)
  BY <1>1, <1>2, <1>5
<1>7. ASSUME NEW i \in 1..Len(l)
      PROVE  l[i].nr = Len(m) + i
  <2>1. i \in 1..n - 1 /\ i + 1 \in 1..n
    BY <1>1, <1>2
  <2>2. l[i].nr = k + (i + 1)
    BY <1>2, <1>5, <2>1
  <2> QED BY <1>1, <1>2, <2>1, <2>2
<1>8. ASSUME NEW i \in 1..Len(m)
      PROVE  m[i] = i
  <2>1. CASE i = k + 1
    BY <1>2, <1>6, <2>1
  <2>2. CASE i # k + 1
    <3>1. i \in 1..k
      BY <1>1, <1>2, <2>2
    <3> QED BY <1>2, <1>5, <3>1
  <2> QED BY <2>1, <2>2
<1>9. ASSUME NEW q \in Awaiting!P
      PROVE  /\ att[q] = Len(b[q]) + Len(d[q])
             /\ \A i \in 1..Len(d[q]) : d[q][i].nr = Len(b[q]) + i
             /\ \A i \in 1..Len(b[q]) : b[q][i] = i
  <2>1. CASE q = p
    BY <1>4, <1>6, <1>7, <1>8, <2>1
  <2>2. CASE q # p
    BY <1>4, <2>2 DEF NumberedIn
  <2> QED BY <2>1, <2>2
<1> QED BY <1>9 DEF NumberedIn

LEMMA NumberedStep ==
    ASSUME PromisesInv, Numbered, [Awaiting!Next]_Awaiting!vars
    PROVE  Numbered'
<1>1. /\ chain \in [Awaiting!P -> Seq(Reaction)] /\ attached \in [Awaiting!P -> Nat] /\ reacted \in [Awaiting!P -> Seq(Nat)]
      /\ NumberedIn(chain, attached, reacted)
  BY DEF PromisesInv, PromisesTyped, Numbered
<1>2. ASSUME UNCHANGED <<chain, attached, reacted>>
      PROVE  Numbered'
  BY <1>1, <1>2 DEF Numbered
<1>3. ASSUME NEW p \in Awaiting!P, NEW ok \in Awaiting!Handler \cup {"adopt"}, NEW fail \in Awaiting!Handler \cup {"adopt"}, NEW t \in Targets,
             Awaiting!Attach(p, ok, fail, t), reacted' = reacted
      PROVE  Numbered'
  <2> DEFINE r == [ok |-> ok, fail |-> fail, to |-> t, nr |-> attached[p] + 1]
  <2>1. r \in Reaction /\ r.nr = attached[p] + 1
    BY <1>1 DEF Reaction
  <2>2. AddsReaction(chain, p, r, chain') /\ IsCounted(attached, p, attached')
    BY <1>3 DEF Awaiting!Attach, AddsReaction, IsCounted
  <2> HIDE DEF r
  <2>3. NumberedIn(chain', attached', reacted)
    BY <1>1, <2>1, <2>2, AttachNumbers
  <2> QED BY <1>3, <2>3 DEF Numbered
<1>4. ASSUME NEW p \in Awaiting!Made, NEW ok \in Handlers, NEW fail \in Handlers, Awaiting!Then(p, ok, fail)
      PROVE  Numbered'
  <2>1. made \in 0..Awaiting!MaxPromises /\ made < Awaiting!MaxPromises /\ made' = made + 1
    BY <1>4 DEF Awaiting!Then, PromisesInv, PromisesTyped
  <2>2. p \in Awaiting!P /\ Awaiting!Direct(PromiseNames[made + 1]) \in Targets
    BY <2>1, MakesNew, NamesAreApart DEF Awaiting!Direct, Targets
  <2>3. ok \in Awaiting!Handler \cup {"adopt"} /\ fail \in Awaiting!Handler \cup {"adopt"}
    BY NamesAssumption
  <2> QED BY <1>3, <1>4, <2>2, <2>3 DEF Awaiting!Then
<1>5. CASE Awaiting!Follow
  <2>1. running.p \in Awaiting!P /\ running.x \in Awaiting!P \cup {"both"} /\ wrappers + 1 \in Nat
    BY <1>5 DEF Awaiting!Follow, PromisesInv, PromisesTyped, MicroTasks, Awaiting!Idle, Awaiting!Task
  <2>2. CASE running.x = "both"
    BY <1>2, <1>5, <2>2 DEF Awaiting!Follow
  <2>3. CASE running.x # "both"
    <3>1. [p |-> running.p, w |-> wrappers + 1] \in Targets
      BY <2>1 DEF Targets
    <3>2. Awaiting!Attach(running.x, "adopt", "adopt", [p |-> running.p, w |-> wrappers + 1]) /\ reacted' = reacted
      BY <1>5, <2>3 DEF Awaiting!Follow
    <3>3. "adopt" \in Awaiting!Handler \cup {"adopt"} /\ running.x \in Awaiting!P
      BY <2>1, <2>3
    <3> QED BY <1>3, <3>1, <3>2, <3>3
  <2> QED BY <2>2, <2>3
<1>6. CASE Awaiting!React
  <2> DEFINE p == running.p
             r == Head(chain[p])
             h == IF state[p] = 1 THEN r.ok ELSE r.fail
             rest == [chain EXCEPT ![p] = Tail(@)]
  <2>1. p \in Awaiting!P /\ chain[p] # <<>>
    <3>1. running.kind = "notify" /\ chain[p] # <<>>
      BY <1>6 DEF Awaiting!React
    <3> QED BY <3>1 DEF PromisesInv, PromisesTyped, MicroTasks, Awaiting!Idle, Awaiting!Task
  <2>2. TakesReaction(chain, p, rest) /\ IsRecorded(reacted, p, r.nr, reacted')
    BY <1>6, <2>1 DEF TakesReaction, IsRecorded, Awaiting!React
  <2>3. rest \in [Awaiting!P -> Seq(Reaction)] /\ r \in Reaction
    <3> HIDE DEF rest
    <3> QED BY <1>1, <2>1, <2>2, ReactionTaken
  <2>4. NumberedIn(rest, attached, reacted')
    <3> HIDE DEF rest, p
    <3> QED BY <1>1, <2>1, <2>2, TakeNumbers
  <2>5. reacted' \in [Awaiting!P -> Seq(Nat)]
    <3>1. reacted' = [reacted EXCEPT ![p] = Append(@, r.nr)]
      BY <2>2 DEF IsRecorded
    <3>2. Append(reacted[p], r.nr) \in Seq(Nat)
      BY <1>1, <2>1, <2>3 DEF Reaction
    <3> QED BY <1>1, <2>1, <3>1, <3>2
  <2>6. CASE h \in Awaiting!P /\ h # r.to.p
    <3> DEFINE a == [ok |-> "adopt", fail |-> "adopt", to |-> r.to, nr |-> attached[h] + 1]
    <3>1. chain' = [rest EXCEPT ![h] = Append(@, a)] /\ attached' = [attached EXCEPT ![h] = @ + 1]
      BY <1>6, <2>6 DEF Awaiting!React
    <3>2. AddsReaction(rest, h, a, chain') /\ IsCounted(attached, h, attached') /\ h \in Awaiting!P
      BY <2>6, <3>1 DEF AddsReaction, IsCounted
    <3> HIDE DEF h, rest, r
    <3>3. a \in Reaction /\ a.nr = attached[h] + 1
      BY <1>1, <2>3, <2>6 DEF Reaction
    <3> HIDE DEF a
    <3>4. NumberedIn(chain', attached', reacted')
      BY <1>1, <2>3, <2>4, <2>5, <3>2, <3>3, AttachNumbers
    <3> QED BY <3>4 DEF Numbered
  <2>7. CASE ~(h \in Awaiting!P /\ h # r.to.p)
    <3>1. chain' = rest /\ attached' = attached
      BY <1>6, <2>7 DEF Awaiting!React
    <3> QED BY <2>4, <3>1 DEF Numbered
  <2> QED BY <2>6, <2>7
<1>7. CASE Awaiting!New \/ Awaiting!Pop \/ Awaiting!SecondCall \/ Awaiting!NotifyEnd \/ UNCHANGED Awaiting!vars
  BY <1>2, <1>7 DEF Awaiting!New, Awaiting!Pop, Awaiting!SecondCall, Awaiting!NotifyEnd, Awaiting!vars
<1>8. ASSUME NEW p \in Awaiting!Made, Awaiting!CallReject(p) \/ Awaiting!Alarm(p) \/ \E x \in {"first", "both"} \cup Awaiting!Made : Awaiting!CallResolve(p, x)
      PROVE  Numbered'
  BY <1>2, <1>8 DEF Awaiting!CallReject, Awaiting!Alarm, Awaiting!CallResolve
<1> QED BY <1>4, <1>5, <1>6, <1>7, <1>8 DEF Awaiting!Next, Awaiting!Microtask

LEMMA NumberedInit ==
    ASSUME Awaiting!Init
    PROVE  Numbered
BY DEF Awaiting!Init, Numbered, NumberedIn

(* What a promise became never changes, and the reactions run once each in the *)
(* order in which they were attached: reacted is 1, 2, ... and what waits in   *)
(* the chain is what comes next (Numbered).                                    *)
LEMMA PromisesSettleOnce == Awaiting!Spec => Awaiting!SettledOnce
<1>1. ASSUME PromisesInv', Numbered', NEW p \in Awaiting!P
      PROVE  reacted'[p] = [i \in DOMAIN reacted'[p] |-> i]
  <2>1. reacted'[p] \in Seq(Nat)
    BY <1>1 DEF PromisesInv, PromisesTyped
  <2>2. DOMAIN reacted'[p] = 1..Len(reacted'[p]) /\ \A i \in 1..Len(reacted'[p]) : reacted'[p][i] = i
    BY <1>1, <2>1, LenProperties DEF Numbered, NumberedIn
  <2>3. reacted'[p] = [i \in DOMAIN reacted'[p] |-> reacted'[p][i]]
    BY <2>1, LenProperties
  <2> QED BY <2>2, <2>3
<1>2. ASSUME PromisesInv, Numbered, [Awaiting!Next]_Awaiting!vars
      PROVE  \A p \in Awaiting!P :
                /\ state[p] # 0 => state'[p] = state[p] /\ value'[p] = value[p]
                /\ reacted'[p] = [i \in DOMAIN reacted'[p] |-> i]
  BY <1>1, <1>2, PromisesStep, NumberedStep, StaysSettled
<1>3. Awaiting!Spec => []Numbered
  BY PromisesInvariant, NumberedInit, NumberedStep, PTL DEF Awaiting!Spec
<1> QED BY <1>2, <1>3, PromisesInvariant, PTL DEF Awaiting!Spec, Awaiting!SettledOnce

-----------------------------------------------------------------------------
(* Promises, Patch and Transition in the parts; what is drawn is in LibraryProofs. *)

LEMMA MovingRuns == Spec => Moving!Spec
<1>1. Init => Moving!Init
  BY DEF Init
<1>2. [Next]_vars => [Moving!Next]_Moving!vars
  BY DEF Next, vars, moves, Moving!vars
<1> QED BY <1>1, <1>2, PTL DEF Spec, Moving!Spec

(* KeptPages, Transition: a page hears its hooks in the order Vue promises, and *)
(* no callback of a transition, late or cancelled, takes the element of the      *)
(* last rendering from the page, for any pages, children and wishes.             *)
THEOREM HooksComeInOrder == Spec => HooksInOrder
BY KeepingRuns, HooksOrdered, MovingRuns, NobodyTakesShown DEF HooksInOrder

LEMMA AwaitingRuns == Spec => Awaiting!Spec
<1>1. Init => Awaiting!Init
  BY DEF Init
<1>2. [Next]_vars => [Awaiting!Next]_Awaiting!vars
  BY DEF Next, vars, promises, Awaiting!vars, Awaiting!settling
<1> QED BY <1>1, <1>2, PTL DEF Spec, Awaiting!Spec

(* Promises: a promise that was resolved with another promise becomes what     *)
(* that one became, however many promises are made and whatever the program    *)
(* and the handlers do with them meanwhile.                                    *)
THEOREM FollowersBecomeAlike == Spec => []FollowersAgree
<1>1. Awaiting!FollowersAgree => FollowersAgree
  BY DEF FollowersAgree
<1> QED BY <1>1, AwaitingRuns, FollowersOfPromises, PTL

(* Promises, HttpClient: a settled promise keeps its state and value, reactions *)
(* run once each in the order in which they were attached, and what a page was  *)
(* told of its request is never told again.                                     *)
THEOREM SettlesForGood == Spec => SettledOnce
<1>1. Spec => Awaiting!SettledOnce
  BY AwaitingRuns, PromisesSettleOnce, PTL
<1>2. Spec => Http!ToldOnce
  BY HttpRuns, SettlesOnce, PTL
<1> QED BY <1>1, <1>2, PTL DEF SettledOnce

LEMMA PatchingRuns == Spec => Patching!Spec
<1>1. Init => Patching!Init
  BY DEF Init
<1>2. [Next]_vars => [Patching!Next]_Patching!vars
  BY DEF Next, vars, lists, Patching!vars
<1> QED BY <1>1, <1>2, PTL DEF Spec, Patching!Spec

(* Patch: a child whose key and tag are in both lists keeps the element it had, *)
(* and an element it did not have was never another child's, for lists of any   *)
(* length and any number of renderings.                                         *)
THEOREM ChildrenKeepElements == Spec => []KeysKeepElements
<1>1. Patching!KeysKeepElements => KeysKeepElements
  BY DEF KeysKeepElements
<1> QED BY <1>1, PatchingRuns, PatchShows, PTL

(* Patch, Transition: after a rendering the page shows the children of the new  *)
(* list and no others, in its order; and when no transition is under way it     *)
(* shows the child that is wanted, no class of a transition on it, and never    *)
(* two elements of one child: for lists of any length, any number of            *)
(* renderings, and any wishes while transitions run.                            *)
THEOREM PagesShowWhatIsWanted == Spec => []ShownAsRendered
<1>1. Patching!ShownAsRendered /\ Moving!RestShowsWanted /\ Moving!OneOfAKey => ShownAsRendered
  BY DEF ShownAsRendered
<1> QED BY <1>1, PatchingRuns, PatchShows, MovingRuns, MovingRests, PTL
=============================================================================
