---------------------------- MODULE ConsoleProofs ----------------------------
(***************************************************************************)
(* Theorems about Console, for any number of transactions, participants,    *)
(* pages and connections.                                                   *)
(***************************************************************************)
EXTENDS Console, TLAPS

(* TypeOK is inductive once an open dialog, and an update under way, have a  *)
(* row they are about.                                                      *)
TypeInv ==
    /\ TypeOK
    /\ dialog => currentRow \in Parts
    /\ \A c \in Connections : conn[c].kind = "update" => currentRow \in Parts

LEMMA CountFacts ==
    /\ NoCount \in CountRange /\ 0 \in Allowed
    /\ \A n \in Counts : n \in CountRange /\ n # NoCount
    /\ \A n \in Allowed : n \in CountRange /\ n # NoCount
    /\ \A n \in CountRange : Accepts(n) => n \in Allowed
BY CountsAssumption DEF CountRange, Allowed, Accepts, NoCount

LEMMA IdleFacts ==
    /\ Idle \in Requests /\ Idle.kind = "idle" /\ Idle.rows = Hidden
    /\ Failed \in Requests /\ Failed.kind = "failed"
BY CountFacts DEF Idle, Failed, Request, Requests, Hidden

LEMMA SentFacts ==
    /\ \A k \in Pages : ListRequest(k) \in Requests
    /\ \A p \in Parts, n \in CountRange : Request("update", {p}, n) \in Requests
    /\ Request("compensation", {}, NoCount) \in Requests
    /\ \A ids \in SUBSET Parts : Request("remove", ids, NoCount) \in Requests
BY CountFacts DEF ListRequest, Listing, OnPage, Request, Requests, Hidden

(* A list that has read one more transaction.                               *)
LEMMA ReadFacts ==
    ASSUME NEW q, NEW t
    PROVE  WithParticipants(q, t).kind = "list"
BY DEF WithParticipants, Listing

LEMMA ReadType ==
    ASSUME TypeInv, NEW c \in Connections, NEW t \in conn[c].todo
    PROVE  WithParticipants(conn[c], t) \in Requests
BY CountFacts DEF WithParticipants, Listing, Requests, TypeInv, TypeOK

(* What an action may do to the requests: nothing, or put r on connection c. *)
Renewed(c, r) ==
    \/ r.kind \in {"idle", "failed", "remove", "compensation"}
    \/ /\ r.kind = "update" /\ r.state = "sent" /\ dialog
       /\ r.ids = {currentRow} /\ r.count = form
       /\ currentRow' = currentRow /\ form' = form
    \/ \E k \in Pages : r = ListRequest(k)
    \/ /\ conn[c].kind = "list"
       /\ \E t \in conn[c].todo : r = WithParticipants(conn[c], t)

Answered(c, r) ==
    /\ r.kind = conn[c].kind /\ r.ids = conn[c].ids /\ r.count = conn[c].count
    /\ r.page = conn[c].page /\ r.todo = conn[c].todo /\ r.rows = conn[c].rows
    /\ r.kind = "update" =>
         \A p \in r.ids : r.count \in held'[p] \/ p \notin stored'
    /\ UNCHANGED <<currentRow, form>>

ConnStep ==
    \/ conn' = conn
    \/ \E c \in Connections, r \in Requests :
         conn' = [conn EXCEPT ![c] = r] /\ (Renewed(c, r) \/ Answered(c, r))

LEMMA RenewedStep ==
    ASSUME NEW c \in Connections, NEW r \in Requests,
           conn' = [conn EXCEPT ![c] = r], Renewed(c, r)
    PROVE  ConnStep
BY DEF ConnStep

LEMMA AnsweredStep ==
    ASSUME TypeInv, NEW c \in Connections, Served(c),
           UNCHANGED <<currentRow, form>>,
           conn[c].kind = "update" =>
               \A p \in conn[c].ids : conn[c].count \in held'[p] \/ p \notin stored'
    PROVE  ConnStep
<1> DEFINE r == [conn[c] EXCEPT !.state = "ok"]
<1>1. conn[c] \in Requests
  BY DEF TypeInv, TypeOK
<1>2. /\ r \in Requests
      /\ r.kind = conn[c].kind /\ r.ids = conn[c].ids /\ r.count = conn[c].count
      /\ r.page = conn[c].page /\ r.todo = conn[c].todo /\ r.rows = conn[c].rows
  BY <1>1 DEF Requests
<1>3. conn' = [conn EXCEPT ![c] = r]
  BY DEF Served
<1> HIDE DEF r
<1>4. Answered(c, r)
  BY <1>2 DEF Answered
<1> QED BY <1>2, <1>3, <1>4 DEF ConnStep

LEMMA DoneStep ==
    ASSUME NEW c \in Connections, Done(c) \/ Told(c)
    PROVE  ConnStep
BY IdleFacts, RenewedStep DEF Done, Told, Renewed

LEMMA ConnSteps ==
    ASSUME TypeInv, [Next]_vars
    PROVE  ConnStep
<1>1. ASSUME NEW c \in Connections, NEW k \in Pages, Send(c, ListRequest(k))
      PROVE  ConnStep
  BY <1>1, SentFacts, RenewedStep DEF Send, Renewed
<1>2. ASSUME NEW c \in Connections, UpdateRetryCount(c)
      PROVE  ConnStep
  <2> DEFINE r == Request("update", {currentRow}, form)
  <2>1. r \in Requests
    BY <1>2, SentFacts DEF UpdateRetryCount, TypeInv, TypeOK
  <2>2. conn' = [conn EXCEPT ![c] = r] /\ Renewed(c, r)
    BY <1>2 DEF UpdateRetryCount, Send, pageState, Request, Renewed
  <2> QED BY <2>1, <2>2, RenewedStep
<1>3. ASSUME NEW c \in Connections, DeleteAll(c)
      PROVE  ConnStep
  <2> DEFINE r == Request("remove", RemovalIds, NoCount)
  <2>1. RemovalIds \in SUBSET Parts
    BY DEF RemovalIds, Tables, TypeInv, TypeOK
  <2>2. r \in Requests
    BY <2>1, SentFacts
  <2>3. conn' = [conn EXCEPT ![c] = r] /\ Renewed(c, r)
    BY <1>3 DEF DeleteAll, Send, Request, Renewed
  <2> QED BY <2>2, <2>3, RenewedStep
<1>4. ASSUME NEW c \in Connections, NEW p \in Parts, CompensationClicked(c, p)
      PROVE  ConnStep
  <2> DEFINE r == Request("compensation", {}, NoCount)
  <2>1. conn' = [conn EXCEPT ![c] = r] /\ Renewed(c, r)
    BY <1>4 DEF CompensationClicked, Send, Request, Renewed
  <2> QED BY <2>1, SentFacts, RenewedStep
<1>5. ASSUME NEW c \in Connections, Refused(c)
      PROVE  ConnStep
  BY <1>5, IdleFacts, RenewedStep DEF Refused, Renewed
<1>6. ASSUME NEW c \in Connections, Served(c), UNCHANGED pageState, conn[c].kind # "update"
      PROVE  ConnStep
  BY <1>6, AnsweredStep DEF pageState
<1>7. ASSUME NEW c \in Connections, ServeList(c)
      PROVE  ConnStep
  <2>1. ASSUME NEW t \in conn[c].todo, conn' = [conn EXCEPT ![c] = WithParticipants(@, t)]
        PROVE  ConnStep
    <3> DEFINE r == WithParticipants(conn[c], t)
    <3>1. r \in Requests
      BY ReadType
    <3>2. Renewed(c, r)
      BY <1>7 DEF ServeList, Working, Renewed
    <3>3. conn' = [conn EXCEPT ![c] = r]
      BY <2>1
    <3> QED BY <3>1, <3>2, <3>3, RenewedStep
  <2> QED BY <1>6, <1>7, <2>1 DEF ServeList, Working
<1>8. ASSUME NEW c \in Connections, ServeUpdate(c)
      PROVE  ConnStep
  <2>1. ASSUME Served(c)
        PROVE  \A p \in conn[c].ids : conn[c].count \in held'[p] \/ p \notin stored'
    <3>1. conn'[c].kind = "update" /\ ~ Refused(c)
      BY <1>8, <2>1, IdleFacts DEF ServeUpdate, Working, Served, Refused, TypeInv, TypeOK, Requests
    <3>2. conn[c].ids \subseteq Parts /\ stored' = stored
      BY <1>8 DEF ServeUpdate, TypeInv, TypeOK, Requests
    <3> QED BY <1>8, <3>1, <3>2 DEF ServeUpdate
  <2> QED BY <1>8, <1>5, <2>1, AnsweredStep DEF ServeUpdate, pageState
<1>9. ASSUME NEW c \in Connections, ServeRemove(c) \/ ServeCompensation(c) \/ Lose(c)
      PROVE  ConnStep
  BY <1>5, <1>6, <1>9 DEF ServeRemove, ServeCompensation, Lose, Working
<1>10. ASSUME NEW c \in Connections,
              HandleList(c) \/ HandleRemove(c) \/ HandleUpdate(c) \/ HandleMessage(c)
       PROVE  ConnStep
  BY DoneStep, <1>10 DEF HandleList, HandleRemove, HandleUpdate, HandleMessage
<1>11. ASSUME \/ \E t \in Trans : Fold(t) \/ \E rows \in SUBSET ShownOf(t) : Check(t, rows)
              \/ \E p \in Parts : EditClicked(p) \/ RuntimeFinish(p)
              \/ \E n \in Counts : TypeCount(n)
              \/ CloseDialog \/ UNCHANGED vars
       PROVE  ConnStep
  BY <1>11 DEF Fold, Check, EditClicked, RuntimeFinish, TypeCount, CloseDialog, vars, ConnStep
<1> QED BY <1>1, <1>2, <1>3, <1>4, <1>7, <1>8, <1>9, <1>10, <1>11
       DEF Next, Query, ChangePage, TypeInv, TypeOK

(* The conjuncts of TypeOK about everything but the requests; and the row    *)
(* clicked last never becomes none again.                                   *)
OthersOK ==
    /\ stored \subseteq Parts
    /\ retry \in [Parts -> Allowed]
    /\ held \in [Parts -> SUBSET Allowed]
    /\ paging \in Pages
    /\ table \in Tables
    /\ selected \in [Trans -> SUBSET Parts]
    /\ currentRow \in Parts \cup {NoPart}
    /\ form \in CountRange
    /\ dialog \in BOOLEAN
    /\ checked \subseteq Parts /\ forgotten \subseteq Parts /\ removed \subseteq Parts
    /\ late \in [Connections -> SUBSET Parts] /\ overtaken \subseteq Parts
    /\ hasty \in BOOLEAN
    /\ dialog => currentRow \in Parts

OthersStep ==
    /\ OthersOK'
    /\ currentRow' = currentRow \/ currentRow' \in Parts

LEMMA WithoutType ==
    ASSUME TypeOK, NEW ids \in SUBSET Parts
    PROVE  Without(ids) \in Tables
BY CountFacts DEF TypeOK, Tables, Table, Without

LEMMA OthersSteps ==
    ASSUME TypeInv, [Next]_vars
    PROVE  OthersStep
<1> USE DEF TypeInv, TypeOK, OthersOK, OthersStep
<1>1. ASSUME NEW c \in Connections,
             \/ Query(c) \/ UpdateRetryCount(c) \/ DeleteAll(c) \/ ServeList(c)
             \/ ServeCompensation(c) \/ Lose(c) \/ HandleMessage(c)
      PROVE  OthersStep
  BY <1>1 DEF Query, UpdateRetryCount, DeleteAll, ServeList, ServeCompensation, Lose,
              HandleMessage, Done, serverState, pageState, history, marks
<1>2. ASSUME NEW c \in Connections, NEW k \in Pages, ChangePage(c, k)
      PROVE  OthersStep
  BY <1>2 DEF ChangePage, serverState, history
<1>3. ASSUME NEW c \in Connections, NEW p \in Parts, CompensationClicked(c, p)
      PROVE  OthersStep
  BY <1>3 DEF CompensationClicked, UpdateUnderWay, serverState
<1>4. ASSUME NEW c \in Connections, ServeRemove(c)
      PROVE  OthersStep
  BY <1>4 DEF ServeRemove, pageState, history
<1>5. ASSUME NEW c \in Connections, ServeUpdate(c)
      PROVE  OthersStep
  <2>1. conn[c].count \in CountRange
    BY DEF Requests
  <2>2. /\ retry' \in [Parts -> Allowed] /\ held' \in [Parts -> SUBSET Allowed]
        /\ UNCHANGED <<stored, pageState, history>>
    <3>1. CASE UNCHANGED <<retry, held>>
      BY <1>5, <3>1 DEF ServeUpdate
    <3>2. CASE ~ UNCHANGED <<retry, held>>
      <4>1. conn[c].count \in Allowed
        BY <1>5, <2>1, <3>2, CountFacts DEF ServeUpdate
      <4> QED BY <1>5, <3>2, <4>1 DEF ServeUpdate
    <3> QED BY <3>1, <3>2
  <2> QED BY <2>2 DEF pageState, history
<1>6. ASSUME NEW c \in Connections, HandleList(c)
      PROVE  OthersStep
  <2>1. conn[c].rows \in [Parts -> CountRange]
    BY DEF Requests
  <2>2. table' \in Tables
    BY <1>6, <2>1, CountFacts DEF HandleList, Tables, Table, NullTable, Hidden, OnPage
  <2> QED BY <1>6, <2>2 DEF HandleList, Done, serverState
<1>7. ASSUME NEW c \in Connections, HandleRemove(c)
      PROVE  OthersStep
  <2>1. conn[c].ids \in SUBSET Parts
    BY DEF Requests
  <2>2. late' \in [Connections -> SUBSET Parts] /\ overtaken' \subseteq Parts /\ removed' \subseteq Parts
    BY <1>7, <2>1 DEF HandleRemove, Told
  <2> QED BY <1>7, <2>1, <2>2, WithoutType DEF HandleRemove, NothingSelected, serverState
<1>8. ASSUME NEW c \in Connections, HandleUpdate(c)
      PROVE  OthersStep
  <2>1. Table(table.trans, [table.retry EXCEPT ![currentRow] = form]) \in Tables
    BY DEF Tables, Table
  <2>2. table' \in Tables
    BY <1>8, <2>1 DEF HandleUpdate
  <2>3. currentRow' = currentRow /\ (dialog' = dialog \/ dialog' = FALSE)
    BY <1>8 DEF HandleUpdate
  <2>4. CASE dialog' = dialog
    BY <1>8, <2>2, <2>3, <2>4 DEF HandleUpdate, Done, serverState, marks
  <2>5. CASE dialog' = FALSE
    BY <1>8, <2>2, <2>3, <2>5 DEF HandleUpdate, Done, serverState, marks
  <2> QED BY <2>3, <2>4, <2>5
<1>9. ASSUME NEW t \in Trans, NEW rows \in SUBSET ShownOf(t), Check(t, rows)
      PROVE  OthersStep
  BY <1>9 DEF Check, ShownOf, serverState
<1>10. ASSUME NEW t \in Trans, Fold(t)
       PROVE  OthersStep
  BY <1>10 DEF Fold, serverState
<1>11. ASSUME NEW p \in Parts, EditClicked(p)
       PROVE  OthersStep
  BY <1>11 DEF EditClicked, UpdateUnderWay, serverState
<1>12. ASSUME NEW p \in Parts, RuntimeFinish(p)
       PROVE  OthersStep
  BY <1>12 DEF RuntimeFinish, pageState, history
<1>13. ASSUME NEW n \in Counts, TypeCount(n)
       PROVE  OthersStep
  BY <1>13, CountFacts DEF TypeCount, UpdateUnderWay, serverState
<1>14. CASE CloseDialog
  BY <1>14 DEF CloseDialog, serverState, history
<1>15. CASE UNCHANGED vars
  BY <1>15 DEF vars, serverState, pageState, history
<1> HIDE DEF TypeInv, TypeOK, OthersOK, OthersStep
<1> QED BY <1>1, <1>2, <1>3, <1>4, <1>5, <1>6, <1>7, <1>8, <1>9, <1>10, <1>11, <1>12, <1>13,
           <1>14, <1>15 DEF Next

LEMMA TypeStep ==
    ASSUME TypeInv, [Next]_vars
    PROVE  TypeInv'
<1>1. ConnStep /\ OthersStep
  BY ConnSteps, OthersSteps
<1>2. conn' \in [Connections -> Requests]
  BY <1>1 DEF ConnStep, TypeInv, TypeOK
<1>3. ASSUME NEW c \in Connections, conn'[c].kind = "update"
      PROVE  currentRow' \in Parts
  BY <1>1, <1>3, ReadFacts DEF ConnStep, Renewed, Answered, ListRequest, Listing, OthersStep,
                               OthersOK, TypeInv, TypeOK
<1> QED BY <1>1, <1>2, <1>3 DEF OthersStep, OthersOK, TypeInv, TypeOK

LEMMA TypeInit ==
    ASSUME Init
    PROVE  TypeInv
<1>1. conn \in [Connections -> Requests] /\ \A c \in Connections : conn[c].kind = "idle"
  BY IdleFacts DEF Init
<1>2. EmptyTable \in Tables
  BY CountFacts DEF EmptyTable, Table, Tables, Hidden
<1> QED BY <1>1, <1>2, CountFacts DEF Init, TypeInv, TypeOK, NothingSelected

(* The page's state, and every request, has its type in every behaviour.    *)
THEOREM ConsoleTypes == Spec => []TypeOK
<1>1. Init => TypeInv
  BY TypeInit
<1>2. TypeInv /\ [Next]_vars => TypeInv'
  BY TypeStep
<1>3. TypeInv => TypeOK
  BY DEF TypeInv
<1> QED BY <1>1, <1>2, <1>3, PTL DEF Spec

-----------------------------------------------------------------------------
(* What holds of every request r: the counts it read belong to the page it   *)
(* lists, and were in the repository; so was the count of an update that was *)
(* accepted, unless the row is gone.                                        *)
RequestOK(r) ==
    /\ r.kind = "list" =>
         /\ r.todo \subseteq OnPage(r.page)
         /\ \A p \in Parts : r.rows[p] # NoCount =>
              TransOf[p] \in OnPage(r.page) /\ r.rows[p] \in held[p]
    /\ r.kind = "update" /\ r.state = "ok" =>
         \A p \in r.ids : r.count \in held[p] \/ p \notin stored

ServerInv ==
    /\ \A p \in Parts : retry[p] \in held[p]
    /\ \A c \in Connections : RequestOK(conn[c])

ServerMoves ==
    /\ \A p \in Parts : held[p] \subseteq held'[p]
    /\ stored' \subseteq stored
    /\ (\A p \in Parts : retry[p] \in held[p]) => \A p \in Parts : retry'[p] \in held'[p]

LEMMA ServerSteps ==
    ASSUME TypeInv, [Next]_vars
    PROVE  ServerMoves
<1> USE DEF TypeInv, TypeOK, ServerMoves
<1>1. ASSUME UNCHANGED serverState
      PROVE  ServerMoves
  BY <1>1 DEF serverState
<1>2. ASSUME NEW c \in Connections, ServeRemove(c)
      PROVE  ServerMoves
  BY <1>2 DEF ServeRemove
<1>3. ASSUME NEW c \in Connections, ServeUpdate(c)
      PROVE  ServerMoves
  BY <1>3 DEF ServeUpdate
<1>4. ASSUME NEW p \in Parts, RuntimeFinish(p)
      PROVE  ServerMoves
  BY <1>4 DEF RuntimeFinish
<1>5. CASE UNCHANGED vars
  BY <1>1, <1>5 DEF vars
<1> HIDE DEF TypeInv, TypeOK, ServerMoves
<1> QED BY <1>1, <1>2, <1>3, <1>4, <1>5
       DEF Next, Query, UpdateRetryCount, DeleteAll, ChangePage, CompensationClicked, ServeList,
           ServeCompensation, Lose, HandleList, HandleRemove, HandleUpdate, HandleMessage,
           Check, Fold, EditClicked, TypeCount, CloseDialog

(* A request that nothing was done about stays right.                        *)
LEMMA KeptRequest ==
    ASSUME TypeInv, ServerMoves, NEW c \in Connections, RequestOK(conn[c]),
           conn'[c] = conn[c]
    PROVE  RequestOK(conn[c])'
<1>1. conn[c] \in Requests
  BY DEF TypeInv, TypeOK
<1> QED BY <1>1 DEF RequestOK, ServerMoves, Requests

LEMMA ServerStep ==
    ASSUME TypeInv, ServerInv, [Next]_vars
    PROVE  ServerInv'
<1>1. ConnStep /\ ServerMoves
  BY ConnSteps, ServerSteps
<1>2. ASSUME NEW c \in Connections
      PROVE  RequestOK(conn[c])'
  <2>1. CASE conn'[c] = conn[c]
    BY <1>1, <2>1, KeptRequest DEF ServerInv
  <2>2. ASSUME Renewed(c, conn'[c])
        PROVE  RequestOK(conn[c])'
    <3>1. ASSUME NEW k \in Pages, conn'[c] = ListRequest(k)
          PROVE  RequestOK(conn[c])'
      BY <3>1 DEF ListRequest, Listing, Hidden, RequestOK
    <3>2. ASSUME conn[c].kind = "list", NEW t \in conn[c].todo,
                 conn'[c] = WithParticipants(conn[c], t)
          PROVE  RequestOK(conn[c])'
      <4>1. t \in OnPage(conn[c].page) /\ conn[c].todo \subseteq OnPage(conn[c].page)
        BY <3>2 DEF ServerInv, RequestOK
      <4>2. ASSUME NEW p \in Parts, conn'[c].rows[p] # NoCount
            PROVE  TransOf[p] \in OnPage(conn[c].page) /\ conn'[c].rows[p] \in held'[p]
        BY <1>1, <3>2, <4>1, <4>2 DEF WithParticipants, Listing, ServerInv, RequestOK, ServerMoves
      <4> QED BY <3>2, <4>1, <4>2 DEF WithParticipants, Listing, RequestOK
    <3> QED BY <2>2, <3>1, <3>2 DEF Renewed, RequestOK
  <2>3. ASSUME Answered(c, conn'[c])
        PROVE  RequestOK(conn[c])'
    BY <1>1, <2>3 DEF Answered, ServerInv, RequestOK, ServerMoves
  <2> QED BY <1>1, <2>1, <2>2, <2>3 DEF ConnStep, TypeInv, TypeOK
<1> QED BY <1>1, <1>2 DEF ServerInv, ServerMoves

-----------------------------------------------------------------------------
(* The ticks: rows are listed under transactions of the table, a ticked row   *)
(* is selected in its transaction, and what is selected was ticked.          *)
TicksOK ==
    /\ \A p \in Parts : Shown(p) => TransOf[p] \in table.trans
    /\ \A p \in checked : p \in selected[TransOf[p]] /\ TransOf[p] \in table.trans
    /\ \A t \in Trans : \A p \in selected[t] : TransOf[p] = t /\ p \in checked \cup forgotten

TickInv == TypeInv /\ ServerInv /\ TicksOK

LEMMA TicksAreRemoved ==
    ASSUME TickInv
    PROVE  RemovesOnlyWhatWasTicked
BY DEF TickInv, TypeInv, TypeOK, Tables, TicksOK, RemovesOnlyWhatWasTicked, RemovalIds

LEMMA TickStep ==
    ASSUME TickInv, [Next]_vars
    PROVE  TicksOK'
<1> USE DEF TickInv, TypeInv, TypeOK, TicksOK, Shown
<1>1. ASSUME UNCHANGED <<table, selected, checked, forgotten>>
      PROVE  TicksOK'
  BY <1>1
<1>2. ASSUME NEW c \in Connections, HandleList(c)
      PROVE  TicksOK'
  <2>1. RequestOK(conn[c]) /\ conn[c].kind = "list"
    BY <1>2 DEF ServerInv, HandleList, Arrived
  <2>2. \A p \in Parts : Shown(p)' => TransOf[p] \in table'.trans
    BY <1>2, <2>1 DEF HandleList, RequestOK, Table, NullTable, Hidden
  <2> QED BY <1>2, <2>2 DEF HandleList
<1>3. ASSUME NEW c \in Connections, HandleRemove(c)
      PROVE  TicksOK'
  <2>1. CASE table.null
    BY <1>1, <1>3, <2>1 DEF HandleRemove
  <2>2. CASE ~ table.null
    BY <1>3, <2>2 DEF HandleRemove, Without, Table, NothingSelected
  <2> QED BY <2>1, <2>2
<1>4. ASSUME NEW c \in Connections, HandleUpdate(c)
      PROVE  TicksOK'
  <2>1. UNCHANGED <<selected, checked, forgotten>>
    BY <1>4 DEF HandleUpdate, marks
  <2>2. /\ table'.trans = table.trans
        /\ \A p \in Parts : Shown(p)' => Shown(p)
    BY <1>4 DEF HandleUpdate, Table, Tables
  <2> QED BY <2>1, <2>2
<1>5. ASSUME NEW t \in Trans, NEW rows \in SUBSET ShownOf(t), Check(t, rows)
      PROVE  TicksOK'
  BY <1>5, TransOfAssumption DEF Check, ShownOf
<1>6. ASSUME NEW t \in Trans, Fold(t)
      PROVE  TicksOK'
  BY <1>6 DEF Fold
<1> HIDE DEF TickInv, TypeInv, TypeOK, TicksOK, Shown
<1> QED BY <1>1, <1>2, <1>3, <1>4, <1>5, <1>6
       DEF Next, vars, pageState, history, marks, Query, UpdateRetryCount, DeleteAll, ChangePage,
           CompensationClicked, ServeList, ServeRemove, ServeUpdate, ServeCompensation, Lose,
           HandleMessage, EditClicked, RuntimeFinish, TypeCount, CloseDialog

LEMMA InitFacts ==
    ASSUME Init
    PROVE  ServerInv /\ \A p \in Parts : ~ Shown(p)
BY DEF Init, ServerInv, RequestOK, Idle, Request, EmptyTable, Table, Hidden, Shown

(* "Delete the ticked rows" would name every ticked row, and else only rows   *)
(* that stood ticked when their table went, whatever the number of           *)
(* connections and the order of the answers.                                *)
THEOREM TickedRowsAreRemoved == Spec => []RemovesOnlyWhatWasTicked
<1>1. ASSUME Init
      PROVE  TickInv
  BY <1>1, TypeInit, InitFacts DEF Init, TickInv, TicksOK, NothingSelected
<1>2. TickInv /\ [Next]_vars => TickInv'
  BY TypeStep, ServerStep, TickStep DEF TickInv
<1> QED BY <1>1, <1>2, TicksAreRemoved, PTL DEF Spec

-----------------------------------------------------------------------------
(* Patient users: an update under way is about the row clicked last and the   *)
(* count in the form, and the listed counts were stored.                     *)
PatientOK ==
    ~ hasty =>
      /\ \A c \in Connections : conn[c].kind = "update" =>
           conn[c].ids = {currentRow} /\ conn[c].count = form
      /\ ListedCountWasStored

CountInv == TypeInv /\ ServerInv /\ PatientOK

(* Counts of rows that were listed already stay right.                       *)
LEMMA ListedStays ==
    ASSUME TypeInv, ServerMoves, ListedCountWasStored,
           \A p \in Parts : Shown(p)' => Shown(p) /\ table'.retry[p] = table.retry[p]
    PROVE  ListedCountWasStored'
BY DEF ListedCountWasStored, ServerMoves

LEMMA UpdatesStay ==
    ASSUME CountInv, ConnStep, ~ hasty, UNCHANGED <<currentRow, form>>
    PROVE  \A c \in Connections : conn'[c].kind = "update" =>
             conn'[c].ids = {currentRow'} /\ conn'[c].count = form'
BY ReadFacts DEF CountInv, PatientOK, ConnStep, Renewed, Answered, ListRequest, Listing,
                 TypeInv, TypeOK

LEMMA PatientStep ==
    ASSUME CountInv, [Next]_vars
    PROVE  PatientOK'
<1>1. TypeInv /\ ServerInv /\ ConnStep /\ ServerMoves /\ OthersStep
  BY ConnSteps, ServerSteps, OthersSteps DEF CountInv
<1>2. ASSUME UNCHANGED <<currentRow, form, hasty>>, ListedCountWasStored => ListedCountWasStored'
      PROVE  PatientOK'
  BY <1>1, <1>2, UpdatesStay DEF CountInv, PatientOK
<1>3. ASSUME UNCHANGED <<currentRow, form, hasty, table>>
      PROVE  PatientOK'
  BY <1>1, <1>2, <1>3, ListedStays DEF Shown
<1>4. ASSUME UNCHANGED table, hasty' = (hasty \/ UpdateUnderWay),
             \A c \in Connections : conn'[c].kind = "update" => conn[c].kind = "update"
      PROVE  PatientOK'
  <2>1. ListedCountWasStored => ListedCountWasStored'
    BY <1>1, <1>4, ListedStays DEF Shown
  <2> QED BY <1>4, <2>1 DEF UpdateUnderWay, CountInv, PatientOK
<1>5. ASSUME NEW c \in Connections, NEW p \in Parts, CompensationClicked(c, p)
      PROVE  PatientOK'
  BY <1>1, <1>4, <1>5 DEF CompensationClicked, Send, Request, TypeInv, TypeOK
<1>6. ASSUME NEW c \in Connections, HandleList(c)
      PROVE  PatientOK'
  <2>1. RequestOK(conn[c]) /\ conn[c].kind = "list"
    BY <1>1, <1>6 DEF ServerInv, HandleList, Arrived
  <2>2. ListedCountWasStored'
    BY <1>1, <1>6, <2>1 DEF HandleList, RequestOK, Table, NullTable, Hidden, Shown,
                            ListedCountWasStored, ServerMoves
  <2> QED BY <1>2, <1>6, <2>2 DEF HandleList
<1>7. ASSUME NEW c \in Connections, HandleRemove(c)
      PROVE  PatientOK'
  <2>1. \A p \in Parts : Shown(p)' => Shown(p) /\ table'.retry[p] = table.retry[p]
    BY <1>7 DEF HandleRemove, Without, Table, Shown
  <2> QED BY <1>1, <1>2, <1>7, <2>1, ListedStays DEF HandleRemove
<1>8. ASSUME NEW c \in Connections, HandleUpdate(c), ~ hasty
      PROVE  ListedCountWasStored'
  <2>1. currentRow \in Parts /\ (form \in held[currentRow] \/ currentRow \notin stored)
    BY <1>1, <1>8 DEF HandleUpdate, Arrived, CountInv, PatientOK, ServerInv, RequestOK, TypeInv
  <2>2. ListedCountWasStored
    BY <1>8 DEF CountInv, PatientOK
  <2>3. \A p \in Parts : \/ table'.retry[p] = table.retry[p]
                         \/ p = currentRow /\ table'.retry[p] = form
    BY <1>1, <1>8 DEF HandleUpdate, Table, TypeInv, TypeOK, Tables
  <2> QED BY <1>1, <2>1, <2>2, <2>3 DEF ListedCountWasStored, Shown, ServerMoves
<1>9. ASSUME NEW c \in Connections, HandleUpdate(c)
      PROVE  PatientOK'
  BY <1>1, <1>8, <1>9, UpdatesStay DEF HandleUpdate, PatientOK, marks
<1>10. ASSUME NEW p \in Parts, EditClicked(p)
       PROVE  PatientOK'
  BY <1>4, <1>10 DEF EditClicked
<1>11. ASSUME NEW n \in Counts, TypeCount(n)
       PROVE  PatientOK'
  BY <1>4, <1>11 DEF TypeCount
<1> QED BY <1>3, <1>5, <1>6, <1>7, <1>9, <1>10, <1>11
       DEF Next, vars, pageState, history, marks, Query, UpdateRetryCount, DeleteAll, ChangePage,
           ServeList, ServeRemove, ServeUpdate, ServeCompensation, Lose, HandleMessage,
           Check, Fold, RuntimeFinish, CloseDialog

(* Users who leave the dialog and the rows alone until their update is       *)
(* answered are shown counts that were stored, over any number of            *)
(* connections.                                                             *)
THEOREM PatientUsersSeeStoredCounts == Spec => []ListedCountWasStoredForPatientUsers
<1>1. ASSUME Init
      PROVE  CountInv
  BY <1>1, TypeInit, InitFacts
     DEF Init, CountInv, PatientOK, ListedCountWasStored, Idle, Request
<1>2. CountInv /\ [Next]_vars => CountInv'
  BY TypeStep, ServerStep, PatientStep DEF CountInv
<1>3. CountInv => ListedCountWasStoredForPatientUsers
  BY DEF CountInv, PatientOK, ListedCountWasStoredForPatientUsers
<1> QED BY <1>1, <1>2, <1>3, PTL DEF Spec

-----------------------------------------------------------------------------
(* Rows of an answered removal.  They are gone from the repository, and what   *)
(* a list under way has read of them counts as late.                         *)
RemovedOK ==
    /\ removed \cap stored = {}
    /\ \A c \in Connections :
         /\ conn[c].kind = "remove" /\ conn[c].state = "ok" => conn[c].ids \cap stored = {}
         /\ conn[c].kind = "list" =>
              \A p \in removed : conn[c].rows[p] # NoCount => p \in late[c]
    /\ table.null => \A p \in Parts : ~ Shown(p)
    /\ OnlyALateListShowsRemoved

RemovedInv == TypeInv /\ RemovedOK

(* A removal that is answered with success has removed its rows.             *)
LEMMA RemovalServed ==
    ASSUME TypeInv, [Next]_vars, NEW c \in Connections,
           conn'[c].kind = "remove", conn'[c].state = "ok"
    PROVE  /\ conn[c].kind = "remove" /\ conn'[c].ids = conn[c].ids
           /\ conn[c].state = "ok" \/ stored' = stored \ conn[c].ids
<1> DEFINE G == /\ conn[c].kind = "remove" /\ conn'[c].ids = conn[c].ids
                /\ conn[c].state = "ok" \/ stored' = stored \ conn[c].ids
<1> USE DEF TypeInv, TypeOK
<1>1. ASSUME conn' = conn
      PROVE  G
  BY <1>1
<1>2. ASSUME NEW d \in Connections, NEW r, conn' = [conn EXCEPT ![d] = r],
             r.kind # "remove" \/ r.state # "ok"
      PROVE  G
  BY <1>2
<1>3. ASSUME NEW d \in Connections, NEW s, conn' = [conn EXCEPT ![d].state = s],
             conn[d].kind # "remove"
      PROVE  G
  BY <1>3 DEF Requests
<1>4. ASSUME NEW d \in Connections,
             \/ Query(d) \/ UpdateRetryCount(d) \/ DeleteAll(d)
             \/ \E k \in Pages : ChangePage(d, k)
             \/ \E p \in Parts : CompensationClicked(d, p)
      PROVE  G
  BY <1>2, <1>4 DEF Query, UpdateRetryCount, DeleteAll, ChangePage, CompensationClicked, Send,
                    ListRequest, Listing, Request
<1>5. ASSUME NEW d \in Connections, ServeList(d)
      PROVE  G
  BY <1>2, <1>3, <1>5 DEF ServeList, Working, WithParticipants, Listing, Served
<1>6. ASSUME NEW d \in Connections, ServeRemove(d)
      PROVE  G
  <2>1. CASE d = c
    BY <1>6, <2>1, IdleFacts DEF ServeRemove, Working, Served, Refused, Requests
  <2>2. CASE d # c
    BY <1>6, <2>2 DEF ServeRemove, Served, Refused
  <2> QED BY <2>1, <2>2
<1>7. ASSUME NEW d \in Connections, ServeUpdate(d) \/ ServeCompensation(d) \/ Lose(d)
      PROVE  G
  BY <1>2, <1>3, <1>7, IdleFacts DEF ServeUpdate, ServeCompensation, Lose, Working, Served, Refused
<1>8. ASSUME NEW d \in Connections,
             HandleList(d) \/ HandleRemove(d) \/ HandleUpdate(d) \/ HandleMessage(d)
      PROVE  G
  BY <1>2, <1>8, IdleFacts DEF HandleList, HandleRemove, HandleUpdate, HandleMessage, Done, Told
<1>9. ASSUME \/ \E t \in Trans : Fold(t) \/ \E rows \in SUBSET ShownOf(t) : Check(t, rows)
             \/ \E p \in Parts : EditClicked(p) \/ RuntimeFinish(p)
             \/ \E n \in Counts : TypeCount(n)
             \/ CloseDialog \/ UNCHANGED vars
      PROVE  G
  BY <1>1, <1>9 DEF Fold, Check, EditClicked, RuntimeFinish, TypeCount, CloseDialog, vars
<1> HIDE DEF G, TypeInv, TypeOK
<1>10. G
  BY <1>4, <1>5, <1>6, <1>7, <1>8, <1>9 DEF Next
<1> QED BY <1>10 DEF G

(* Steps other than the answers to a list, a removal and an update leave the  *)
(* table and the rows of removals alone, and what is late of a request.      *)
LEMMA TableStays ==
    ASSUME [Next]_vars
    PROVE  \/ \E c \in Connections : HandleList(c) \/ HandleRemove(c) \/ HandleUpdate(c)
           \/ /\ UNCHANGED <<table, removed, overtaken>>
              /\ \/ UNCHANGED late
                 \/ \E c \in Connections : Done(c)
BY DEF Next, vars, pageState, history, marks, Query, UpdateRetryCount, DeleteAll, ChangePage,
       CompensationClicked, ServeList, ServeRemove, ServeUpdate, ServeCompensation, Lose,
       HandleMessage, Check, Fold, EditClicked, RuntimeFinish, TypeCount, CloseDialog

LEMMA RemovedTable ==
    ASSUME RemovedInv, [Next]_vars
    PROVE  /\ table'.null => \A p \in Parts : ~ Shown(p)'
           /\ OnlyALateListShowsRemoved'
           /\ removed' \cap stored' = {}
<1> USE DEF RemovedInv, RemovedOK, OnlyALateListShowsRemoved, TypeInv, TypeOK
<1>1. stored' \subseteq stored
  BY ServerSteps DEF ServerMoves
<1>2. CASE UNCHANGED <<table, removed, overtaken>>
  BY <1>1, <1>2 DEF Shown
<1>3. ASSUME NEW c \in Connections, HandleList(c)
      PROVE  /\ table'.null => \A p \in Parts : ~ Shown(p)'
             /\ OnlyALateListShowsRemoved' /\ removed' = removed
  BY <1>3 DEF HandleList, Arrived, NullTable, Table, Hidden, Shown
<1>4. ASSUME NEW c \in Connections, HandleRemove(c)
      PROVE  /\ table'.null => \A p \in Parts : ~ Shown(p)'
             /\ OnlyALateListShowsRemoved' /\ removed' \cap stored = {}
  <2>1. /\ removed' = removed \cup conn[c].ids /\ conn[c].ids \cap stored = {}
        /\ overtaken' = overtaken \ conn[c].ids
    BY <1>4 DEF HandleRemove, Arrived, Told
  <2>2. conn[c].ids \subseteq Parts
    BY DEF Requests
  <2>3. CASE table.null /\ UNCHANGED table
    BY <2>1, <2>2, <2>3 DEF Shown
  <2>4. CASE ~ table.null /\ table' = Without(conn[c].ids)
    BY <2>1, <2>2, <2>4 DEF Without, Table, Shown
  <2> QED BY <1>4, <2>1, <2>3, <2>4 DEF HandleRemove
<1>5. ASSUME NEW c \in Connections, HandleUpdate(c)
      PROVE  /\ table'.null => \A p \in Parts : ~ Shown(p)'
             /\ OnlyALateListShowsRemoved' /\ removed' = removed
  <2>1. removed' = removed /\ overtaken' = overtaken
    BY <1>5 DEF HandleUpdate, marks
  <2>2. \A p \in Parts : Shown(p)' => Shown(p)
    BY <1>5 DEF HandleUpdate, Table, Tables, Shown
  <2>3. table'.null => table.null
    BY <1>5 DEF HandleUpdate, Table
  <2> QED BY <2>1, <2>2, <2>3
<1> QED BY <1>1, <1>2, <1>3, <1>4, <1>5, TableStays

(* What a list under way has read is late once its removal was answered.     *)
LEMMA LateRows ==
    ASSUME RemovedInv, [Next]_vars, NEW c \in Connections, conn'[c].kind = "list",
           NEW p \in removed', conn'[c].rows[p] # NoCount
    PROVE  p \in late'[c]
<1> USE DEF RemovedInv, RemovedOK, TypeInv, TypeOK
<1>1. ASSUME NEW d \in Connections, HandleRemove(d)
      PROVE  p \in late'[c]
  <2>1. /\ removed' = removed \cup conn[d].ids
        /\ conn' = [conn EXCEPT ![d] = Idle]
        /\ late'[c] = late[c] \cup {q \in conn[d].ids : conn[c].rows[q] # NoCount}
    BY <1>1 DEF HandleRemove, Told
  <2>2. c # d /\ conn'[c] = conn[c]
    BY <2>1, IdleFacts
  <2> QED BY <2>1, <2>2
<1>2. CASE removed' = removed /\ UNCHANGED late
  <2>1. p \in Parts /\ p \notin stored
    BY <1>2
  <2>2. conn[c].kind = "list" /\ conn[c].rows[p] # NoCount => p \in late'[c]
    BY <1>2
  <2>3. ASSUME NEW k \in Pages, conn'[c] = ListRequest(k)
        PROVE  conn'[c].rows[p] = NoCount
    BY <2>1, <2>3 DEF ListRequest, Listing, Hidden
  <2>4. ASSUME NEW t, conn'[c] = WithParticipants(conn[c], t)
        PROVE  conn'[c].rows[p] = conn[c].rows[p]
    BY <2>1, <2>4 DEF WithParticipants, Listing
  <2>5. ConnStep
    BY ConnSteps
  <2> QED BY <2>2, <2>3, <2>4, <2>5 DEF ConnStep, Renewed, Answered
<1>3. ASSUME removed' = removed, NEW d \in Connections, Done(d)
      PROVE  p \in late'[c]
  <2>1. c # d /\ conn'[c] = conn[c] /\ late'[c] = late[c]
    BY <1>3, IdleFacts DEF Done
  <2> QED BY <1>3, <2>1
<1> HIDE DEF RemovedInv, RemovedOK, TypeInv, TypeOK
<1> QED BY <1>1, <1>2, <1>3, TableStays DEF HandleList, HandleUpdate, marks

LEMMA RemovedStep ==
    ASSUME RemovedInv, [Next]_vars
    PROVE  RemovedOK'
<1>1. stored' \subseteq stored
  BY ServerSteps DEF ServerMoves, RemovedInv
<1>2. ASSUME NEW c \in Connections, conn'[c].kind = "remove", conn'[c].state = "ok"
      PROVE  conn'[c].ids \cap stored' = {}
  BY <1>1, <1>2, RemovalServed DEF RemovedInv, RemovedOK
<1> QED BY <1>2, LateRows, RemovedTable DEF RemovedOK

(* 0.bundle.js:3331-3334: whatever users click, in whatever order the answers *)
(* arrive and whatever is lost, a row the user was told is deleted is shown   *)
(* only by a list that had read it before the user was told.                 *)
THEOREM RemovedStayHidden == Spec => []OnlyALateListShowsRemoved
<1>1. ASSUME Init
      PROVE  RemovedInv
  BY <1>1, TypeInit, InitFacts
     DEF Init, RemovedInv, RemovedOK, OnlyALateListShowsRemoved, Idle, Request
<1>2. RemovedInv /\ [Next]_vars => RemovedInv'
  BY TypeStep, RemovedStep DEF RemovedInv
<1>3. RemovedInv => OnlyALateListShowsRemoved
  BY DEF RemovedInv, RemovedOK
<1> QED BY <1>1, <1>2, <1>3, PTL DEF Spec

=============================================================================
