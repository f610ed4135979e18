------------------------------- MODULE Console -------------------------------
(***************************************************************************)
(* The list page of the browser (static/0.bundle.js, webpack module 126,    *)
(* lines 3133-3415, and its template) against a server reduced to what the  *)
(* page sees of it.  Every click sends a request and returns; the answer's  *)
(* handler runs whenever the answer arrives, in any order when the browser  *)
(* uses several connections, and works on the page as it is by then.        *)
(*                                                                         *)
(* The transactions of a page are fixed here: participants come to an end,  *)
(* transactions stay listed (as rows marked deleted do).                    *)
(***************************************************************************)
EXTENDS Integers

CONSTANTS
    Trans, Parts,
    TransOf,           \* participant id -> its transaction
    Pages,             \* page numbers
    PageOf,            \* transaction -> the page it is listed on
    Counts,            \* retry counts users type in
    RetryMax,          \* the server's limit for them
    Connections,       \* connections the browser uses at a time
    NoPart             \* no row was clicked yet

ASSUME TransOfAssumption == TransOf \in [Parts -> Trans]
ASSUME PageOfAssumption == PageOf \in [Trans -> Pages]
ASSUME CountsAssumption == Counts \subseteq Nat /\ RetryMax \in Nat
ASSUME NoPartAssumption == NoPart \notin Parts

VARIABLES
    stored,       \* server: the participants that have a row
    retry,        \* server: their retry counts
    conn,         \* the request on each connection
    paging,       \* page: paging.currentPage
    table,        \* page: tableData
    selected,     \* page: selectedRowMap, transaction -> selected participants
    currentRow,   \* page: currentRow.participantId
    form,         \* page: form.newRetryCount
    dialog,       \* page: dialogFormVisible
    checked,      \* Element UI: the rows whose box is ticked
    forgotten,    \* history: rows whose tick went with its table, in transactions
                  \* where no box was ticked since
    held,         \* history: the counts each row had
    removed,      \* history: rows the user was told are deleted
    late,         \* history: the rows the list on a connection had read when
                  \* their removal was answered
    overtaken,    \* history: those rows of the list that filled the table
    hasty         \* history: the dialog was used while an update was under way

serverState == <<stored, retry, held>>
pageState == <<paging, table, selected, currentRow, form, dialog, checked>>
marks == <<forgotten, removed, overtaken, hasty>>
history == <<forgotten, removed, late, overtaken, hasty>>
vars == <<serverState, conn, pageState, history>>

NoCount == -1     \* an empty input field; the count of a row that is not shown

Hidden == [p \in Parts |-> NoCount]
Table(trans, counts) == [null |-> FALSE, trans |-> trans, retry |-> counts]
EmptyTable == Table({}, Hidden)
NullTable  == [null |-> TRUE, trans |-> {}, retry |-> Hidden]
NothingSelected == [t \in Trans |-> {}]

Shown(p) == table.retry[p] # NoCount
ShownOf(t) == {p \in Parts : TransOf[p] = t /\ Shown(p)}
OnPage(k) == {t \in Trans : PageOf[t] = k}

\* A request about some rows, with its count if it has one.
Request(kind, ids, count) ==
    [kind |-> kind, state |-> "sent", ids |-> ids, count |-> count,
     page |-> 0, todo |-> {}, rows |-> Hidden]
\* A request for a page; the transactions not read yet, and what was read.
Listing(k, state, todo, rows) ==
    [kind |-> "list", state |-> state, ids |-> {}, count |-> NoCount,
     page |-> k, todo |-> todo, rows |-> rows]
Idle == Request("idle", {}, NoCount)
\* What the page learns of a request that failed: that it did.
Failed == Request("failed", {}, NoCount)

Init ==
    /\ stored = Parts
    /\ retry = [p \in Parts |-> 0]
    /\ conn = [c \in Connections |-> Idle]
    /\ paging \in Pages
    /\ table = EmptyTable
    /\ selected = NothingSelected
    /\ currentRow = NoPart
    /\ form = NoCount
    /\ dialog = FALSE
    /\ checked = {}
    /\ forgotten = {}
    /\ held = [p \in Parts |-> {0}]
    /\ removed = {}
    /\ late = [c \in Connections |-> {}]
    /\ overtaken = {}
    /\ hasty = FALSE

-----------------------------------------------------------------------------
(* Clicks.  The dialog is modal: while it is open only its own fields and    *)
(* buttons can be used.                                                     *)

Send(c, request) ==
    /\ conn[c].kind = "idle"
    /\ conn' = [conn EXCEPT ![c] = request]

ListRequest(k) == Listing(k, "sent", OnPage(k), Hidden)
UpdateUnderWay == \E c \in Connections : conn[c].kind = "update"

\* The button "search".
Query(c) ==
    /\ ~ dialog
    /\ Send(c, ListRequest(paging))
    /\ UNCHANGED <<serverState, pageState, history>>

\* handleCurrentChange, and the watcher of paging that follows it.
ChangePage(c, k) ==
    /\ ~ dialog
    /\ paging' = k /\ k # paging
    /\ Send(c, ListRequest(k))
    /\ UNCHANGED <<serverState, table, selected, currentRow, form, dialog, checked, history>>

\* The user ticks boxes of one transaction: handleChange.
Check(t, rows) ==
    /\ ~ dialog
    /\ checked' = {p \in checked : TransOf[p] # t} \cup rows
    /\ checked' # checked
    /\ selected' = [selected EXCEPT ![t] = rows]
    /\ forgotten' = {p \in forgotten : TransOf[p] # t}
    /\ UNCHANGED <<serverState, conn, paging, table, currentRow, form, dialog,
                   removed, late, overtaken, hasty>>

\* The user folds the row of a transaction: its nested table is destroyed,
\* and the ticks in it are gone when the row is unfolded again.
Fold(t) ==
    /\ ~ dialog
    /\ \E p \in checked : TransOf[p] = t
    /\ checked' = {p \in checked : TransOf[p] # t}
    /\ forgotten' = forgotten \cup {p \in checked : TransOf[p] = t}
    /\ UNCHANGED <<serverState, conn, paging, table, selected, currentRow, form, dialog,
                   removed, late, overtaken, hasty>>

EditClicked(p) ==
    /\ Shown(p) /\ ~ dialog
    /\ dialog' = TRUE
    /\ currentRow' = p
    /\ hasty' = (hasty \/ UpdateUnderWay)
    /\ UNCHANGED <<serverState, conn, paging, table, selected, form, checked, forgotten, removed,
                   late, overtaken>>

TypeCount(n) ==
    /\ dialog /\ form # n
    /\ form' = n
    /\ hasty' = (hasty \/ UpdateUnderWay)
    /\ UNCHANGED <<serverState, conn, paging, table, selected, currentRow, dialog, checked,
                   forgotten, removed, late, overtaken>>

CloseDialog ==
    /\ dialog
    /\ dialog' = FALSE
    /\ UNCHANGED <<serverState, conn, paging, table, selected, currentRow, form, checked, history>>

UpdateRetryCount(c) ==
    /\ dialog
    /\ Send(c, Request("update", {currentRow}, form))
    /\ UNCHANGED <<serverState, pageState, history>>

CompensationClicked(c, p) ==
    /\ Shown(p) /\ ~ dialog
    /\ currentRow' = p
    /\ Send(c, Request("compensation", {}, NoCount))
    /\ hasty' = (hasty \/ UpdateUnderWay)
    /\ UNCHANGED <<serverState, paging, table, selected, form, dialog, checked, forgotten, removed,
                   late, overtaken>>

\* The groupIds that deleteAll collects.
RemovalIds == UNION {selected[t] : t \in table.trans}

\* The button "delete the ticked rows".  With a null table forEach throws
\* before anything is sent; with nothing selected an empty list is sent.
DeleteAll(c) ==
    /\ ~ dialog /\ ~ table.null
    /\ Send(c, Request("remove", RemovalIds, NoCount))
    /\ UNCHANGED <<serverState, pageState, history>>

-----------------------------------------------------------------------------
(* The server, one step per statement where a statement is seen by a list.  *)

Working(c, kind) == conn[c].kind = kind /\ conn[c].state = "sent"
Served(c) == conn' = [conn EXCEPT ![c].state = "ok"]
Refused(c) == conn' = [conn EXCEPT ![c] = Failed]

WithParticipants(r, t) ==
    Listing(r.page, IF r.todo \subseteq {t} THEN "ok" ELSE "sent", r.todo \ {t},
            [p \in Parts |-> IF TransOf[p] = t /\ p \in stored THEN retry[p] ELSE r.rows[p]])

\* listByPage reads the participants of one transaction after the other, and
\* answers with the last.
ServeList(c) ==
    /\ Working(c, "list")
    /\ \/ \E t \in conn[c].todo : conn' = [conn EXCEPT ![c] = WithParticipants(@, t)]
       \/ conn[c].todo = {} /\ Served(c)
    /\ UNCHANGED <<serverState, pageState, history>>

ServeRemove(c) ==
    /\ Working(c, "remove")
    /\ \/ conn[c].ids = {} /\ Refused(c) /\ UNCHANGED stored
       \/ conn[c].ids # {} /\ Served(c) /\ stored' = stored \ conn[c].ids
    /\ UNCHANGED <<retry, held, pageState, history>>

\* Slip: an empty field passes.
AcceptsBlank(n) == ~ (RetryMax < n)

Accepts(n) == n # NoCount /\ ~ (RetryMax < n)

ServeUpdate(c) ==
    /\ Working(c, "update")
    /\ \/ /\ ~ Accepts(conn[c].count)
          /\ Refused(c)
          /\ UNCHANGED <<retry, held>>
       \/ /\ Accepts(conn[c].count)
          /\ Served(c)
          /\ LET found == conn[c].ids \cap stored IN
               /\ retry' = [p \in Parts |-> IF p \in found THEN conn[c].count ELSE retry[p]]
               /\ held' = [p \in Parts |-> IF p \in found THEN held[p] \cup {conn[c].count} ELSE held[p]]
    /\ UNCHANGED <<stored, pageState, history>>

ServeCompensation(c) ==
    /\ Working(c, "compensation")
    /\ Served(c)
    /\ UNCHANGED <<serverState, pageState, history>>

\* The request or its answer is lost, before or after the server did its part.
Lose(c) ==
    /\ conn[c].kind \notin {"idle", "failed"}
    /\ Refused(c)
    /\ UNCHANGED <<serverState, pageState, history>>

\* The runtime finishes a participant and deletes its row.
RuntimeFinish(p) ==
    /\ p \in stored
    /\ stored' = stored \ {p}
    /\ UNCHANGED <<retry, held, conn, pageState, history>>

-----------------------------------------------------------------------------
(* Answers.                                                                 *)

Arrived(c, kind) == conn[c].kind = kind /\ conn[c].state = "ok"
Done(c) ==
    /\ conn' = [conn EXCEPT ![c] = Idle]
    /\ late' = [late EXCEPT ![c] = {}]

\* A removal is told to the user while lists that read its rows are under way.
Told(c) ==
    /\ removed' = removed \cup conn[c].ids
    /\ conn' = [conn EXCEPT ![c] = Idle]
    /\ late' = [d \in Connections |->
                   late[d] \cup {p \in conn[c].ids : conn[d].rows[p] # NoCount}]
    /\ overtaken' = overtaken \ conn[c].ids

\* A page without transactions has no dataList, and tableData becomes null.
\* The nested tables go with the old rows, and their ticks with them; nothing
\* tells the page.
HandleList(c) ==
    /\ Arrived(c, "list")
    /\ table' = IF OnPage(conn[c].page) = {}
                  THEN NullTable
                  ELSE Table(OnPage(conn[c].page), conn[c].rows)
    /\ checked' = {}
    /\ forgotten' = forgotten \cup checked
    /\ overtaken' = late[c]
    /\ Done(c)
    /\ UNCHANGED <<serverState, paging, selected, currentRow, form, dialog, removed, hasty>>

Without(ids) ==
    Table(table.trans, [p \in Parts |-> IF p \in ids THEN NoCount ELSE table.retry[p]])

\* Slip: the map of selected rows is kept.
HandleRemoveKeepsSelection(c) ==
    /\ Arrived(c, "remove")
    /\ table' = Without(conn[c].ids)
    /\ checked' = {}
    /\ forgotten' = {}
    /\ UNCHANGED selected
    /\ Told(c)
    /\ UNCHANGED <<serverState, paging, currentRow, form, dialog, hasty>>

\* Slip: the rows are left in the table.
HandleRemoveKeepsRows(c) ==
    /\ Arrived(c, "remove")
    /\ selected' = NothingSelected
    /\ forgotten' = {}
    /\ Told(c)
    /\ UNCHANGED <<serverState, paging, table, checked, currentRow, form, dialog, hasty>>

\* filterData gives every row a new list of participants, which clears the
\* ticks; with a null table it throws before the selection is reset.
HandleRemove(c) ==
    /\ Arrived(c, "remove")
    /\ \/ table.null /\ UNCHANGED <<table, selected, checked, forgotten>>
       \/ /\ ~ table.null
          /\ table' = Without(conn[c].ids)
          /\ selected' = NothingSelected
          /\ checked' = {}
          /\ forgotten' = {}
    /\ Told(c)
    /\ UNCHANGED <<serverState, paging, currentRow, form, dialog, hasty>>

\* Slip: every row of the transaction gets the new count.
HandleUpdateOfTransaction(c) ==
    /\ Arrived(c, "update")
    /\ table' = Table(table.trans, [p \in Parts |->
                   IF p \in ShownOf(TransOf[currentRow]) THEN form ELSE table.retry[p]])
    /\ dialog' = FALSE
    /\ Done(c)
    /\ UNCHANGED <<serverState, paging, selected, currentRow, form, checked, marks>>

\* The row clicked last gets the count in the form, as both are by now.
HandleUpdate(c) ==
    /\ Arrived(c, "update")
    /\ \/ table.null /\ UNCHANGED <<table, dialog>>
       \/ /\ ~ table.null
          /\ table' = IF Shown(currentRow)
                         THEN Table(table.trans, [table.retry EXCEPT ![currentRow] = form])
                         ELSE table
          /\ dialog' = FALSE
    /\ Done(c)
    /\ UNCHANGED <<serverState, paging, selected, currentRow, form, checked, marks>>

\* An error, or a compensation text, is only displayed.
HandleMessage(c) ==
    /\ \/ Arrived(c, "compensation")
       \/ conn[c].kind = "failed"
    /\ Done(c)
    /\ UNCHANGED <<serverState, pageState, marks>>

Next ==
    \/ \E c \in Connections :
         \/ Query(c) \/ UpdateRetryCount(c) \/ DeleteAll(c)
         \/ \E k \in Pages : ChangePage(c, k)
         \/ \E p \in Parts : CompensationClicked(c, p)
         \/ ServeList(c) \/ ServeRemove(c) \/ ServeUpdate(c) \/ ServeCompensation(c) \/ Lose(c)
         \/ HandleList(c) \/ HandleRemove(c) \/ HandleUpdate(c) \/ HandleMessage(c)
    \/ \E t \in Trans : \E rows \in SUBSET ShownOf(t) : Check(t, rows)
    \/ \E t \in Trans : Fold(t)
    \/ \E p \in Parts : EditClicked(p) \/ RuntimeFinish(p)
    \/ \E n \in Counts : TypeCount(n)
    \/ CloseDialog

Spec == Init /\ [][Next]_vars

-----------------------------------------------------------------------------
CountRange == Counts \cup {0, NoCount}
Allowed == {n \in Counts : n <= RetryMax} \cup {0}

Requests == [kind : {"idle", "failed", "list", "remove", "update", "compensation"},
             state : {"sent", "ok"}, page : Pages \cup {0}, ids : SUBSET Parts,
             count : CountRange, todo : SUBSET Trans, rows : [Parts -> CountRange]]
Tables == [null : BOOLEAN, trans : SUBSET Trans, retry : [Parts -> CountRange]]

(* Type correctness of the page and of its requests.                        *)
TypeOK ==
    /\ stored \subseteq Parts
    /\ retry \in [Parts -> Allowed]
    /\ held \in [Parts -> SUBSET Allowed]
    /\ conn \in [Connections -> Requests]
    /\ paging \in Pages
    /\ table \in Tables
    /\ selected \in [Trans -> SUBSET Parts]
    /\ currentRow \in Parts \cup {NoPart}
    /\ form \in CountRange
    /\ dialog \in BOOLEAN
    /\ checked \subseteq Parts /\ forgotten \subseteq Parts /\ removed \subseteq Parts
    /\ late \in [Connections -> SUBSET Parts] /\ overtaken \subseteq Parts
    /\ hasty \in BOOLEAN

(* 0.bundle.js:4777, the button reads "delete the ticked rows": what it      *)
(* would send is what is ticked.  Refuted: rows ticked before the table was   *)
(* replaced or their transaction was folded are named as well.               *)
RemovesWhatIsTicked == RemovalIds = checked

(* What does hold: every ticked row would be named, and else only a row that  *)
(* stood ticked when its table went, in a transaction where no box was        *)
(* ticked since and no removal was answered.                                 *)
RemovesOnlyWhatWasTicked ==
    /\ checked \subseteq RemovalIds
    /\ RemovalIds \subseteq checked \cup forgotten

(* 0.bundle.js:3331-3334: the user is told that the rows are deleted, and    *)
(* they leave the table; they stay away from it.  Refuted: a list that read   *)
(* them before may be answered after that.                                   *)
RemovedRowsStayHidden == \A p \in removed : ~ Shown(p)

(* What does hold, in any order of the answers: a row the user was told is    *)
(* deleted is shown only by a list that had read it when the user was told,   *)
(* so that no list asked for since then brings it back.                      *)
OnlyALateListShowsRemoved == \A p \in removed : Shown(p) => p \in overtaken

(* README.md:28-30: the retry count listed for a row is one the row has or    *)
(* had in the repository, unless the row was finished meanwhile.             *)
ListedCountWasStored ==
    \A p \in Parts : Shown(p) => table.retry[p] \in held[p] \/ p \notin stored

(* The same for users who leave the rows and the dialog alone until their    *)
(* update is answered.                                                       *)
ListedCountWasStoredForPatientUsers == ~ hasty => ListedCountWasStored

=============================================================================
