------------------------------ MODULE ListPage ------------------------------
(***************************************************************************)
(* Pages of the list of transactions: listByPage of the relational           *)
(* repository (MySQL) and of the MongoDB one, and the pager of the list page  *)
(* that asks for them, while the runtime begins and ends transactions.       *)
(*                                                                         *)
(* Transactions are listed in the order of their ids, as both databases       *)
(* return them from their primary index.  The conditions of a query only      *)
(* choose which transactions there are: store has those that satisfy them.   *)
(* The browser has one request under way at a time; Console has several, and  *)
(* what a list says of participants.                                        *)
(***************************************************************************)
EXTENDS Integers, FiniteSets

CONSTANTS
    Trans,         \* ids of transactions
    Sizes,         \* page sizes the pager offers
    Repository,    \* the repository the server uses
    MaxFaults      \* bound on lost requests

ASSUME TransAssumption == Trans \subseteq Nat /\ IsFiniteSet(Trans)
ASSUME SizesAssumption == Sizes \subseteq Nat \ {0}
ASSUME RepositoryAssumption == Repository \in {"mysql", "mongo"}
ASSUME MaxFaultsAssumption == MaxFaults \in Nat

VARIABLES
    store,     \* the transactions there are
    request,   \* the list request under way
    page,      \* paging.currentPage
    limit,     \* paging.limit
    count,     \* count, the total the pager goes by
    shown,     \* tableData
    begun,     \* transactions that began ever
    walk,      \* history: the pages a user turned, one after the other
    began,     \* history: transactions began during the walk
    ended,     \* history: transactions ended during the walk
    excused,   \* history: the page is as it is because of a race or a lost request
    faults

browser == <<page, limit, count, shown>>
history == <<walk, began, ended, excused>>
vars == <<store, request, browser, begun, history, faults>>

\* request.pc: the statement it waits for, or "answer".
Request(pc, k, n, rows, total) ==
    [pc |-> pc, page |-> k, size |-> n, rows |-> rows, total |-> total]
NoRequest == Request("none", 1, 1, {}, 0)

\* A walk: the page that comes next, what there was when it started, what was
\* seen once and more than once, and whether it reached the last page.
Walk(next, size, base, seen, twice, done) ==
    [next |-> next, size |-> size, base |-> base, seen |-> seen, twice |-> twice, done |-> done]
NoWalk == Walk(0, 1, {}, {}, {}, FALSE)

Init ==
    /\ store \in SUBSET Trans
    /\ begun = store
    /\ request = NoRequest
    /\ page = 1 /\ limit \in Sizes
    /\ count = 0 /\ shown = {}
    /\ walk = NoWalk /\ began = FALSE /\ ended = FALSE /\ excused = FALSE
    /\ faults = 0

-----------------------------------------------------------------------------
(* Page arithmetic.                                                         *)

Rank(t) == Cardinality({u \in store : u < t})

\* Slip: pages counted from 0.
SkipFromZero(k, n) == k * n

Skip(k, n) == (k - 1) * n

\* Slip: the limit of MongoDB for every repository.
LimitGrowing(k, n) == k * n

\* limit start,size; but skip((start - 1) * size).limit(start * size) for MongoDB.
Limit(k, n) == IF Repository = "mongo" THEN k * n ELSE n

Window(k, n) == {t \in store : Skip(k, n) <= Rank(t) /\ Rank(t) < Skip(k, n) + Limit(k, n)}

\* Slip: the incomplete last page is not counted.
PageCountFull(total, n) == total \div n

PageCount(total, n) == total \div n + (IF total % n = 0 THEN 0 ELSE 1)

-----------------------------------------------------------------------------
(* The server.                                                              *)

\* The first statement.  MongoDB answers an empty page without counting.
\* Finding the rows of page 1 starts a walk.
FindRows ==
    /\ request.pc = "find"
    /\ LET rows == Window(request.page, request.size)
           answered == Repository = "mongo" /\ rows = {}
       IN  request' = Request(IF answered THEN "answer" ELSE "count",
                              request.page, request.size, rows, 0)
    /\ \/ /\ request.page = 1
          /\ walk' = Walk(1, request.size, store, {}, {}, FALSE)
          /\ began' = FALSE /\ ended' = FALSE
       \/ /\ request.page # 1
          /\ UNCHANGED <<walk, began, ended>>
    /\ excused' = FALSE
    /\ UNCHANGED <<store, browser, begun, faults>>

\* The last statement counts the rows there are by now.
CountRows ==
    /\ request.pc = "count"
    /\ request' = Request("answer", request.page, request.size, request.rows, Cardinality(store))
    /\ UNCHANGED <<store, browser, begun, history, faults>>

Begin(t) ==
    /\ t \notin begun
    /\ store' = store \cup {t}
    /\ begun' = begun \cup {t}
    /\ began' = TRUE
    /\ excused' = (excused \/ request.pc = "count")
    /\ UNCHANGED <<request, browser, walk, ended, faults>>

End(t) ==
    /\ t \in store
    /\ store' = store \ {t}
    /\ ended' = TRUE
    /\ UNCHANGED <<request, browser, begun, walk, began, excused, faults>>

-----------------------------------------------------------------------------
(* The browser.                                                             *)

LastPage == IF count = 0 THEN 1 ELSE PageCount(count, limit)
Misplaced == page > LastPage

Waiting == request.pc = "none" /\ ~ Misplaced
Send(k, n) == request' = Request("find", k, n, {}, 0)

\* The button "search".
Query ==
    /\ Waiting
    /\ Send(page, limit)
    /\ UNCHANGED <<store, browser, begun, history, faults>>

ChangePage(k) ==
    /\ Waiting
    /\ k # page
    /\ page' = k
    /\ Send(k, limit)
    /\ UNCHANGED <<store, limit, count, shown, begun, history, faults>>

ChangeSize(n) ==
    /\ Waiting
    /\ n # limit
    /\ limit' = n
    /\ Send(page, n)
    /\ UNCHANGED <<store, page, count, shown, begun, history, faults>>

\* The pager leaves a page beyond the last one, and the watcher asks again.
Correct ==
    /\ request.pc = "none" /\ Misplaced
    /\ page' = LastPage
    /\ Send(LastPage, limit)
    /\ UNCHANGED <<store, limit, count, shown, begun, history, faults>>

\* The walk goes on if r is its next page.
TurnedTo(r) ==
    IF r.page = walk.next /\ r.size = walk.size
      THEN Walk(r.page + 1, r.size, walk.base, walk.seen \cup r.rows,
                walk.twice \cup (walk.seen \cap r.rows),
                walk.done \/ r.page >= PageCount(r.total, r.size))
      ELSE NoWalk

\* Slip: the total of the answer is not kept.
HandleAnswerKeepsCount ==
    /\ request.pc = "answer"
    /\ count' = IF count = 0 THEN request.total ELSE count
    /\ shown' = request.rows
    /\ request' = NoRequest
    /\ walk' = TurnedTo(request)
    /\ UNCHANGED <<store, page, limit, begun, began, ended, excused, faults>>

HandleAnswer ==
    /\ request.pc = "answer"
    /\ count' = request.total
    /\ shown' = request.rows
    /\ request' = NoRequest
    /\ walk' = TurnedTo(request)
    /\ UNCHANGED <<store, page, limit, begun, began, ended, excused, faults>>

\* The request or its answer is lost: a message, and nothing changes.
Lose ==
    /\ faults < MaxFaults
    /\ request.pc # "none"
    /\ faults' = faults + 1
    /\ request' = NoRequest
    /\ excused' = TRUE
    /\ UNCHANGED <<store, browser, begun, walk, began, ended>>

Next ==
    \/ FindRows \/ CountRows \/ HandleAnswer \/ Correct \/ Query \/ Lose
    \/ \E t \in Trans : Begin(t) \/ End(t)
    \/ \E k \in 1..LastPage : ChangePage(k)
    \/ \E n \in Sizes : ChangeSize(n)

Spec == Init /\ [][Next]_vars

-----------------------------------------------------------------------------
(* Type correctness.                                                        *)
TypeOK ==
    /\ store \subseteq begun /\ begun \subseteq Trans
    /\ request \in [pc : {"none", "find", "count", "answer"}, page : Nat \ {0}, size : Nat \ {0},
                    rows : SUBSET Trans, total : 0..Cardinality(Trans)]
    /\ page \in Nat \ {0} /\ limit \in Sizes
    /\ count \in 0..Cardinality(Trans)
    /\ shown \subseteq Trans
    /\ walk \in [next : Nat, size : Nat \ {0}, base : SUBSET Trans, seen : SUBSET Trans,
                 twice : SUBSET Trans, done : BOOLEAN]
    /\ began \in BOOLEAN /\ ended \in BOOLEAN /\ excused \in BOOLEAN
    /\ faults \in 0..MaxFaults

(* MongodbTemplateService.java:84-85 "page start", "page size": a page has at *)
(* most as many rows as were asked for.                                     *)
PageFits == request.pc \in {"count", "answer"} => Cardinality(request.rows) <= request.size

(* Nobody sees a transaction on two pages turned one after the other, unless  *)
(* transactions began in between and moved rows to later pages.             *)
NoneTwice == ~ began => walk.twice = {}

(* Whoever turns the pages from the first to the last, as the pager says      *)
(* which that is, is shown every transaction there was when the first was     *)
(* read, unless transactions ended in between and moved rows to earlier pages. *)
WalkSeesAll == walk.done /\ ~ ended => walk.base \subseteq walk.seen

(* Beside a total that says there are transactions, the table is empty only   *)
(* when one began between the two statements, or a request was lost: from a   *)
(* page beyond the last one, the pager goes back and asks again.            *)
NoEmptyPage == Waiting /\ shown = {} /\ count > 0 => excused

=============================================================================
