--------------------------- MODULE ListPageProofs ---------------------------
(***************************************************************************)
(* Theorems about ListPage, for any finite set of transactions and any page  *)
(* sizes.                                                                   *)
(***************************************************************************)
EXTENDS ListPage, FiniteSetTheorems, TLAPS

-----------------------------------------------------------------------------
(* Ranks and pages.                                                         *)

LEMMA FiniteStores ==
    ASSUME NEW S \in SUBSET Trans
    PROVE  IsFiniteSet(S) /\ Cardinality(S) \in 0..Cardinality(Trans)
<1>1. IsFiniteSet(S) /\ Cardinality(S) <= Cardinality(Trans)
  BY TransAssumption, FS_Subset
<1>2. Cardinality(S) \in Nat /\ Cardinality(Trans) \in Nat
  BY <1>1, TransAssumption, FS_CardinalityType
<1> QED BY <1>1, <1>2

LEMMA RankType ==
    ASSUME store \subseteq Trans, NEW t
    PROVE  /\ Rank(t) \in Nat
           /\ t \in store => Rank(t) < Cardinality(store)
<1> DEFINE below == {u \in store : u < t}
<1>1. IsFiniteSet(store) /\ IsFiniteSet(below) /\ below \subseteq store
  BY FiniteStores
<1>2. Cardinality(below) \in Nat /\ Cardinality(store) \in Nat
  BY <1>1, FS_CardinalityType
<1>3. ASSUME t \in store
      PROVE  Cardinality(below) < Cardinality(store)
  <2>1. t \notin below
    BY <1>3, TransAssumption
  <2> HIDE DEF below
  <2> QED BY <1>1, <1>2, <1>3, <2>1, FS_Subset
<1> QED BY <1>2, <1>3 DEF Rank

LEMMA RankLess ==
    ASSUME store \subseteq Trans, NEW t \in store, NEW u \in store, t < u
    PROVE  Rank(t) < Rank(u)
<1> DEFINE belowT == {v \in store : v < t}
           belowU == {v \in store : v < u}
<1>1. belowT \subseteq belowU /\ t \in belowU /\ t \notin belowT
  <2>1. \A v \in store : v \in Nat
    BY TransAssumption
  <2>2. \A v \in store : v < t => v < u
    BY <2>1
  <2>3. ~ (t < t)
    BY <2>1
  <2> QED BY <2>2, <2>3
<1>2. IsFiniteSet(belowU) /\ Cardinality(belowU) \in Nat /\ Cardinality(belowT) \in Nat
  <2>1. belowT \in SUBSET Trans /\ belowU \in SUBSET Trans
    OBVIOUS
  <2> QED BY <2>1, FiniteStores
<1> HIDE DEF belowT, belowU
<1>3. Cardinality(belowT) < Cardinality(belowU)
  BY <1>1, <1>2, FS_Subset
<1> QED BY <1>3 DEF Rank, belowT, belowU

(* At most n rows have one of n consecutive ranks.                           *)
LEMMA RankFew ==
    ASSUME store \subseteq Trans, NEW T \in SUBSET store, NEW a \in Nat, NEW n \in Nat,
           \A t \in T : a <= Rank(t) /\ Rank(t) < a + n
    PROVE  Cardinality(T) <= n
<1> DEFINE f == [t \in T |-> Rank(t)]
           I == a..(a + n - 1)
<1>1. f \in [T -> I]
  BY RankType
<1>2. \A t, u \in T : f[t] = f[u] => t = u
  BY RankLess, RankType, TransAssumption
<1>3. f \in Injection(T, I)
  BY <1>1, <1>2, Zenon DEF Injection, IsInjective
<1>4. IsFiniteSet(I) /\ Cardinality(I) = n
  BY FS_Interval
<1> HIDE DEF f, I
<1> QED BY <1>3, <1>4, FS_Injection

LEMMA RankGrows ==
    ASSUME store \subseteq store', store' \subseteq Trans, NEW t
    PROVE  Rank(t) <= Rank(t)'
<1> DEFINE before == {u \in store : u < t}
           after == {u \in store' : u < t}
<1>1. before \subseteq after /\ IsFiniteSet(after)
  BY FiniteStores
<1>2. Cardinality(before) <= Cardinality(after)
  BY <1>1, FS_Subset
<1> QED BY <1>2 DEF Rank

LEMMA RankShrinks ==
    ASSUME store' \subseteq store, store \subseteq Trans, NEW t
    PROVE  Rank(t)' \in Nat /\ Rank(t)' <= Rank(t)
<1> DEFINE before == {u \in store : u < t}
           after == {u \in store' : u < t}
<1>1. after \subseteq before /\ IsFiniteSet(before)
  BY FiniteStores
<1>2. Cardinality(after) <= Cardinality(before)
  BY <1>1, FS_Subset
<1>3. after \in SUBSET Trans
  OBVIOUS
<1>4. Cardinality(after) \in Nat
  BY <1>3, FiniteStores
<1> QED BY <1>2, <1>4 DEF Rank

(* A page beyond which there are rows is not the last one.                   *)
LEMMA PagesCover ==
    ASSUME NEW total \in Nat, NEW n \in Nat \ {0}, NEW k \in Nat, k * n < total
    PROVE  k < PageCount(total, n)
<1>1. total \div n \in Nat
  BY SMTT(20)
<1>2. CASE total % n = 0
  <2>1. total \div n <= k => total <= k * n
    BY <1>2, SMTT(20)
  <2>2. k * n \in Nat
    OBVIOUS
  <2> QED BY <1>1, <1>2, <2>1, <2>2 DEF PageCount
<1>3. CASE total % n # 0
  <2>1. total \div n < k => total < k * n
    BY SMTT(20)
  <2>2. k * n \in Nat
    OBVIOUS
  <2> QED BY <1>1, <1>3, <2>1, <2>2 DEF PageCount
<1> QED BY <1>2, <1>3

(* There are no more pages than hold the rows.                               *)
LEMMA PagesSuffice ==
    ASSUME NEW total \in Nat, NEW n \in Nat \ {0}, NEW m \in Nat, total <= m * n
    PROVE  PageCount(total, n) <= m
<1>1. total \div n \in Nat /\ m * n \in Nat
  BY SMTT(20)
<1>2. CASE total % n = 0
  <2>1. total \div n > m => total > m * n
    BY <1>2, SMTT(20)
  <2> QED BY <1>1, <1>2, <2>1 DEF PageCount
<1>3. CASE total % n # 0
  <2>1. total \div n >= m => total > m * n
    BY <1>3, SMTT(20)
  <2> QED BY <1>1, <1>3, <2>1 DEF PageCount
<1> QED BY <1>2, <1>3

(* With transactions there are pages, and without there are none.            *)
LEMMA PageCountType ==
    ASSUME NEW total \in Nat, NEW n \in Nat \ {0}
    PROVE  /\ PageCount(total, n) \in Nat
           /\ total # 0 => PageCount(total, n) # 0
<1>1. total \div n \in Nat
  BY SMTT(20)
<1>2. PageCount(total, n) \in Nat
  BY <1>1 DEF PageCount
<1>3. 0 * n = 0
  OBVIOUS
<1>4. total # 0 => 0 < PageCount(total, n)
  BY <1>3, PagesCover
<1> QED BY <1>2, <1>4

(* A page starts where the one before it ends, and holds at least n rows.    *)
LEMMA PageEdges ==
    ASSUME NEW k \in Nat \ {0}, NEW n \in Nat \ {0}
    PROVE  /\ Skip(k, n) \in Nat /\ Limit(k, n) \in Nat
           /\ Skip(k, n) + n = k * n
           /\ n <= Limit(k, n)
<1>1. PICK j \in Nat : k = j + 1
  <2>1. k - 1 \in Nat /\ k = (k - 1) + 1
    OBVIOUS
  <2> QED BY <2>1
<1>2. k * n = j * n + n /\ j * n \in Nat /\ k - 1 = j
  BY <1>1
<1> QED BY <1>2 DEF Skip, Limit

(* Every rank below the number of transactions is the rank of one.           *)
LEMMA RanksFilled ==
    ASSUME store \subseteq Trans, NEW r \in Nat, r < Cardinality(store)
    PROVE  \E t \in store : Rank(t) = r
<1> DEFINE f == [t \in store |-> Rank(t)]
           I == 0..(Cardinality(store) - 1)
<1>1. IsFiniteSet(store) /\ Cardinality(store) \in Nat
  BY FiniteStores, FS_CardinalityType
<1>2. IsFiniteSet(I) /\ Cardinality(I) = Cardinality(store)
  <2> DEFINE c == Cardinality(store)
  <2>1. c \in Nat /\ r \in Nat /\ r < c
    BY <1>1
  <2> HIDE DEF c
  <2>2. c - 1 \in Int /\ 0 <= c - 1 /\ c - 1 - 0 + 1 = c
    BY <2>1
  <2>3. IsFiniteSet(0..(c - 1)) /\ Cardinality(0..(c - 1)) = c
    BY <2>1, <2>2, FS_Interval
  <2> QED BY <2>3 DEF c
<1>3. f \in [store -> I]
  BY <1>1, RankType
<1>4. \A t, u \in store : f[t] = f[u] => t = u
  BY RankLess, RankType, TransAssumption
<1>5. f \in Injection(store, I)
  BY <1>3, <1>4, Zenon DEF Injection, IsInjective
<1>6. r \in I
  BY <1>1
<1> HIDE DEF f, I
<1>7. f \in Surjection(store, I)
  BY <1>1, <1>2, <1>5, FS_Injection
<1>8. PICK t \in store : f[t] = r
  BY <1>6, <1>7 DEF Surjection
<1> QED BY <1>8 DEF f

(* A page misses no row between its first and the first of the next page,    *)
(* and is not empty where there are rows.                                   *)
LEMMA WindowCovers ==
    ASSUME store \subseteq Trans, NEW k \in Nat \ {0}, NEW n \in Nat \ {0}, NEW t \in store,
           (k - 1) * n <= Rank(t)
    PROVE  /\ t \in Window(k, n) \/ k * n <= Rank(t)
           /\ Window(k, n) # {}
<1>1. Rank(t) \in Nat /\ Rank(t) < Cardinality(store) /\ Cardinality(store) \in Nat
  BY RankType, FiniteStores, FS_CardinalityType
<1>2. Skip(k, n) \in Nat /\ Limit(k, n) \in Nat /\ Skip(k, n) + n = k * n /\ n <= Limit(k, n)
  BY PageEdges
<1>3. Skip(k, n) <= Rank(t)
  BY DEF Skip
<1>4. k * n \in Nat
  OBVIOUS
<1>5. t \in Window(k, n) \/ k * n <= Rank(t)
  BY <1>1, <1>2, <1>3, <1>4 DEF Window
<1>6. PICK u \in store : Rank(u) = Skip(k, n)
  BY <1>1, <1>2, <1>3, RanksFilled
<1>7. u \in Window(k, n)
  BY <1>2, <1>6 DEF Window
<1> QED BY <1>5, <1>7

-----------------------------------------------------------------------------
(* Type correctness.                                                        *)

(* The pager stands on a page that can be, and so does every request.        *)
LEMMA LastPageType ==
    ASSUME TypeOK
    PROVE  LastPage \in Nat \ {0}
<1>1. count \in Nat /\ limit \in Nat \ {0}
  BY FiniteStores, SizesAssumption DEF TypeOK
<1> QED BY <1>1, PageCountType DEF LastPage

(* Steps of ListPage preserve the types of its variables.                    *)
LEMMA TypesKept ==
    ASSUME TypeOK, [Next]_vars
    PROVE  TypeOK'
<1> USE DEF TypeOK, Request, Walk, NoRequest, NoWalk, browser, history
<1>1. \A n \in Sizes : n \in Nat \ {0}
  BY SizesAssumption
<1>2. LastPage \in Nat \ {0}
  BY LastPageType
<1>3. 0 \in 0..Cardinality(Trans)
  BY TransAssumption, FS_CardinalityType
<1>4. CASE FindRows
  <2>1. Window(request.page, request.size) \subseteq Trans
    BY DEF Window
  <2>2. request' \in [pc : {"none", "find", "count", "answer"}, page : Nat \ {0},
                      size : Nat \ {0}, rows : SUBSET Trans, total : 0..Cardinality(Trans)]
    BY <1>3, <1>4, <2>1 DEF FindRows
  <2>3. CASE request.page = 1 /\ walk' = Walk(1, request.size, store, {}, {}, FALSE)
             /\ began' = FALSE /\ ended' = FALSE
    BY <1>4, <2>2, <2>3 DEF FindRows
  <2>4. CASE UNCHANGED <<walk, began, ended>>
    BY <1>4, <2>2, <2>4 DEF FindRows
  <2> QED BY <1>4, <2>3, <2>4 DEF FindRows
<1>5. CASE CountRows
  <2>1. Cardinality(store) \in 0..Cardinality(Trans)
    BY FiniteStores
  <2> QED BY <1>5, <2>1 DEF CountRows
<1>6. CASE HandleAnswer
  BY <1>3, <1>6 DEF HandleAnswer, TurnedTo
<1>7. CASE Correct
  BY <1>1, <1>2, <1>3, <1>7 DEF Correct, Send
<1>8. CASE Query
  BY <1>1, <1>3, <1>8 DEF Query, Send
<1>9. CASE Lose
  BY <1>3, <1>9, MaxFaultsAssumption DEF Lose
<1>10. CASE \E t \in Trans : Begin(t) \/ End(t)
  <2>1. PICK t \in Trans : Begin(t) \/ End(t)
    BY <1>10
  <2>2. CASE Begin(t)
    BY <2>2 DEF Begin
  <2>3. CASE End(t)
    BY <2>3 DEF End
  <2> QED BY <2>1, <2>2, <2>3
<1>11. CASE \E k \in 1..LastPage : ChangePage(k)
  BY <1>1, <1>2, <1>3, <1>11 DEF ChangePage, Send
<1>12. CASE \E n \in Sizes : ChangeSize(n)
  BY <1>1, <1>3, <1>12 DEF ChangeSize, Send
<1>13. CASE UNCHANGED vars
  BY <1>13 DEF vars
<1> QED BY <1>4, <1>5, <1>6, <1>7, <1>8, <1>9, <1>10, <1>11, <1>12, <1>13 DEF Next

LEMMA TypesFirst ==
    ASSUME Init
    PROVE  TypeOK
<1>1. 0 \in 0..Cardinality(Trans)
  BY TransAssumption, FS_CardinalityType
<1>2. request = Request("none", 1, 1, {}, 0) /\ walk = Walk(0, 1, {}, {}, {}, FALSE)
  BY DEF Init, NoRequest, NoWalk
<1>3. /\ request \in [pc : {"none", "find", "count", "answer"}, page : Nat \ {0},
                       size : Nat \ {0}, rows : SUBSET Trans, total : 0..Cardinality(Trans)]
      /\ walk \in [next : Nat, size : Nat \ {0}, base : SUBSET Trans, seen : SUBSET Trans,
                    twice : SUBSET Trans, done : BOOLEAN]
  BY <1>1, <1>2 DEF Request, Walk
<1>4. /\ store \subseteq begun /\ begun \subseteq Trans
      /\ page \in Nat \ {0} /\ limit \in Sizes
      /\ count \in 0..Cardinality(Trans) /\ shown \subseteq Trans
      /\ faults \in 0..MaxFaults
  BY <1>1, MaxFaultsAssumption DEF Init
<1>5. began \in BOOLEAN /\ ended \in BOOLEAN /\ excused \in BOOLEAN
  BY Zenon DEF Init
<1> QED BY <1>3, <1>4, <1>5, Zenon DEF TypeOK

(* The variables of ListPage keep their types: above all, no page is asked    *)
(* for that is not at least 1, and no count exceeds the transactions.         *)
THEOREM ListPageTypes == Spec => []TypeOK
<1>1. Init => TypeOK
  BY TypesFirst
<1>2. TypeOK /\ [Next]_vars => TypeOK'
  BY TypesKept
<1> QED BY <1>1, <1>2, PTL DEF Spec

-----------------------------------------------------------------------------
(* Pages fit.                                                               *)

(* With MySQL, the rows found for a page are at most as many as were asked    *)
(* for.  (With MongoDB they may be more: its limit grows with the page.)       *)
THEOREM PagesFit == Repository = "mysql" => (Spec => []PageFits)
<1> SUFFICES ASSUME Repository = "mysql"
             PROVE  Spec => []PageFits
  OBVIOUS
<1>1. Init => PageFits
  BY DEF Init, PageFits, NoRequest, Request
<1>2. TypeOK /\ PageFits /\ [Next]_vars => PageFits'
  <2> SUFFICES ASSUME TypeOK, PageFits, [Next]_vars
               PROVE  PageFits'
    OBVIOUS
  <2>1. CASE FindRows
    <3> DEFINE k == request.page
               n == request.size
    <3>1. k \in Nat \ {0} /\ n \in Nat \ {0} /\ store \subseteq Trans
      BY DEF TypeOK
    <3>2. Skip(k, n) \in Nat /\ Limit(k, n) = n /\ n \in Nat
      BY <3>1, PageEdges DEF Limit
    <3>3. \A t \in Window(k, n) : Skip(k, n) <= Rank(t) /\ Rank(t) < Skip(k, n) + n
      BY <3>2 DEF Window
    <3>4. Window(k, n) \in SUBSET store
      BY DEF Window
    <3>5. Cardinality(Window(k, n)) <= n
      BY <3>1, <3>2, <3>3, <3>4, RankFew
    <3>6. request'.rows = Window(k, n) /\ request'.size = n
      BY <2>1 DEF FindRows, Request
    <3> QED BY <3>5, <3>6 DEF PageFits
  <2>2. CASE CountRows
    BY <2>2 DEF CountRows, PageFits, Request
  <2>3. CASE HandleAnswer \/ Lose
    BY <2>3 DEF HandleAnswer, Lose, NoRequest, Request, PageFits
  <2>4. CASE Correct \/ Query
    BY <2>4 DEF Correct, Query, Send, Request, PageFits
  <2>5. CASE \E t \in Trans : Begin(t) \/ End(t)
    BY <2>5 DEF Begin, End, PageFits
  <2>6. CASE \E k \in 1..LastPage : ChangePage(k)
    BY <2>6 DEF ChangePage, Send, Request, PageFits
  <2>7. CASE \E n \in Sizes : ChangeSize(n)
    BY <2>7 DEF ChangeSize, Send, Request, PageFits
  <2>8. CASE UNCHANGED vars
    BY <2>8 DEF vars, PageFits
  <2> QED BY <2>1, <2>2, <2>3, <2>4, <2>5, <2>6, <2>7, <2>8 DEF Next
<1> QED BY <1>1, <1>2, ListPageTypes, PTL DEF Spec

-----------------------------------------------------------------------------
(* Who turns all the pages sees everything.                                  *)

(* The next page of the walk is under way, or read and not yet shown.         *)
Turning == request.page = walk.next /\ request.size = walk.size

(* What there was when a walk began is still there if none ended; what was    *)
(* not seen yet is on a later page, and the total of an answer covers it.     *)
WalkInv ==
    walk.next >= 1 /\ ~ ended =>
        /\ walk.base \subseteq store
        /\ \A t \in walk.base : t \in walk.seen \/ (walk.next - 1) * walk.size <= Rank(t)
        /\ request.pc \in {"count", "answer"} /\ Turning =>
               \A t \in walk.base : \/ t \in walk.seen \cup request.rows
                                    \/ walk.next * walk.size <= Rank(t)
        /\ request.pc = "answer" /\ Turning =>
               \A t \in walk.base : \/ t \in walk.seen \cup request.rows
                                    \/ walk.next * walk.size < request.total

WalkIInv == WalkInv /\ WalkSeesAll

(* Reading the next page of the walk, or the first of a new one.             *)
LEMMA FindKeepsWalk ==
    ASSUME TypeOK, TypeOK', WalkIInv, FindRows
    PROVE  WalkIInv'
<1> DEFINE k == request.page
           n == request.size
           rows == Window(k, n)
<1>1. k \in Nat \ {0} /\ n \in Nat \ {0} /\ store \subseteq Trans /\ store' = store
  BY DEF TypeOK, FindRows
<1>2. /\ request'.page = k /\ request'.size = n /\ request'.rows = rows
      /\ request'.pc = "answer" => rows = {}
  BY DEF FindRows, Request
<1>3. \A t \in store : (k - 1) * n <= Rank(t) => (t \in rows \/ k * n <= Rank(t)) /\ rows # {}
  BY <1>1, WindowCovers
<1>4. \A t : Rank(t)' = Rank(t)
  BY <1>1 DEF Rank
<1>5. CASE k = 1 /\ walk' = Walk(1, n, store, {}, {}, FALSE)
  <2>1. /\ walk'.next = 1 /\ walk'.size = n /\ walk'.base = store /\ walk'.seen = {}
        /\ walk'.done = FALSE
    BY <1>5 DEF Walk
  <2>2. (k - 1) * n = 0
    BY <1>1, <1>5
  <2>3. \A t \in store : (k - 1) * n <= Rank(t)
    BY <1>1, <2>2, RankType
  <2>4. \A t \in store : t \in rows \/ k * n <= Rank(t)
    BY <1>3, <2>3
  <2>5. request'.pc = "answer" => store = {}
    BY <1>2, <1>3, <2>3
  <2> HIDE DEF rows, n
  <2>6. WalkInv'
    BY <1>1, <1>2, <1>4, <1>5, <2>1, <2>3, <2>4, <2>5 DEF WalkInv
  <2>7. WalkSeesAll'
    BY <2>1 DEF WalkSeesAll
  <2> QED BY <2>6, <2>7 DEF WalkIInv
<1>6. CASE UNCHANGED <<walk, began, ended>>
  <2>1. WalkSeesAll'
    BY <1>6 DEF WalkIInv, WalkSeesAll
  <2>2. SUFFICES ASSUME walk.next >= 1, ~ ended
                 PROVE  WalkInv'
    BY <1>6, <2>1 DEF WalkIInv, WalkInv
  <2>3. /\ walk.base \subseteq store
        /\ \A t \in walk.base : t \in walk.seen \/ (walk.next - 1) * walk.size <= Rank(t)
    BY <2>2 DEF WalkIInv, WalkInv
  <2>4. ASSUME k = walk.next, n = walk.size
        PROVE  /\ \A t \in walk.base : t \in walk.seen \/ t \in rows \/ k * n <= Rank(t)
               /\ rows = {} => walk.base \subseteq walk.seen
    <3> HIDE DEF rows
    <3> QED BY <1>3, <2>3, <2>4
  <2> HIDE DEF rows
  <2> QED BY <1>1, <1>2, <1>4, <1>6, <2>3, <2>4 DEF WalkInv, Turning
<1> HIDE DEF rows
<1> QED BY <1>5, <1>6 DEF FindRows

(* The total counted after the rows covers what is on later pages.           *)
LEMMA CountKeepsWalk ==
    ASSUME TypeOK, WalkIInv, CountRows
    PROVE  WalkIInv'
<1>1. /\ request'.page = request.page /\ request'.size = request.size
      /\ request'.rows = request.rows /\ request'.total = Cardinality(store)
      /\ request.pc = "count"
      /\ UNCHANGED <<store, walk, ended>>
  BY DEF CountRows, Request, history
<1>2. \A t : Rank(t)' = Rank(t)
  BY <1>1 DEF Rank
<1>3. WalkSeesAll'
  BY <1>1 DEF WalkIInv, WalkSeesAll
<1>4. \A t \in store : Rank(t) \in Nat /\ Rank(t) < Cardinality(store)
  BY RankType DEF TypeOK
<1>5. walk.next * walk.size \in Nat
  <2>1. walk.next \in Nat /\ walk.size \in Nat
    BY DEF TypeOK
  <2> QED BY <2>1
<1>6. Cardinality(store) \in Nat
  BY FiniteStores DEF TypeOK
<1>7. SUFFICES ASSUME walk.next >= 1, ~ ended
               PROVE  WalkInv'
  BY <1>1, <1>3 DEF WalkIInv, WalkInv
<1> DEFINE end == walk.next * walk.size
<1> HIDE DEF end
<1>8. \A t \in store : end <= Rank(t) => end < Cardinality(store)
  BY <1>4, <1>5, <1>6 DEF end
<1> QED BY <1>1, <1>2, <1>7, <1>8 DEF WalkIInv, WalkInv, Turning, end

(* A walk that reaches the last page of the answer has seen everything.       *)
LEMMA AnswerKeepsWalk ==
    ASSUME TypeOK, WalkIInv, HandleAnswer
    PROVE  WalkIInv'
<1>1. request.pc = "answer" /\ walk' = TurnedTo(request) /\ request' = NoRequest
      /\ UNCHANGED <<store, ended>>
  BY DEF HandleAnswer
<1>2. request'.pc = "none"
  BY <1>1 DEF NoRequest, Request
<1>3. \A t : Rank(t)' = Rank(t)
  BY <1>1 DEF Rank
<1>4. CASE ~ Turning
  <2>1. walk'.next = 0 /\ walk'.done = FALSE
    BY <1>1, <1>4 DEF TurnedTo, NoWalk, Walk, Turning
  <2> QED BY <2>1 DEF WalkIInv, WalkInv, WalkSeesAll
<1>5. CASE Turning
  <2> DEFINE k == walk.next
             n == walk.size
  <2>1. /\ walk'.next = k + 1 /\ walk'.size = n /\ walk'.base = walk.base
        /\ walk'.seen = walk.seen \cup request.rows
        /\ walk'.done = (walk.done \/ k >= PageCount(request.total, n))
    BY <1>1, <1>5 DEF TurnedTo, Walk, Turning
  <2>2. k \in Nat \ {0} /\ n \in Nat \ {0} /\ request.total \in Nat
    <3>1. request.page \in Nat \ {0} /\ walk.size \in Nat \ {0}
          /\ request.total \in 0..Cardinality(Trans)
      BY DEF TypeOK
    <3> QED BY <1>5, <3>1 DEF Turning
  <2>3. SUFFICES ASSUME ~ ended
                 PROVE  WalkIInv'
    BY <1>1 DEF WalkIInv, WalkInv, WalkSeesAll
  <2>4. /\ walk.base \subseteq store
        /\ \A t \in walk.base : t \in walk.seen \cup request.rows \/ k * n <= Rank(t)
        /\ \A t \in walk.base : t \in walk.seen \cup request.rows \/ k * n < request.total
    BY <1>1, <1>5, <2>2, <2>3 DEF WalkIInv, WalkInv
  <2>5. k * n < request.total => k < PageCount(request.total, n)
    BY <2>2, PagesCover
  <2>6. PageCount(request.total, n) \in Nat
    BY <2>2, PageCountType
  <2>7. k >= PageCount(request.total, n) => walk.base \subseteq walk.seen \cup request.rows
    BY <2>2, <2>4, <2>5, <2>6
  <2>8. walk.done => walk.base \subseteq walk.seen
    BY <2>3 DEF WalkIInv, WalkSeesAll
  <2>9. WalkSeesAll'
    BY <2>1, <2>7, <2>8 DEF WalkSeesAll
  <2>10. walk'.next - 1 = k
    BY <2>1, <2>2
  <2>11. WalkInv'
    BY <1>1, <1>2, <1>3, <2>1, <2>4, <2>10 DEF WalkInv
  <2> QED BY <2>9, <2>11 DEF WalkIInv
<1> QED BY <1>4, <1>5

(* Transactions that begin move others to later pages only.                  *)
LEMMA BeginKeepsWalk ==
    ASSUME TypeOK, TypeOK', WalkIInv, NEW b \in Trans, Begin(b)
    PROVE  WalkIInv'
<1>1. store \subseteq store' /\ UNCHANGED <<request, walk, ended>>
  BY DEF Begin
<1>2. store \subseteq Trans /\ store' \subseteq Trans
  BY DEF TypeOK
<1>3. \A t : Rank(t) \in Nat /\ Rank(t)' \in Nat /\ Rank(t) <= Rank(t)'
  <2>1. \A t : Rank(t) \in Nat
    BY <1>2, RankType
  <2>2. \A t : Rank(t)' \in Nat
    <3> TAKE t
    <3>1. {u \in store' : u < t} \in SUBSET Trans
      BY <1>2
    <3>2. Cardinality({u \in store' : u < t}) \in Nat
      BY <3>1, FiniteStores
    <3> QED BY <3>2 DEF Rank
  <2>3. \A t : Rank(t) <= Rank(t)'
    BY <1>1, <1>2, RankGrows
  <2> QED BY <2>1, <2>2, <2>3
<1>4. \A e \in Nat : \A t : e <= Rank(t) => e <= Rank(t)'
  BY <1>3
<1>5. walk.next >= 1 => (walk.next - 1) * walk.size \in Nat /\ walk.next * walk.size \in Nat
  <2>1. walk.next \in Nat /\ walk.size \in Nat
    BY DEF TypeOK
  <2>2. walk.next >= 1 => walk.next - 1 \in Nat
    BY <2>1
  <2> QED BY <2>1, <2>2
<1>6. WalkSeesAll'
  BY <1>1 DEF WalkIInv, WalkSeesAll
<1>7. SUFFICES ASSUME walk.next >= 1, ~ ended
               PROVE  WalkInv'
  BY <1>1, <1>6 DEF WalkIInv, WalkInv
<1> DEFINE start == (walk.next - 1) * walk.size
           end == walk.next * walk.size
<1> HIDE DEF start, end
<1>8. \A t : (start <= Rank(t) => start <= Rank(t)') /\ (end <= Rank(t) => end <= Rank(t)')
  BY <1>4, <1>5, <1>7 DEF start, end
<1> QED BY <1>1, <1>7, <1>8 DEF WalkIInv, WalkInv, Turning, start, end

(* With either repository, whoever turns the pages up to the last one the     *)
(* pager knows of has been shown all there was, if no transaction ended.      *)
THEOREM WalksSeeAll == Spec => []WalkSeesAll
<1>1. Init => WalkIInv
  BY DEF Init, NoWalk, Walk, WalkIInv, WalkInv, WalkSeesAll
<1>2. TypeOK /\ TypeOK' /\ WalkIInv /\ [Next]_vars => WalkIInv'
  <2> SUFFICES ASSUME TypeOK, TypeOK', WalkIInv, [Next]_vars
               PROVE  WalkIInv'
    OBVIOUS
  <2>1. ASSUME UNCHANGED <<store, walk, ended>>, request'.pc \notin {"count", "answer"}
        PROVE  WalkIInv'
    BY <2>1 DEF WalkIInv, WalkInv, WalkSeesAll, Rank
  <2>2. CASE FindRows
    BY <2>2, FindKeepsWalk
  <2>3. CASE CountRows
    BY <2>3, CountKeepsWalk
  <2>4. CASE HandleAnswer
    BY <2>4, AnswerKeepsWalk
  <2>5. CASE Lose
    BY <2>1, <2>5 DEF Lose, NoRequest, Request
  <2>6. CASE Correct \/ Query
    BY <2>1, <2>6 DEF Correct, Query, Send, Request, history
  <2>7. CASE \E t \in Trans : Begin(t) \/ End(t)
    <3>1. PICK t \in Trans : Begin(t) \/ End(t)
      BY <2>7
    <3>2. CASE End(t)
      BY <3>2 DEF End, WalkIInv, WalkInv, WalkSeesAll
    <3> QED BY <3>1, <3>2, BeginKeepsWalk
  <2>8. CASE \E k \in 1..LastPage : ChangePage(k)
    BY <2>1, <2>8 DEF ChangePage, Send, Request, history
  <2>9. CASE \E n \in Sizes : ChangeSize(n)
    BY <2>1, <2>9 DEF ChangeSize, Send, Request, history
  <2>10. CASE UNCHANGED vars
    BY <2>10 DEF vars, history, WalkIInv, WalkInv, WalkSeesAll, Rank, Turning
  <2> QED BY <2>2, <2>3, <2>4, <2>5, <2>6, <2>7, <2>8, <2>9, <2>10 DEF Next
<1>3. WalkIInv => WalkSeesAll
  BY DEF WalkIInv
<1> QED BY <1>1, <1>2, <1>3, ListPageTypes, PTL DEF Spec

-----------------------------------------------------------------------------
(* Nobody sees a transaction twice.                                          *)

(* What was seen and is still there is on the pages turned already, and the   *)
(* rows read for the next page are behind it.                                *)
TwiceInv ==
    ~ began =>
        /\ walk.twice = {}
        /\ walk.next >= 1 =>
              /\ \A t \in walk.seen \cap store : Rank(t) < (walk.next - 1) * walk.size
              /\ request.pc \in {"count", "answer"} /\ Turning =>
                    /\ walk.seen \cap request.rows = {}
                    /\ \A t \in request.rows \cap store : Rank(t) < walk.next * walk.size

(* Reading the next page of the walk, or the first of a new one.             *)
LEMMA FindKeepsTwice ==
    ASSUME Repository = "mysql", TypeOK, TwiceInv, FindRows
    PROVE  TwiceInv'
<1> DEFINE k == request.page
           n == request.size
           rows == Window(k, n)
<1>1. k \in Nat \ {0} /\ n \in Nat \ {0} /\ store \subseteq Trans /\ store' = store
  BY DEF TypeOK, FindRows
<1>2. request'.page = k /\ request'.size = n /\ request'.rows = rows
  BY DEF FindRows, Request
<1>3. \A t \in rows : t \in store /\ (k - 1) * n <= Rank(t) /\ Rank(t) < k * n
  <2>1. Skip(k, n) \in Nat /\ Skip(k, n) + n = k * n /\ Limit(k, n) = n
    BY <1>1, PageEdges DEF Limit
  <2> QED BY <2>1 DEF Window, Skip
<1>4. \A t : Rank(t)' = Rank(t)
  BY <1>1 DEF Rank
<1>5. CASE walk' = Walk(1, n, store, {}, {}, FALSE) /\ k = 1
  <2>1. walk'.next = 1 /\ walk'.size = n /\ walk'.seen = {} /\ walk'.twice = {}
    BY <1>5 DEF Walk
  <2> HIDE DEF rows, n
  <2> QED BY <1>1, <1>2, <1>3, <1>4, <1>5, <2>1 DEF TwiceInv
<1>6. CASE UNCHANGED <<walk, began, ended>>
  <2>1. SUFFICES ASSUME ~ began, walk.next >= 1
                 PROVE  TwiceInv'
    BY <1>6 DEF TwiceInv
  <2>2. \A t \in walk.seen \cap store : Rank(t) < (walk.next - 1) * walk.size
    BY <2>1 DEF TwiceInv
  <2>3. ASSUME k = walk.next, n = walk.size
        PROVE  walk.seen \cap rows = {}
    <3> SUFFICES ASSUME NEW t \in walk.seen \cap rows
                 PROVE  FALSE
      OBVIOUS
    <3> HIDE DEF rows
    <3>1. t \in store /\ (k - 1) * n <= Rank(t) /\ Rank(t) < (k - 1) * n
      BY <1>3, <2>2, <2>3
    <3>2. Rank(t) \in Nat /\ (k - 1) * n \in Int
      BY <1>1, RankType
    <3> QED BY <3>1, <3>2
  <2> HIDE DEF rows
  <2> QED BY <1>2, <1>3, <1>4, <1>6, <1>1, <2>1, <2>2, <2>3 DEF TwiceInv, Turning
<1> HIDE DEF rows
<1> QED BY <1>5, <1>6 DEF FindRows

(* Showing the next page of the walk.                                        *)
LEMMA AnswerKeepsTwice ==
    ASSUME TypeOK, TwiceInv, HandleAnswer
    PROVE  TwiceInv'
<1>1. request.pc = "answer" /\ walk' = TurnedTo(request) /\ request' = NoRequest
      /\ UNCHANGED <<store, began>>
  BY DEF HandleAnswer
<1>2. request'.pc = "none"
  BY <1>1 DEF NoRequest, Request
<1>3. \A t : Rank(t)' = Rank(t)
  BY <1>1 DEF Rank
<1>4. CASE ~ Turning
  <2>1. walk'.next = 0 /\ walk'.twice = {}
    BY <1>1, <1>4 DEF TurnedTo, NoWalk, Walk, Turning
  <2> QED BY <2>1 DEF TwiceInv
<1>5. CASE Turning
  <2> DEFINE k == walk.next
             n == walk.size
  <2>1. /\ walk'.next = k + 1 /\ walk'.size = n
        /\ walk'.seen = walk.seen \cup request.rows
        /\ walk'.twice = walk.twice \cup (walk.seen \cap request.rows)
    BY <1>1, <1>5 DEF TurnedTo, Walk, Turning
  <2>2. k \in Nat \ {0} /\ n \in Nat \ {0} /\ store \subseteq Trans
    <3>1. request.page \in Nat \ {0} /\ walk.size \in Nat \ {0} /\ store \subseteq Trans
      BY DEF TypeOK
    <3> QED BY <1>5, <3>1 DEF Turning
  <2>3. SUFFICES ASSUME ~ began
                 PROVE  TwiceInv'
    BY <1>1 DEF TwiceInv
  <2>4. /\ walk.twice = {} /\ walk.seen \cap request.rows = {}
        /\ \A t \in walk.seen \cap store : Rank(t) < (k - 1) * n
        /\ \A t \in request.rows \cap store : Rank(t) < k * n
    BY <1>1, <1>5, <2>2, <2>3 DEF TwiceInv
  <2>5. (k - 1) * n \in Int /\ k * n \in Int /\ (k - 1) * n <= k * n /\ (k + 1) - 1 = k
    <3>1. PICK j \in Nat : k = j + 1
      <4>1. k - 1 \in Nat /\ k = (k - 1) + 1
        BY <2>2
      <4> QED BY <4>1
    <3>2. k * n = j * n + n /\ j * n \in Nat /\ k - 1 = j
      BY <2>2, <3>1
    <3> QED BY <2>2, <3>2
  <2>6. \A t \in store : Rank(t) \in Nat
    BY <2>2, RankType
  <2>7. \A t \in walk.seen \cap store : Rank(t) < k * n
    <3> DEFINE start == (k - 1) * n
               end == k * n
    <3> HIDE DEF start, end
    <3>1. start \in Int /\ end \in Int /\ start <= end
      BY <2>5 DEF start, end
    <3>2. \A t \in walk.seen \cap store : Rank(t) < start
      BY <2>4 DEF start
    <3>3. \A t \in walk.seen \cap store : Rank(t) < end
      BY <2>6, <3>1, <3>2
    <3> QED BY <3>3 DEF end
  <2>8. walk'.next - 1 = k
    BY <2>1, <2>5
  <2> QED BY <1>1, <1>2, <1>3, <2>1, <2>4, <2>7, <2>8 DEF TwiceInv
<1> QED BY <1>4, <1>5

(* Transactions that end move others to earlier pages only.                  *)
LEMMA EndKeepsTwice ==
    ASSUME TypeOK, TwiceInv, NEW e \in Trans, End(e)
    PROVE  TwiceInv'
<1>1. store' \subseteq store /\ store \subseteq Trans /\ UNCHANGED <<request, walk, began>>
  BY DEF End, TypeOK
<1>2. \A t : Rank(t) \in Nat /\ Rank(t)' \in Nat /\ Rank(t)' <= Rank(t)
  BY <1>1, RankShrinks, RankType
<1>3. \A b \in Int : \A t : Rank(t) < b => Rank(t)' < b
  BY <1>2
<1>4. (walk.next - 1) * walk.size \in Int /\ walk.next * walk.size \in Int
  <2>1. walk.next \in Int /\ walk.next - 1 \in Int /\ walk.size \in Int
    BY DEF TypeOK
  <2> QED BY <2>1
<1> DEFINE start == (walk.next - 1) * walk.size
           end == walk.next * walk.size
<1> HIDE DEF start, end
<1>5. \A t : (Rank(t) < start => Rank(t)' < start) /\ (Rank(t) < end => Rank(t)' < end)
  BY <1>3, <1>4 DEF start, end
<1> QED BY <1>1, <1>5 DEF TwiceInv, Turning, start, end

(* With MySQL, nobody who turns the pages sees a transaction twice unless      *)
(* transactions began meanwhile, whichever ones end.                         *)
THEOREM NobodySeesTwice == Repository = "mysql" => (Spec => []NoneTwice)
<1> SUFFICES ASSUME Repository = "mysql"
             PROVE  Spec => []NoneTwice
  OBVIOUS
<1>1. Init => TwiceInv
  BY DEF Init, NoWalk, Walk, TwiceInv
<1>2. TypeOK /\ TwiceInv /\ [Next]_vars => TwiceInv'
  <2> SUFFICES ASSUME TypeOK, TwiceInv, [Next]_vars
               PROVE  TwiceInv'
    OBVIOUS
  <2>1. ASSUME UNCHANGED <<store, walk, began>>, request'.pc \notin {"count", "answer"}
        PROVE  TwiceInv'
    BY <2>1 DEF TwiceInv, Rank
  <2>2. CASE FindRows
    BY <2>2, FindKeepsTwice
  <2>3. CASE CountRows
    BY <2>3 DEF CountRows, Request, history, TwiceInv, Turning, Rank
  <2>4. CASE HandleAnswer
    BY <2>4, AnswerKeepsTwice
  <2>5. CASE Lose
    BY <2>1, <2>5 DEF Lose, NoRequest, Request
  <2>6. CASE Correct \/ Query
    BY <2>1, <2>6 DEF Correct, Query, Send, Request, history
  <2>7. CASE \E t \in Trans : Begin(t) \/ End(t)
    <3>1. PICK t \in Trans : Begin(t) \/ End(t)
      BY <2>7
    <3>2. CASE Begin(t)
      BY <3>2 DEF Begin, TwiceInv
    <3> QED BY <3>1, <3>2, EndKeepsTwice
  <2>8. CASE \E k \in 1..LastPage : ChangePage(k)
    BY <2>1, <2>8 DEF ChangePage, Send, Request, history
  <2>9. CASE \E n \in Sizes : ChangeSize(n)
    BY <2>1, <2>9 DEF ChangeSize, Send, Request, history
  <2>10. CASE UNCHANGED vars
    BY <2>10 DEF vars, history, TwiceInv, Rank, Turning
  <2> QED BY <2>2, <2>3, <2>4, <2>5, <2>6, <2>7, <2>8, <2>9, <2>10 DEF Next
<1>3. TwiceInv => NoneTwice
  BY DEF TwiceInv, NoneTwice
<1> QED BY <1>1, <1>2, <1>3, ListPageTypes, PTL DEF Spec

-----------------------------------------------------------------------------
(* The pager leaves an empty page.                                           *)

(* A page found empty is behind all rows, and so behind the last page of the  *)
(* total that comes with it: the pager will not stay there.                  *)
EmptyInv ==
    /\ request.pc # "none" => request.page = page /\ request.size = limit
    /\ request.pc = "count" /\ request.rows = {} /\ ~ excused =>
          Cardinality(store) <= (page - 1) * limit
    /\ request.pc = "answer" /\ request.rows = {} /\ ~ excused =>
          request.total <= (page - 1) * limit
    /\ request.pc = "none" /\ shown = {} /\ count > 0 /\ ~ excused =>
          count <= (page - 1) * limit

(* Behind the first row that is missing there are none.                      *)
LEMMA EmptyWindow ==
    ASSUME store \subseteq Trans, NEW k \in Nat \ {0}, NEW n \in Nat \ {0}, Window(k, n) = {}
    PROVE  Cardinality(store) <= (k - 1) * n
<1>1. (k - 1) * n \in Nat
  BY PageEdges DEF Skip
<1>2. Cardinality(store) \in Nat
  BY FiniteStores
<1>3. ASSUME (k - 1) * n < Cardinality(store)
      PROVE  FALSE
  <2>1. PICK t \in store : Rank(t) = (k - 1) * n
    BY <1>1, <1>3, RanksFilled
  <2>2. (k - 1) * n <= Rank(t)
    BY <1>1, <2>1
  <2> QED BY <2>2, WindowCovers
<1> DEFINE start == (k - 1) * n
<1> HIDE DEF start
<1>4. start \in Nat /\ ~ (start < Cardinality(store))
  BY <1>1, <1>3 DEF start
<1>5. Cardinality(store) <= start
  BY <1>2, <1>4
<1> QED BY <1>5 DEF start

LEMMA EmptyStep ==
    ASSUME TypeOK, TypeOK', EmptyInv, [Next]_vars
    PROVE  EmptyInv'
<1>1. CASE FindRows
  <2>1. request.page = page /\ request.size = limit /\ UNCHANGED <<store, page, limit>>
    BY <1>1 DEF EmptyInv, FindRows, browser
  <2>2. /\ request'.page = page /\ request'.size = limit /\ request'.total = 0
        /\ request'.rows = Window(page, limit) /\ request'.pc \in {"count", "answer"}
    BY <1>1, <2>1 DEF FindRows, Request
  <2>3. page \in Nat \ {0} /\ limit \in Nat \ {0} /\ store \subseteq Trans
    BY SizesAssumption DEF TypeOK
  <2>4. Window(page, limit) = {} => Cardinality(store) <= (page - 1) * limit
    BY <2>3, EmptyWindow
  <2>5. 0 <= (page - 1) * limit
    BY <2>3, PageEdges DEF Skip
  <2> QED BY <2>1, <2>2, <2>4, <2>5 DEF EmptyInv
<1>2. CASE CountRows
  <2>1. /\ request'.page = request.page /\ request'.size = request.size
        /\ request'.rows = request.rows /\ request'.total = Cardinality(store)
        /\ request'.pc = "answer" /\ request.pc = "count"
        /\ UNCHANGED <<page, limit, excused>>
    BY <1>2 DEF CountRows, Request, browser, history
  <2> QED BY <2>1 DEF EmptyInv
<1>3. CASE HandleAnswer
  <2>1. /\ request.pc = "answer" /\ request'.pc = "none"
        /\ count' = request.total /\ shown' = request.rows
        /\ UNCHANGED <<page, limit, excused>>
    BY <1>3 DEF HandleAnswer, NoRequest, Request
  <2> QED BY <2>1 DEF EmptyInv
<1>4. CASE Lose
  <2>1. request'.pc = "none" /\ excused'
    BY <1>4 DEF Lose, NoRequest, Request
  <2> QED BY <2>1 DEF EmptyInv
<1>5. ASSUME request'.pc = "find", request'.page = page', request'.size = limit'
      PROVE  EmptyInv'
  BY <1>5 DEF EmptyInv
<1>6. CASE Correct \/ Query
  BY <1>5, <1>6 DEF Correct, Query, Send, Request, browser
<1>7. CASE \E k \in 1..LastPage : ChangePage(k)
  BY <1>5, <1>7 DEF ChangePage, Send, Request
<1>8. CASE \E n \in Sizes : ChangeSize(n)
  BY <1>5, <1>8 DEF ChangeSize, Send, Request
<1>9. ASSUME NEW t \in Trans, Begin(t)
      PROVE  EmptyInv'
  <2>1. UNCHANGED <<request, page, limit, count, shown>>
    BY <1>9 DEF Begin, browser
  <2>2. (request.pc = "count" => excused') /\ (excused => excused')
    BY <1>9 DEF Begin
  <2> QED BY <2>1, <2>2 DEF EmptyInv
<1>10. ASSUME NEW t \in Trans, End(t)
       PROVE  EmptyInv'
  <2>1. UNCHANGED <<request, page, limit, count, shown, excused>>
    BY <1>10 DEF End, browser
  <2>2. Cardinality(store') <= Cardinality(store)
    <3>1. store' \subseteq store /\ store \in SUBSET Trans
      BY <1>10 DEF End, TypeOK
    <3> QED BY <3>1, FiniteStores, FS_Subset
  <2>3. Cardinality(store) \in Nat /\ Cardinality(store') \in Nat
    BY FiniteStores DEF TypeOK
  <2>4. (page - 1) * limit \in Int
    BY SizesAssumption DEF TypeOK
  <2> DEFINE start == (page - 1) * limit
  <2> HIDE DEF start
  <2>5. Cardinality(store) <= start => Cardinality(store') <= start
    BY <2>2, <2>3, <2>4 DEF start
  <2> QED BY <2>1, <2>5 DEF EmptyInv, start
<1>11. CASE UNCHANGED vars
  BY <1>11 DEF vars, browser, history, EmptyInv
<1> QED BY <1>1, <1>2, <1>3, <1>4, <1>6, <1>7, <1>8, <1>9, <1>10, <1>11 DEF Next

(* With either repository, the pager does not rest on an empty page while the *)
(* total beside it says there are rows, unless a transaction began between    *)
(* the two statements or a request was lost.                                 *)
THEOREM NoRestOnEmptyPage == Spec => []NoEmptyPage
<1>1. Init => EmptyInv
  BY DEF Init, NoRequest, Request, EmptyInv
<1>2. TypeOK /\ TypeOK' /\ EmptyInv /\ [Next]_vars => EmptyInv'
  BY EmptyStep
<1>3. TypeOK /\ EmptyInv => NoEmptyPage
  <2> SUFFICES ASSUME TypeOK, EmptyInv, Waiting, shown = {}, count > 0, ~ excused
               PROVE  FALSE
    BY DEF NoEmptyPage
  <2>1. page \in Nat \ {0} /\ limit \in Nat \ {0} /\ count \in Nat
    BY FiniteStores, SizesAssumption DEF TypeOK
  <2>2. count <= (page - 1) * limit /\ page - 1 \in Nat
    BY <2>1 DEF EmptyInv, Waiting
  <2>3. PageCount(count, limit) <= page - 1
    BY <2>1, <2>2, PagesSuffice
  <2>4. PageCount(count, limit) \in Nat
    BY <2>1, PageCountType
  <2>5. page <= PageCount(count, limit)
    BY <2>1, <2>4 DEF Waiting, Misplaced, LastPage
  <2> QED BY <2>1, <2>3, <2>4, <2>5
<1> QED BY <1>1, <1>2, <1>3, ListPageTypes, PTL DEF Spec

=============================================================================
