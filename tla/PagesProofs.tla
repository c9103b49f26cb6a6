---------------------------- MODULE PagesProofs ----------------------------
(***************************************************************************)
(* Theorems about lists and searches read page by page, for any number of  *)
(* rows, dates, changes and any limits.                                    *)
(***************************************************************************)
EXTENDS Pages, FiniteSetTheorems, WellFoundedInduction, TLAPS

(* The rows inserted so far, whether they are still there or not. *)
Row == 1 .. Len(date)

(* Between two pages the cursor names a row; all that was shown comes up to *)
(* it in the order of the listing.                                          *)
CursorIsLast ==
    phase = "reading" =>
        /\ cursor # NoCursor
        /\ cursor[2] \in Row
        /\ cursor[1] = date[cursor[2]]
        /\ cursor[1] = Null => undated
        /\ \A i \in Shown : i = cursor[2] \/ Before(i, cursor[2])

(* What was there all the time was shown or is ahead of the cursor. *)
SteadyIsAhead ==
    phase = "reading" /\ (desc \/ ~undated) =>
        \A i \in steady : i \in Shown \/ Before(cursor[2], i)

(* So are as many messages as the search announced. *)
CountedIsAhead ==
    kind = "search" /\ changes = 0 =>
        /\ phase = "counted" => total <= Cardinality(admitted)
        /\ phase = "reading" => \E S \in SUBSET admitted :
              /\ total <= Cardinality(S)
              /\ \A i \in S : i \in Shown \/ Before(cursor[2], i)

(* The inductive invariant. *)
PagesInv ==
    /\ TypeOK
    /\ kind = "search" => desc
    /\ SomeUndated => undated
    /\ phase \in {"new", "counted"} => served = <<>> /\ cursor = NoCursor
    /\ Shown \subseteq Row
    /\ CursorIsLast
    /\ SteadyIsAhead
    /\ CountedIsAhead
    /\ PagesAreSorted
    /\ PagesAreComplete
    /\ TotalIsListed

-----------------------------------------------------------------------------
(* The order of the listing. *)

(* The rows are numbers, and so are their dates. *)
LEMMA RowTypes ==
  ASSUME TypeOK
  PROVE  /\ Len(date) \in Nat /\ MaxRows \in Nat /\ Row \subseteq Id
         /\ \A i \in Row : i \in Nat /\ date[i] \in DateOrNull /\ date[i] \in Nat
         /\ desc \in BOOLEAN
<1>1. /\ date \in Seq(DateOrNull) /\ Len(date) <= MaxRows /\ desc \in BOOLEAN
  BY DEF TypeOK
<1>2. MaxRows \in Nat /\ MaxDate \in Nat
  BY PageConstants
<1>3. Len(date) \in Nat
  BY <1>1
<1>4. Row \subseteq Id
  BY <1>1, <1>2, <1>3 DEF Row, Id
<1>5. \A i \in Row : i \in Nat /\ date[i] \in DateOrNull
  BY <1>1, <1>3 DEF Row
<1>6. \A i \in Row : date[i] \in Nat
  BY <1>2, <1>5 DEF DateOrNull
<1> QED BY <1>1, <1>2, <1>3, <1>4, <1>5, <1>6

(* Ids break the ties of dates, so the order is strict and total. *)
LEMMA BeforeIsOrder ==
  ASSUME TypeOK
  PROVE  /\ \A i \in Row : ~Before(i, i)
         /\ \A i, j \in Row : i = j \/ Before(i, j) \/ Before(j, i)
         /\ \A i, j, k \in Row : Before(i, j) /\ Before(j, k) => Before(i, k)
<1>1. \A i \in Row : i \in Nat /\ date[i] \in Nat
  BY RowTypes
<1>2. desc \in BOOLEAN
  BY RowTypes
<1>3. CASE desc
  BY <1>1, <1>3 DEF Before, LessThan
<1>4. CASE ~desc
  BY <1>1, <1>4 DEF Before, LessThan
<1> QED BY <1>2, <1>3, <1>4

(* The condition of the cursor admits rows behind its row only, and, where   *)
(* no row without a date is in the way of an ascending list, all of them.    *)
LEMMA WhereIsBehind ==
  ASSUME PagesInv, phase = "reading", NEW i \in Row
  PROVE  /\ Where(i) => Before(cursor[2], i)
         /\ (desc \/ ~undated) /\ Before(cursor[2], i) /\ i \in admitted => Where(i)
<1>1. /\ TypeOK /\ cursor # NoCursor /\ cursor[2] \in Row
      /\ cursor[1] = date[cursor[2]]
      /\ cursor[1] = Null => undated
  BY DEF PagesInv, CursorIsLast
<1>2. i \in Nat /\ date[i] \in Nat
  BY <1>1, RowTypes
<1>3. cursor[2] \in Nat /\ date[cursor[2]] \in Nat
  BY <1>1, RowTypes
<1>4. desc \in BOOLEAN
  BY <1>1, RowTypes
<1> DEFINE c == cursor[2]
           e == date[c]
<1> HIDE DEF c, e
<1>5. Before(c, i) <=> IF desc THEN LessThan(date[i], i, e, c)
                               ELSE LessThan(e, c, date[i], i)
  BY DEF Before, e
<1>6. Where(i) <=> \/ desc /\ IF e # Null
                                THEN date[i] = Null \/ LessThan(date[i], i, e, c)
                                ELSE date[i] = Null /\ i < c
                   \/ ~desc /\ IF e # Null
                                 THEN date[i] # Null /\ LessThan(e, c, date[i], i)
                                 ELSE date[i] = Null /\ i > c
  BY <1>1 DEF Where, CursorWhereDesc, CursorWhereAsc, e, c
<1>7. c \in Nat /\ e \in Nat /\ (e = Null => undated)
  BY <1>1, <1>3 DEF c, e
<1>8. CASE desc
  <2>1. Where(i) <=> LessThan(date[i], i, e, c)
    BY <1>2, <1>6, <1>7, <1>8 DEF LessThan, Null
  <2> QED BY <2>1, <1>5, <1>8 DEF c
<1>9. CASE ~desc
  <2>1. Where(i) => LessThan(e, c, date[i], i)
    BY <1>2, <1>6, <1>7, <1>9 DEF LessThan, Null
  <2>2. ~undated /\ LessThan(e, c, date[i], i) => Where(i)
    BY <1>2, <1>6, <1>7, <1>9 DEF LessThan, Null
  <2> QED BY <2>1, <2>2, <1>5, <1>9 DEF c
<1> QED BY <1>4, <1>8, <1>9

(* Rows are finitely many. *)
LEMMA NumbersAreFinite ==
  ASSUME NEW n \in Nat, NEW S \in SUBSET (1 .. n)
  PROVE  IsFiniteSet(S) /\ Cardinality(S) \in Nat /\ Cardinality(S) <= n
<1>1. IsFiniteSet(1 .. n) /\ Cardinality(1 .. n) = IF 1 > n THEN 0 ELSE n - 1 + 1
  BY FS_Interval
<1>2. Cardinality(1 .. n) = n
  BY <1>1
<1>3. IsFiniteSet(S) /\ Cardinality(S) <= Cardinality(1 .. n)
  BY <1>1, FS_Subset
<1>4. Cardinality(S) \in Nat
  BY <1>3, FS_CardinalityType
<1> QED BY <1>2, <1>3, <1>4

(* There are no more of them than MaxRows. *)
LEMMA RowsAreFinite ==
  ASSUME TypeOK, NEW S \in SUBSET Row
  PROVE  IsFiniteSet(S) /\ Cardinality(S) \in Nat /\ Cardinality(S) <= MaxRows
<1> DEFINE n == Len(date)
<1>1. n \in Nat /\ MaxRows \in Nat /\ n <= MaxRows
  BY RowTypes DEF TypeOK
<1>2. S \in SUBSET (1 .. n)
  BY DEF Row
<1> HIDE DEF n
<1>3. IsFiniteSet(S) /\ Cardinality(S) \in Nat /\ Cardinality(S) <= n
  BY <1>1, <1>2, NumbersAreFinite
<1> QED BY <1>1, <1>3
-----------------------------------------------------------------------------
(* A page is shown. *)

(* What a further page changes of the pages. *)
LEMMA PageIsAppended ==
  ASSUME TypeOK, NEW page \in SUBSET Id, Cardinality(page) <= MaxLimit,
         served' = Append(served, page)
  PROVE  /\ served' \in Seq(SUBSET Id)
         /\ \A n \in DOMAIN served' : Cardinality(served'[n]) <= MaxLimit
         /\ Shown' = Shown \cup page
         /\ /\ PagesAreSorted
            /\ \A i \in Shown, j \in page : Before(i, j)
            /\ date' = date /\ desc' = desc
            => PagesAreSorted'
<1> DEFINE n == Len(served)
<1>1. /\ served \in Seq(SUBSET Id)
      /\ \A k \in DOMAIN served : Cardinality(served[k]) <= MaxLimit
  BY DEF TypeOK
<1>2. n \in Nat /\ DOMAIN served = 1 .. n
  BY <1>1
<1>3. served' \in Seq(SUBSET Id) /\ DOMAIN served' = 1 .. n + 1
  BY <1>1
<1>4. /\ served'[n + 1] = page
      /\ \A k \in 1 .. n : served'[k] = served[k]
  BY <1>1, <1>2
<1> HIDE DEF n
<1>5. \A k \in 1 .. n + 1 : k \in 1 .. n \/ k = n + 1
  BY <1>2
<1>6. n + 1 \in 1 .. n + 1 /\ \A k \in 1 .. n : k \in 1 .. n + 1
  BY <1>2
<1>7. \A k \in DOMAIN served' : Cardinality(served'[k]) <= MaxLimit
  BY <1>1, <1>2, <1>3, <1>4, <1>5
<1>8. Shown' = Shown \cup page
  BY <1>2, <1>3, <1>4, <1>5, <1>6 DEF Shown
<1>9. ASSUME PagesAreSorted, \A i \in Shown, j \in page : Before(i, j),
             date' = date, desc' = desc
      PROVE  PagesAreSorted'
  <2>1. SUFFICES ASSUME NEW m \in 1 .. n + 1, NEW k \in 1 .. n + 1, m < k,
                        NEW i \in served'[m], NEW j \in served'[k]
                 PROVE  Before(i, j)'
    BY <1>3 DEF PagesAreSorted
  <2>2. m \in 1 .. n
    BY <2>1, <1>2
  <2>3. i \in served[m]
    BY <2>1, <2>2, <1>4
  <2>4. CASE k = n + 1
    <3>1. i \in Shown /\ j \in page
      BY <2>1, <2>2, <2>3, <2>4, <1>2, <1>4 DEF Shown
    <3> QED BY <3>1, <1>9 DEF Before, LessThan
  <2>5. CASE k \in 1 .. n
    <3>1. j \in served[k]
      BY <2>1, <2>5, <1>4
    <3>2. Before(i, j)
      BY <2>1, <2>2, <2>3, <2>5, <3>1, <1>2, <1>9 DEF PagesAreSorted
    <3> QED BY <3>2, <1>9 DEF Before, LessThan
  <2> QED BY <2>1, <2>4, <2>5, <1>5
<1> QED BY <1>3, <1>7, <1>8, <1>9

(* The rows of the next query come after all that was shown. *)
LEMMA FollowingIsBehind ==
  ASSUME PagesInv, phase # "done"
  PROVE  /\ Following \subseteq admitted /\ Following \subseteq Row
         /\ \A i \in Shown, j \in Following : Before(i, j)
<1>1. /\ TypeOK /\ Shown \subseteq Row /\ CursorIsLast
      /\ phase \in {"new", "counted"} => served = <<>>
  BY DEF PagesInv
<1>2. Following \subseteq admitted /\ Following \subseteq Row
  BY <1>1 DEF Following, TypeOK, Row
<1>3. ASSUME NEW i \in Shown, NEW j \in Following
      PROVE  Before(i, j)
  <2>1. phase = "reading"
    BY <1>1 DEF TypeOK, Shown
  <2>2. i \in Row /\ j \in Row /\ cursor[2] \in Row
    BY <1>1, <1>2, <1>3, <2>1 DEF CursorIsLast
  <2>3. i = cursor[2] \/ Before(i, cursor[2])
    BY <1>1, <1>3, <2>1 DEF CursorIsLast
  <2>4. Before(cursor[2], j)
    BY <1>3, <2>1, <2>2, WhereIsBehind DEF Following
  <2> QED BY <1>1, <2>2, <2>3, <2>4, BeforeIsOrder
<1> QED BY <1>2, <1>3

(* What is yet to be shown is among them. *)
LEMMA AheadIsFollowing ==
  ASSUME PagesInv, phase # "done"
  PROVE  /\ desc \/ ~undated => steady \subseteq Shown \cup Following
         /\ kind = "search" /\ changes = 0 /\ phase # "new" =>
              \E S \in SUBSET admitted :
                total <= Cardinality(S) /\ S \subseteq Shown \cup Following
<1>1. /\ TypeOK /\ SteadyIsAhead /\ CountedIsAhead
      /\ kind = "search" => desc
      /\ phase \in {"new", "counted"} => cursor = NoCursor
  BY DEF PagesInv
<1>2. admitted \subseteq Row /\ steady \subseteq admitted
  BY <1>1 DEF TypeOK, Row
<1>3. CASE phase = "reading"
  <2>1. ASSUME desc \/ ~undated, NEW i \in admitted, Before(cursor[2], i)
        PROVE  i \in Following
    BY <1>2, <1>3, <2>1, WhereIsBehind DEF Following
  <2>2. desc \/ ~undated => steady \subseteq Shown \cup Following
    BY <1>1, <1>2, <1>3, <2>1 DEF SteadyIsAhead
  <2>3. ASSUME kind = "search", changes = 0
        PROVE  \E S \in SUBSET admitted :
                 total <= Cardinality(S) /\ S \subseteq Shown \cup Following
    <3>1. PICK S \in SUBSET admitted :
            /\ total <= Cardinality(S)
            /\ \A i \in S : i \in Shown \/ Before(cursor[2], i)
      BY <1>1, <1>3, <2>3 DEF CountedIsAhead
    <3>2. S \subseteq Shown \cup Following
      BY <1>1, <2>1, <2>3, <3>1
    <3> QED BY <3>1, <3>2
  <2> QED BY <2>2, <2>3
<1>4. CASE phase \in {"new", "counted"}
  <2>1. Following = admitted
    BY <1>1, <1>4 DEF Following, Where
  <2>2. kind = "search" /\ changes = 0 /\ phase # "new" => total <= Cardinality(admitted)
    BY <1>1, <1>4 DEF CountedIsAhead
  <2> QED BY <1>2, <2>1, <2>2
<1> QED BY <1>1, <1>3, <1>4 DEF TypeOK

-----------------------------------------------------------------------------
(* The invariant is inductive. *)

(* It holds at the start. *)
LEMMA InitPagesInv == Init => PagesInv
<1> SUFFICES ASSUME Init PROVE PagesInv
  OBVIOUS
<1>1. PICK n \in 0 .. MaxRows : date \in [1 .. n -> DateOrNull]
  BY DEF Init
<1>2. n \in Nat /\ n <= MaxRows /\ MaxRows \in Nat /\ MaxChanges \in Nat
  BY <1>1, PageConstants
<1>3. date \in Seq(DateOrNull) /\ Len(date) <= MaxRows
  BY <1>1, <1>2
<1>4. /\ served = <<>> /\ phase = "new" /\ cursor = NoCursor /\ total = 0
      /\ changes = 0 /\ kind \in {"list", "search"} /\ undated = SomeUndated
      /\ admitted \in SUBSET (1 .. Len(date)) /\ steady = admitted
      /\ desc \in IF kind = "search" THEN {TRUE} ELSE BOOLEAN
  BY DEF Init
<1>5. served \in Seq(SUBSET Id) /\ DOMAIN served = {}
  BY <1>4
<1>6. undated \in BOOLEAN
  BY <1>4 DEF SomeUndated
<1>7. TypeOK
  <2>1. changes \in 0 .. MaxChanges /\ total \in 0 .. MaxRows
    BY <1>2, <1>4
  <2>2. desc \in BOOLEAN
    BY <1>4
  <2>3. \A k \in DOMAIN served : Cardinality(served[k]) <= MaxLimit
    BY <1>5
  <2> QED BY <1>3, <1>4, <1>5, <1>6, <2>1, <2>2, <2>3 DEF TypeOK
<1>8. Shown = {} /\ PagesAreSorted
  BY <1>5 DEF Shown, PagesAreSorted
<1>9. /\ kind = "search" => desc
      /\ SomeUndated => undated
      /\ Shown \subseteq Row
  BY <1>4, <1>8
<1>10. CursorIsLast /\ SteadyIsAhead /\ CountedIsAhead
  BY <1>4 DEF CursorIsLast, SteadyIsAhead, CountedIsAhead
<1>11. PagesAreComplete /\ TotalIsListed
  BY <1>4 DEF PagesAreComplete, TotalIsListed
<1> QED BY <1>4, <1>7, <1>8, <1>9, <1>10, <1>11 DEF PagesInv

(* CountTotal keeps it: it announces what is there. *)
LEMMA CountTotalKeepsPagesInv ==
  ASSUME PagesInv, CountTotal
  PROVE  PagesInv'
<1>1. /\ TypeOK /\ phase' = "counted" /\ total' = Cardinality(admitted)
      /\ served = <<>> /\ cursor = NoCursor /\ Shown \subseteq Row /\ PagesAreSorted
      /\ kind = "search" => desc
      /\ SomeUndated => undated
  BY DEF PagesInv, CountTotal
<1>2. UNCHANGED <<date, admitted, changes, kind, desc, cursor, served, steady, undated>>
  BY DEF CountTotal, rowVars
<1>3. admitted \in SUBSET Row
  BY <1>1 DEF TypeOK, Row
<1>4. Cardinality(admitted) \in Nat /\ Cardinality(admitted) <= MaxRows
  BY <1>1, <1>3, RowsAreFinite
<1>5. total' \in 0 .. MaxRows
  BY <1>1, <1>4, RowTypes
<1>6. TypeOK'
  BY <1>1, <1>2, <1>5 DEF TypeOK
<1>7. Shown' = Shown /\ Row' = Row /\ SomeUndated' = SomeUndated
  BY <1>2 DEF Shown, Row, SomeUndated
<1>8. PagesAreSorted'
  BY <1>1, <1>2 DEF PagesAreSorted, Before, LessThan
<1>9. CountedIsAhead'
  BY <1>1, <1>2, <1>4 DEF CountedIsAhead
<1> QED BY <1>1, <1>2, <1>6, <1>7, <1>8, <1>9
        DEF PagesInv, CursorIsLast, SteadyIsAhead, PagesAreComplete, TotalIsListed

(* CutPage keeps it: what the page leaves out is ahead of its last row. *)
LEMMA CutPageKeepsPagesInv ==
  ASSUME PagesInv, phase # "done", kind = "search" => phase # "new",
         NEW limit \in 1 .. MaxLimit, CutPage(limit),
         UNCHANGED <<rowVars, kind, desc, total, steady, undated>>
  PROVE  PagesInv'
<1>1. PICK last \in Following :
        /\ Cardinality(UpTo(last)) = limit
        /\ served' = Append(served, UpTo(last))
        /\ cursor' = <<date[last], last>>
        /\ phase' = "reading"
  BY DEF CutPage
<1>2. /\ TypeOK /\ Shown \subseteq Row /\ PagesAreSorted
      /\ kind = "search" => desc
      /\ SomeUndated => undated
  BY DEF PagesInv
<1>3. /\ Following \subseteq admitted /\ Following \subseteq Row
      /\ \A i \in Shown, j \in Following : Before(i, j)
  BY FollowingIsBehind
<1> DEFINE page == UpTo(last)
<1>4. page \subseteq Following
  BY DEF UpTo
<1>5. \A i \in Following : i \in page \/ Before(last, i)
  BY <1>1, <1>2, <1>3, BeforeIsOrder DEF UpTo
<1>6. \A i \in page : i = last \/ Before(i, last)
  BY DEF UpTo
<1>7. served' = Append(served, page) /\ Cardinality(page) = limit
  BY <1>1
<1> HIDE DEF page
<1>8. UNCHANGED <<date, admitted, changes, kind, desc, total, steady, undated>>
  BY DEF rowVars
<1>9. \A i, j : Before(i, j)' <=> Before(i, j)
  BY <1>8 DEF Before, LessThan
<1>10. Row \subseteq Id /\ MaxLimit \in Nat
  BY <1>2, RowTypes, PageConstants
<1>11. /\ served' \in Seq(SUBSET Id)
       /\ \A n \in DOMAIN served' : Cardinality(served'[n]) <= MaxLimit
       /\ Shown' = Shown \cup page
       /\ PagesAreSorted'
  <2>1. page \in SUBSET Id /\ Cardinality(page) <= MaxLimit
    BY <1>3, <1>4, <1>7, <1>10
  <2>2. \A i \in Shown, j \in page : Before(i, j)
    BY <1>3, <1>4
  <2> QED BY <1>2, <1>7, <1>8, <2>1, <2>2, PageIsAppended
<1>12. last \in Row /\ last \in Id /\ date[last] \in DateOrNull
  BY <1>1, <1>2, <1>3, <1>10, RowTypes
<1>13. cursor' # NoCursor /\ cursor'[1] = date[last] /\ cursor'[2] = last
  BY <1>1 DEF NoCursor
<1>14. TypeOK'
  <2>1. cursor' \in DateOrNull \X Id /\ phase' = "reading"
    BY <1>1, <1>12
  <2> QED BY <1>2, <1>8, <1>11, <2>1 DEF TypeOK
<1>15. CursorIsLast'
  <2>1. date[last] = Null => undated
    BY <1>1, <1>2, <1>3 DEF SomeUndated
  <2>2. \A i \in Shown' : i = last \/ Before(i, last)
    BY <1>1, <1>3, <1>6, <1>11
  <2>3. Row' = Row
    BY <1>8 DEF Row
  <2> QED BY <1>8, <1>9, <1>12, <1>13, <2>1, <2>2, <2>3 DEF CursorIsLast
<1>16. SteadyIsAhead'
  <2>1. desc \/ ~undated => steady \subseteq Shown \cup Following
    BY AheadIsFollowing
  <2> QED BY <1>5, <1>8, <1>9, <1>11, <1>13, <2>1 DEF SteadyIsAhead
<1>17. CountedIsAhead'
  <2>1. SUFFICES ASSUME kind = "search", changes = 0
                 PROVE  \E S \in SUBSET admitted :
                          /\ total <= Cardinality(S)
                          /\ \A i \in S : i \in Shown' \/ Before(last, i)
    BY <1>1, <1>8, <1>9, <1>13 DEF CountedIsAhead
  <2>2. PICK S \in SUBSET admitted :
          total <= Cardinality(S) /\ S \subseteq Shown \cup Following
    BY <2>1, AheadIsFollowing
  <2>3. \A i \in S : i \in Shown' \/ Before(last, i)
    BY <2>2, <1>5, <1>11
  <2> QED BY <2>2, <2>3
<1>18. Shown' \subseteq Row' /\ SomeUndated' = SomeUndated
  BY <1>2, <1>3, <1>4, <1>8, <1>11 DEF Row, SomeUndated
<1> QED BY <1>1, <1>2, <1>8, <1>11, <1>14, <1>15, <1>16, <1>17, <1>18
        DEF PagesInv, PagesAreComplete, TotalIsListed

(* LastPage keeps it: nothing of what was ahead is left out. *)
LEMMA LastPageKeepsPagesInv ==
  ASSUME PagesInv, phase # "done", kind = "search" => phase # "new",
         NEW limit \in 1 .. MaxLimit, LastPage(limit),
         UNCHANGED <<rowVars, kind, desc, total, steady, undated>>
  PROVE  PagesInv'
<1>1. /\ Cardinality(Following) <= limit
      /\ served' = Append(served, Following)
      /\ cursor' = NoCursor
      /\ phase' = "done"
  BY DEF LastPage
<1>2. /\ TypeOK /\ Shown \subseteq Row /\ PagesAreSorted
      /\ kind = "search" => desc
      /\ SomeUndated => undated
  BY DEF PagesInv
<1>3. /\ Following \subseteq admitted /\ Following \subseteq Row
      /\ \A i \in Shown, j \in Following : Before(i, j)
  BY FollowingIsBehind
<1>4. UNCHANGED <<date, admitted, changes, kind, desc, total, steady, undated>>
  BY DEF rowVars
<1>5. Row \subseteq Id /\ MaxLimit \in Nat
  BY <1>2, RowTypes, PageConstants
<1>6. Cardinality(Following) \in Nat
  BY <1>2, <1>3, RowsAreFinite
<1>7. Following \in SUBSET Id /\ Cardinality(Following) <= MaxLimit
  BY <1>1, <1>3, <1>5, <1>6
<1>8. /\ served' \in Seq(SUBSET Id)
      /\ \A n \in DOMAIN served' : Cardinality(served'[n]) <= MaxLimit
      /\ Shown' = Shown \cup Following
      /\ PagesAreSorted'
  BY <1>1, <1>2, <1>3, <1>4, <1>7, PageIsAppended
<1>9. TypeOK'
  BY <1>1, <1>2, <1>4, <1>8 DEF TypeOK
<1>10. PagesAreComplete'
  <2>1. desc \/ ~undated => steady \subseteq Shown \cup Following
    BY AheadIsFollowing
  <2> QED BY <1>4, <1>8, <2>1 DEF PagesAreComplete
<1>11. Shown' \subseteq Row
  BY <1>2, <1>3, <1>8
<1>12. TotalIsListed'
  <2>1. SUFFICES ASSUME kind = "search", changes = 0
                 PROVE  total <= Cardinality(Shown')
    BY <1>4 DEF TotalIsListed
  <2>2. PICK S \in SUBSET admitted :
          total <= Cardinality(S) /\ S \subseteq Shown \cup Following
    BY <2>1, AheadIsFollowing
  <2>3. S \in SUBSET Shown' /\ S \in SUBSET Row /\ Shown' \in SUBSET Row
    BY <2>2, <1>8, <1>11
  <2>4. IsFiniteSet(Shown') /\ Cardinality(Shown') \in Nat /\ Cardinality(S) \in Nat
    BY <1>2, <2>3, RowsAreFinite
  <2>5. Cardinality(S) <= Cardinality(Shown')
    BY <2>3, <2>4, FS_Subset
  <2>6. total \in Nat
    BY <1>2, RowTypes DEF TypeOK
  <2> QED BY <2>2, <2>4, <2>5, <2>6
<1>13. Row' = Row /\ SomeUndated' = SomeUndated
  BY <1>4 DEF Row, SomeUndated
<1> QED BY <1>1, <1>2, <1>4, <1>8, <1>9, <1>10, <1>11, <1>12, <1>13
        DEF PagesInv, CursorIsLast, SteadyIsAhead, CountedIsAhead

(* So do the steps of the archive between the pages: the rows that were      *)
(* there keep their dates, and what joined later is not in steady.           *)
LEMMA AdmitKeepsPagesInv ==
  ASSUME PagesInv, phase # "done", UNCHANGED queryVars,
         date' \in Seq(DateOrNull), Len(date') <= MaxRows,
         Row \subseteq Row', \A i \in Row : date'[i] = date[i],
         changes' \in 0 .. MaxChanges,
         NEW rows \in SUBSET Row', Admit(rows),
         changes' = 0 => changes = 0 /\ admitted \subseteq rows
  PROVE  PagesInv'
<1>1. /\ admitted' = rows /\ steady' = steady \cap rows
      /\ undated' = (undated \/ SomeUndated')
  BY DEF Admit
<1>2. UNCHANGED <<kind, desc, phase, cursor, total, served>>
  BY DEF queryVars
<1>3. /\ TypeOK /\ Shown \subseteq Row /\ PagesAreSorted
      /\ CursorIsLast /\ SteadyIsAhead /\ CountedIsAhead
      /\ kind = "search" => desc
      /\ phase \in {"new", "counted"} => served = <<>> /\ cursor = NoCursor
  BY DEF PagesInv
<1>4. undated' \in BOOLEAN
  BY <1>1, <1>3 DEF TypeOK, SomeUndated
<1>5. TypeOK'
  BY <1>1, <1>2, <1>3, <1>4 DEF TypeOK, Row
<1>6. Shown' = Shown
  BY <1>2 DEF Shown
<1>7. \A i, j \in Row : Before(i, j)' <=> Before(i, j)
  BY <1>2 DEF Before, LessThan
<1>8. admitted \subseteq Row /\ steady \subseteq Row /\ steady' \subseteq steady
  BY <1>1, <1>3 DEF TypeOK, Row
<1>9. CursorIsLast'
  <2>1. SUFFICES ASSUME phase = "reading" PROVE CursorIsLast'
    BY <1>2 DEF CursorIsLast
  <2>2. /\ cursor # NoCursor /\ cursor[2] \in Row /\ cursor[1] = date[cursor[2]]
        /\ cursor[1] = Null => undated
        /\ \A i \in Shown : i = cursor[2] \/ Before(i, cursor[2])
    BY <1>3, <2>1 DEF CursorIsLast
  <2>3. cursor'[1] = date'[cursor'[2]] /\ cursor'[2] \in Row'
    BY <1>2, <2>2
  <2>4. \A i \in Shown' : i = cursor'[2] \/ Before(i, cursor[2])'
    BY <1>2, <1>3, <1>6, <1>7, <2>2
  <2> QED BY <1>1, <1>2, <2>2, <2>3, <2>4 DEF CursorIsLast
<1>10. SteadyIsAhead'
  <2>1. SUFFICES ASSUME phase = "reading", desc \/ ~undated, NEW i \in steady'
                 PROVE  i \in Shown \/ Before(cursor[2], i)'
    BY <1>1, <1>2, <1>6 DEF SteadyIsAhead
  <2>2. cursor[2] \in Row
    BY <1>3, <2>1 DEF CursorIsLast
  <2>3. i \in Shown \/ Before(cursor[2], i)
    BY <1>3, <1>8, <2>1 DEF SteadyIsAhead
  <2>4. Before(cursor[2], i)' <=> Before(cursor[2], i)
    BY <1>2, <1>8, <2>1, <2>2 DEF Before, LessThan
  <2> QED BY <2>3, <2>4
<1>11. CountedIsAhead'
  <2>1. SUFFICES ASSUME kind = "search", changes' = 0 PROVE CountedIsAhead'
    BY <1>2 DEF CountedIsAhead
  <2>2. changes = 0 /\ admitted \subseteq admitted'
    BY <1>1, <2>1
  <2>3. phase = "counted" => total <= Cardinality(admitted')
    <3>1. SUFFICES ASSUME phase = "counted" PROVE total <= Cardinality(admitted')
      OBVIOUS
    <3>2. total <= Cardinality(admitted) /\ total \in Nat
      BY <1>3, <2>1, <2>2, <3>1, RowTypes DEF CountedIsAhead, TypeOK
    <3>3. admitted' \in SUBSET Row'
      BY <1>1
    <3>4. IsFiniteSet(admitted') /\ Cardinality(admitted') \in Nat
      <4> DEFINE n == Len(date')
      <4>1. n \in Nat
        OBVIOUS
      <4>2. admitted' \in SUBSET (1 .. n)
        BY <3>3 DEF Row
      <4> HIDE DEF n
      <4> QED BY <4>1, <4>2, NumbersAreFinite
    <3>5. Cardinality(admitted) \in Nat
      BY <1>3, <1>8, RowsAreFinite
    <3>6. Cardinality(admitted) <= Cardinality(admitted')
      BY <2>2, <3>4, FS_Subset
    <3> QED BY <3>2, <3>4, <3>5, <3>6
  <2>4. ASSUME phase = "reading"
        PROVE  \E S \in SUBSET admitted' :
                 /\ total <= Cardinality(S)
                 /\ \A i \in S : i \in Shown \/ Before(cursor[2], i)'
    <3>1. PICK S \in SUBSET admitted :
            /\ total <= Cardinality(S)
            /\ \A i \in S : i \in Shown \/ Before(cursor[2], i)
      BY <1>3, <2>1, <2>2, <2>4 DEF CountedIsAhead
    <3>2. cursor[2] \in Row
      BY <1>3, <2>4 DEF CursorIsLast
    <3>3. \A i \in S : Before(cursor[2], i)' <=> Before(cursor[2], i)
      BY <1>2, <1>8, <3>2 DEF Before, LessThan
    <3> QED BY <2>2, <3>1, <3>3
  <2> QED BY <1>2, <1>6, <2>3, <2>4 DEF CountedIsAhead
<1>12. PagesAreSorted'
  <2>1. \A n \in DOMAIN served : served[n] \subseteq Row
    BY <1>3 DEF Shown
  <2> QED BY <1>2, <1>3, <1>7, <2>1 DEF PagesAreSorted
<1>13. PagesAreComplete' /\ TotalIsListed'
  BY <1>2 DEF PagesAreComplete, TotalIsListed
<1> QED BY <1>1, <1>2, <1>3, <1>5, <1>6, <1>9, <1>10, <1>11, <1>12, <1>13 DEF PagesInv

(* Every step of the specification keeps the invariant. *)
LEMMA NextPagesInv == PagesInv /\ [Next]_vars => PagesInv'
<1> SUFFICES ASSUME PagesInv, [Next]_vars PROVE PagesInv'
  OBVIOUS
<1>1. /\ TypeOK /\ admitted \subseteq Row
  BY DEF PagesInv, TypeOK, Row
<1>2. Len(date) \in Nat /\ MaxChanges \in Nat /\ changes \in Nat
  BY <1>1, RowTypes, PageConstants DEF TypeOK
<1>3. \A asked \in 0 .. MaxLimit + 1 : Limit(asked) \in 1 .. MaxLimit
  BY PageConstants DEF Limit
<1>4. CASE CountTotal
  BY <1>4, CountTotalKeepsPagesInv
<1>5. ASSUME NEW asked \in 0 .. MaxLimit + 1, ListPage(asked) \/ SearchPage(asked)
      PROVE  PagesInv'
  <2>1. /\ phase # "done"
        /\ kind = "search" => phase # "new"
        /\ CutPage(Limit(asked)) \/ LastPage(Limit(asked))
        /\ UNCHANGED <<rowVars, kind, desc, total, steady, undated>>
    BY <1>5 DEF ListPage, SearchPage, ShowPage
  <2> QED BY <1>3, <2>1, CutPageKeepsPagesInv, LastPageKeepsPagesInv
<1>6. CASE SearchLikeFallback
  <2>1. /\ phase # "done" /\ changes < MaxChanges /\ changes' = changes + 1
        /\ date' = date /\ UNCHANGED queryVars
    BY <1>6 DEF SearchLikeFallback
  <2>2. PICK rows \in SUBSET Row : Admit(rows)
    BY <1>6 DEF SearchLikeFallback, Row
  <2>3. Row' = Row /\ date' \in Seq(DateOrNull) /\ Len(date') <= MaxRows
    BY <1>1, <2>1 DEF Row, TypeOK
  <2>4. changes' \in 0 .. MaxChanges /\ changes' # 0
    BY <1>2, <2>1
  <2> QED BY <2>1, <2>2, <2>3, <2>4, AdmitKeepsPagesInv
<1>7. ASSUME NEW d \in DateOrNull, InsertRow(d)
      PROVE  PagesInv'
  <2>1. /\ phase # "done" /\ Len(date) < MaxRows /\ date' = Append(date, d)
        /\ changes' = changes /\ UNCHANGED queryVars
    BY <1>7 DEF InsertRow
  <2>2. PICK new \in SUBSET {Len(date')} : Admit(admitted \cup new)
    BY <1>7 DEF InsertRow
  <2>3. /\ date' \in Seq(DateOrNull) /\ Len(date') = Len(date) + 1
        /\ \A i \in 1 .. Len(date) : date'[i] = date[i]
    BY <1>1, <1>7, <2>1 DEF TypeOK
  <2>4. Row' = 1 .. Len(date) + 1 /\ Len(date') <= MaxRows
    <3>1. Row' = 1 .. Len(date')
      BY DEF Row
    <3>2. Len(date) < MaxRows /\ Len(date') = Len(date) + 1 /\ MaxRows \in Nat
      BY <2>1, <2>3, PageConstants
    <3> DEFINE n == Len(date)
               m == Len(date')
    <3> HIDE DEF n, m
    <3>3. n \in Nat /\ n < MaxRows /\ m = n + 1 /\ MaxRows \in Nat
      BY <1>2, <3>2 DEF n, m
    <3>4. m <= MaxRows
      BY <3>3
    <3> QED BY <3>1, <3>3, <3>4 DEF n, m
  <2>5. Row \subseteq Row' /\ admitted \cup new \in SUBSET Row'
    <3> DEFINE n == Len(date)
    <3>1. n \in Nat /\ Row' = 1 .. n + 1 /\ Row = 1 .. n /\ admitted \subseteq Row
      BY <1>1, <1>2, <2>4 DEF Row
    <3>2. new \subseteq {n + 1}
      BY <2>2, <2>3
    <3> HIDE DEF n
    <3>3. 1 .. n \subseteq 1 .. n + 1 /\ n + 1 \in 1 .. n + 1
      BY <3>1
    <3> QED BY <3>1, <3>2, <3>3
  <2>6. changes' \in 0 .. MaxChanges
    BY <1>1, <2>1 DEF TypeOK
  <2> QED BY <2>1, <2>2, <2>3, <2>4, <2>5, <2>6, AdmitKeepsPagesInv DEF Row
<1>8. ASSUME NEW i \in Id, ChangeRow(i)
      PROVE  PagesInv'
  <2>1. /\ phase # "done" /\ changes < MaxChanges /\ changes' = changes + 1
        /\ date' = date /\ UNCHANGED queryVars /\ i \in Row
    BY <1>8 DEF ChangeRow, Row
  <2>2. PICK rows \in {admitted \cup {i}, admitted \ {i}} : Admit(rows)
    BY <1>8 DEF ChangeRow
  <2>3. Row' = Row /\ date' \in Seq(DateOrNull) /\ Len(date') <= MaxRows
    BY <1>1, <2>1 DEF Row, TypeOK
  <2>4. changes' \in 0 .. MaxChanges /\ changes' # 0 /\ rows \in SUBSET Row
    BY <1>1, <1>2, <2>1, <2>2
  <2> QED BY <2>1, <2>2, <2>3, <2>4, AdmitKeepsPagesInv
<1>9. CASE UNCHANGED vars
  BY <1>9 DEF vars, rowVars, queryVars, PagesInv, TypeOK, Row, Shown, SomeUndated,
     CursorIsLast, SteadyIsAhead, CountedIsAhead, PagesAreSorted, PagesAreComplete,
     TotalIsListed, Before, LessThan
<1> QED BY <1>4, <1>5, <1>6, <1>7, <1>8, <1>9 DEF Next

(* The inductive invariant holds in every state. *)
LEMMA PagesInvHolds == Spec => []PagesInv
<1> QED BY InitPagesInv, NextPagesInv, PTL DEF Spec
-----------------------------------------------------------------------------
(* There always is a page to show. *)

(* Of some subsets of a finite set, one contains none of the others. *)
LEMMA SmallestSubset ==
  ASSUME NEW F, IsFiniteSet(F), NEW T \in SUBSET (SUBSET F), T # {}
  PROVE  \E D \in T : \A E \in T : ~(E \subseteq D /\ E # D)
<1> DEFINE R == StrictSubsetOrdering(F)
<1>1. IsWellFoundedOn(R, FiniteSubsetsOf(F))
  BY FS_StrictSubsetOrderingWellFounded
<1>2. T \subseteq FiniteSubsetsOf(F)
  <2>1. ASSUME NEW D \in T
        PROVE  D \in SUBSET F /\ IsFiniteSet(D)
    BY FS_Subset
  <2> QED BY <2>1 DEF FiniteSubsetsOf
<1> HIDE DEF R
<1>3. PICK D \in T : \A E \in T : ~(<<E, D>> \in R)
  BY <1>1, <1>2, WFMin
<1>4. ASSUME NEW E \in T, E \subseteq D, E # D
      PROVE  <<E, D>> \in R
  BY <1>4 DEF R, StrictSubsetOrdering
<1>5. \A E \in T : ~(E \subseteq D /\ E # D)
  BY <1>3, <1>4
<1> QED BY <1>5

(* Finitely many rows have a last one. *)
LEMMA LastRow ==
  ASSUME TypeOK, NEW S \in SUBSET Row, S # {}
  PROVE  \E last \in S : \A i \in S : i = last \/ Before(i, last)
<1> DEFINE From(j) == {i \in S : i = j \/ Before(j, i)}
           T == {From(j) : j \in S}
<1>1. IsFiniteSet(S)
  BY RowsAreFinite
<1>2. T \in SUBSET (SUBSET S) /\ T # {}
  OBVIOUS
<1> HIDE DEF T
<1>3. PICK D \in T : \A E \in T : ~(E \subseteq D /\ E # D)
  BY <1>1, <1>2, SmallestSubset
<1>4. PICK last \in S : D = From(last)
  BY <1>3 DEF T
<1>5. ASSUME NEW i \in S, i # last, ~Before(i, last)
      PROVE  FALSE
  <2>1. Before(last, i)
    BY <1>5, BeforeIsOrder
  <2>2. From(i) \subseteq From(last)
    BY <2>1, BeforeIsOrder
  <2>3. last \notin From(i) /\ last \in From(last)
    BY <1>5
  <2>4. From(i) \in T
    BY DEF T
  <2> QED BY <1>3, <1>4, <2>2, <2>3, <2>4
<1> QED BY <1>5

(* When more rows follow than the limit, one of them ends the page. *)
LEMMA PageEnds ==
  ASSUME TypeOK, Following \subseteq Row, NEW limit \in Nat \ {0},
         limit < Cardinality(Following)
  PROVE  \E last \in Following :
           UpTo(last) # Following /\ Cardinality(UpTo(last)) = limit
<1> DEFINE Closed(D) == \A i \in D, j \in Following : Before(j, i) => j \in D
           T == {D \in SUBSET Following : Closed(D) /\ limit <= Cardinality(D)}
<1>1. /\ IsFiniteSet(Following)
      /\ \A D \in SUBSET Following : IsFiniteSet(D) /\ Cardinality(D) \in Nat
  BY RowsAreFinite
<1>2. Following \in T
  BY <1>1
<1>3. T \in SUBSET (SUBSET Following) /\ T # {}
  BY <1>2
<1> HIDE DEF T
<1>4. PICK D \in T : \A E \in T : ~(E \subseteq D /\ E # D)
  BY <1>1, <1>3, SmallestSubset
<1>5. D \subseteq Following /\ Closed(D) /\ limit <= Cardinality(D)
  BY DEF T
<1>6. D # {} /\ IsFiniteSet(D) /\ Cardinality(D) \in Nat
  <2>1. IsFiniteSet(D) /\ Cardinality(D) \in Nat
    BY <1>1, <1>5
  <2>2. Cardinality(D) # 0
    BY <1>5, <2>1
  <2> QED BY <2>1, <2>2, FS_EmptySet
<1>7. PICK last \in D : \A i \in D : i = last \/ Before(i, last)
  BY <1>5, <1>6, LastRow
<1>8. Cardinality(D) = limit
  <2> DEFINE E == D \ {last}
  <2>1. IsFiniteSet(E) /\ Cardinality(E) = Cardinality(D) - 1
    BY <1>6, FS_RemoveElement
  <2>2. Closed(E)
    <3>1. SUFFICES ASSUME NEW i \in E, NEW j \in Following, Before(j, i)
                   PROVE  j \in E
      OBVIOUS
    <3>2. j \in D
      BY <1>5, <3>1
    <3>3. j # last
      <4>1. i \in Row /\ last \in Row /\ Before(i, last)
        BY <1>5, <1>7
      <4> QED BY <3>1, <4>1, BeforeIsOrder
    <3> QED BY <3>2, <3>3
  <2>3. E \notin T /\ E \in SUBSET Following
    BY <1>4, <1>5
  <2>4. ~(limit <= Cardinality(E))
    BY <2>2, <2>3 DEF T
  <2> QED BY <1>5, <1>6, <2>1, <2>4
<1>9. UpTo(last) = D
  <2>1. D \subseteq UpTo(last)
    BY <1>5, <1>7 DEF UpTo
  <2>2. UpTo(last) \subseteq D
    BY <1>5 DEF UpTo
  <2> QED BY <2>1, <2>2
<1>10. D # Following
  BY <1>8
<1> QED BY <1>5, <1>8, <1>9, <1>10

(* What a page of limit rows can show: all that follow, or so many of them   *)
(* up to a row that becomes the cursor.                                      *)
HasPage(limit) ==
    \/ Cardinality(Following) <= limit
    \/ \E last \in Following :
          UpTo(last) # Following /\ Cardinality(UpTo(last)) = limit
-----------------------------------------------------------------------------
(* The variables of a listing keep their types: a page never has more rows  *)
(* than MaxLimit, whatever limit is asked for.                               *)
THEOREM PagesTypeCorrect == Spec => []TypeOK
<1>1. PagesInv => TypeOK
  BY DEF PagesInv
<1> QED BY <1>1, PagesInvHolds, PTL

(* The pages follow one another in the order of the listing, and no message *)
(* is in two of them (List, searchFTS, cursorWhereDesc, cursorWhereAsc).     *)
THEOREM PagesFollowInOrder == Spec => []PagesAreSorted
<1>1. PagesInv => PagesAreSorted
  BY DEF PagesInv
<1> QED BY <1>1, PagesInvHolds, PTL

(* Who reads to the end has seen what was there all the time, except for an *)
(* ascending list with messages that have no date.                           *)
THEOREM PagesLeaveNothingOut == Spec => []PagesAreComplete
<1>1. PagesInv => PagesAreComplete
  BY DEF PagesInv
<1> QED BY <1>1, PagesInvHolds, PTL

(* A search shows at least what it announced, when nothing changed in the   *)
(* meantime: count and pages are statements of their own.                    *)
THEOREM SearchKeepsItsCount == Spec => []TotalIsListed
<1>1. PagesInv => TotalIsListed
  BY DEF PagesInv
<1> QED BY <1>1, PagesInvHolds, PTL

(* There is a page to show until all is done, for each limit the handler     *)
(* lets through: the ids break all ties, so the cut never has to fall        *)
(* between rows that the cursor could not tell apart.                        *)
THEOREM PageAlwaysExists ==
  Spec => [](phase # "done" => \A limit \in 1 .. MaxLimit : HasPage(limit))
<1>1. ASSUME PagesInv, phase # "done", NEW limit \in 1 .. MaxLimit
      PROVE  HasPage(limit)
  <2>1. TypeOK /\ Following \subseteq Row
    BY <1>1, FollowingIsBehind DEF PagesInv
  <2>2. Cardinality(Following) \in Nat
    BY <2>1, RowsAreFinite
  <2>3. limit \in Nat \ {0}
    BY PageConstants
  <2>4. CASE limit < Cardinality(Following)
    BY <2>1, <2>3, <2>4, PageEnds DEF HasPage
  <2>5. CASE ~(limit < Cardinality(Following))
    BY <2>2, <2>3, <2>5 DEF HasPage
  <2> QED BY <2>4, <2>5
<1>2. PagesInv => (phase # "done" => \A limit \in 1 .. MaxLimit : HasPage(limit))
  BY <1>1
<1> QED BY <1>2, PagesInvHolds, PTL
=============================================================================
