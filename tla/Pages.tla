-------------------------------- MODULE Pages --------------------------------
(***************************************************************************)
(* Listing and searching messages page by page, while the archive works    *)
(* (internal/repository/sqlite: message_repo.go List, search_repo.go,      *)
(* cursor.go; the client follows next_cursor, docs/API.md).  Each page is   *)
(* one query, that is one snapshot; between two of them rows are indexed,  *)
(* removed with their account, and change so that the filter of the list,  *)
(* or the text of the search, begins or ceases to admit them.              *)
(*                                                                         *)
(* Ids are version 7 UUIDs, so they grow with time: the numbers in the     *)
(* order of insertion.  A date is a number, and NULL is the least value,   *)
(* which is where SQLite sorts it.  The order by size, whose cursor still  *)
(* holds the date, is left out.  A page is the set of its messages: the    *)
(* order among them is that of the query, whose last row names the cursor. *)
(***************************************************************************)
EXTENDS Naturals, FiniteSets, Sequences

CONSTANTS
    MaxRows,               \* bound: rows ever inserted
    MaxDate,               \* bound: different dates
    MaxLimit,              \* the largest page, 200
    DefaultLimit,          \* the page when the limit is missing or out of range, 50
    MaxChanges             \* bound: changes of what the filter admits, and removals

ASSUME PageConstants ==
    /\ MaxRows \in Nat /\ MaxDate \in Nat /\ MaxChanges \in Nat
    /\ MaxLimit \in Nat \ {0}
    /\ DefaultLimit \in 1 .. MaxLimit

Id == 1 .. MaxRows
Null == 0
DateOrNull == 0 .. MaxDate
NoCursor == <<>>

VARIABLES
    date,                  \* the dates of the rows ever inserted, in order of their ids
    admitted,              \* SUBSET Id: rows that are there and pass the filter
    changes,               \* counts changes, up to MaxChanges
    kind,                  \* "list" or "search"
    desc,                  \* BOOLEAN: dir, always descending for a search
    phase,                 \* "new", "counted", "reading" or "done"
    cursor,                \* <<date, id>> of the last message shown, or NoCursor
    total,                 \* of a search
    served,                \* history: the pages, one after the other
    steady,                \* history: rows admitted at the start and ever since
    undated                \* history: a row without a date was admitted since the start

rowVars == <<date, admitted, changes>>
queryVars == <<kind, desc, phase, cursor, total, served>>
vars == <<rowVars, queryVars, steady, undated>>

TypeOK ==
    /\ date \in Seq(DateOrNull) /\ Len(date) <= MaxRows
    /\ admitted \in SUBSET (1 .. Len(date))
    /\ changes \in 0 .. MaxChanges
    /\ kind \in {"list", "search"}
    /\ desc \in BOOLEAN
    /\ phase \in {"new", "counted", "reading", "done"}
    /\ cursor \in (DateOrNull \X Id) \cup {NoCursor}
    /\ total \in 0 .. MaxRows
    /\ served \in Seq(SUBSET Id)
    /\ \A n \in DOMAIN served : Cardinality(served[n]) <= MaxLimit
    /\ steady \in SUBSET admitted
    /\ undated \in BOOLEAN

(* The messages that were shown. *)
Shown == UNION {served[n] : n \in DOMAIN served}

SomeUndated == \E i \in admitted : date[i] = Null

Init ==
    /\ \E n \in 0 .. MaxRows : date \in [1 .. n -> DateOrNull]
    /\ admitted \in SUBSET (1 .. Len(date))
    /\ changes = 0
    /\ kind \in {"list", "search"}
    /\ desc \in IF kind = "search" THEN {TRUE} ELSE BOOLEAN
    /\ phase = "new"
    /\ cursor = NoCursor
    /\ total = 0
    /\ served = <<>>
    /\ steady = admitted
    /\ undated = SomeUndated
-----------------------------------------------------------------------------
(* ORDER BY date DESC, id DESC: NULL, the least, comes last.  ASC: first.  *)
LessThan(d, i, e, j) == d < e \/ (d = e /\ i < j)
Before(i, j) ==
    IF desc THEN LessThan(date[j], j, date[i], i) ELSE LessThan(date[i], i, date[j], j)

(* Variant for testing the checks: forgets the rows without a date.        *)
CursorWhereDated(i) == date[i] # Null /\ LessThan(date[i], i, cursor[1], cursor[2])

(* Variant for testing the checks: does not break ties by the id.          *)
CursorWhereUntied(i) == date[i] = Null \/ date[i] <= cursor[1]

(* cursorWhereDesc and cursorWhereAsc on a cursor that was decoded: what    *)
(* is compared with NULL is not true, so NULL is asked for by name.         *)
CursorWhereDesc(i) ==
    IF cursor[1] # Null
      THEN date[i] = Null \/ LessThan(date[i], i, cursor[1], cursor[2])
      ELSE date[i] = Null /\ i < cursor[2]

CursorWhereAsc(i) ==
    IF cursor[1] # Null
      THEN date[i] # Null /\ LessThan(cursor[1], cursor[2], date[i], i)
      ELSE date[i] = Null /\ i > cursor[2]

Where(i) ==
    \/ cursor = NoCursor
    \/ desc /\ CursorWhereDesc(i)
    \/ ~desc /\ CursorWhereAsc(i)

Limit(asked) == IF asked < 1 \/ asked > MaxLimit THEN DefaultLimit ELSE asked

(* The rows a page is taken from. *)
Following == {i \in admitted : Where(i)}

(* ORDER BY as far as the row last. *)
UpTo(last) == {i \in Following : i = last \/ Before(i, last)}

(* Variant for testing the checks: counts what the filter does not admit. *)
CountAllRows ==
    /\ phase = "new"
    /\ kind = "search"
    /\ phase' = "counted"
    /\ total' = Len(date)
    /\ UNCHANGED <<rowVars, kind, desc, cursor, served, steady, undated>>

(* The count of a search without a cursor: a statement of its own. *)
CountTotal ==
    /\ phase = "new"
    /\ kind = "search"
    /\ phase' = "counted"
    /\ total' = Cardinality(admitted)
    /\ UNCHANGED <<rowVars, kind, desc, cursor, served, steady, undated>>

(* Variant for testing the checks: shows the row that was fetched in excess. *)
CutPageUncut(limit) ==
    \E last \in Following :
        /\ UpTo(last) # Following
        /\ Cardinality(UpTo(last)) = limit + 1
        /\ served' = Append(served, UpTo(last))
        /\ cursor' = <<date[last], last>>
        /\ phase' = "reading"

(* There are more rows than the limit: the query, which asks for one in     *)
(* excess, is cut after limit of them, and the cursor is that of the last.  *)
CutPage(limit) ==
    \E last \in Following :
        /\ UpTo(last) # Following
        /\ Cardinality(UpTo(last)) = limit
        /\ served' = Append(served, UpTo(last))
        /\ cursor' = <<date[last], last>>
        /\ phase' = "reading"

(* The query returns all there is. *)
LastPage(limit) ==
    /\ Cardinality(Following) <= limit
    /\ served' = Append(served, Following)
    /\ cursor' = NoCursor
    /\ phase' = "done"

ShowPage(limit) ==
    /\ CutPage(limit) \/ LastPage(limit)
    /\ UNCHANGED <<rowVars, kind, desc, total, steady, undated>>

(* The limit may differ from page to page. *)
ListPage(asked) ==
    /\ kind = "list"
    /\ phase \in {"new", "reading"}
    /\ ShowPage(Limit(asked))

SearchPage(asked) ==
    /\ kind = "search"
    /\ phase \in {"counted", "reading"}
    /\ ShowPage(Limit(asked))
-----------------------------------------------------------------------------
Admit(rows) ==
    /\ admitted' = rows
    /\ steady' = steady \cap rows
    /\ undated' = (undated \/ SomeUndated')

(* upsertMetaBatch; the filter may admit the new row. *)
InsertRow(d) ==
    /\ phase # "done"
    /\ Len(date) < MaxRows
    /\ date' = Append(date, d)
    /\ \E new \in SUBSET {Len(date')} : Admit(admitted \cup new)
    /\ UNCHANGED <<changes, queryVars>>

(* A row is archived, deleted on the server, restored or removed. *)
ChangeRow(i) ==
    /\ phase # "done"
    /\ changes < MaxChanges
    /\ changes' = changes + 1
    /\ i \in 1 .. Len(date)
    /\ UNCHANGED <<date, queryVars>>
    /\ \E rows \in {admitted \cup {i}, admitted \ {i}} : Admit(rows)

(* The full-text query fails, and LIKE, which takes its place, finds others. *)
SearchLikeFallback ==
    /\ kind = "search"
    /\ phase # "done"
    /\ changes < MaxChanges
    /\ changes' = changes + 1
    /\ UNCHANGED <<date, queryVars>>
    /\ \E rows \in SUBSET (1 .. Len(date)) : Admit(rows)

Next ==
    \/ CountTotal
    \/ \E asked \in 0 .. MaxLimit + 1 : ListPage(asked) \/ SearchPage(asked)
    \/ SearchLikeFallback
    \/ \E d \in DateOrNull : InsertRow(d)
    \/ \E i \in Id : ChangeRow(i)

Spec == Init /\ [][Next]_vars
-----------------------------------------------------------------------------
(* The pages follow one another in the order of the listing, so no message *)
(* is shown twice, whatever is inserted, removed or changed between them    *)
(* (the cursor clauses agree with ORDER BY).                                *)
PagesAreSorted ==
    \A m, n \in DOMAIN served :
        m < n => \A i \in served[m], j \in served[n] : Before(i, j)

(* When the last page was read, every message that the filter admitted all *)
(* the time was shown.  An ascending list with messages without a date is  *)
(* excepted: a cursor on one of them never leaves them (cursorWhereAsc).    *)
PagesAreComplete ==
    phase = "done" /\ (desc \/ ~undated) => steady \subseteq Shown

(* A search shows at least as many messages as it announced, unless some   *)
(* changed meanwhile: the count and the pages are separate statements with *)
(* one condition (searchFTS, buildSearchWhere).                             *)
TotalIsListed ==
    phase = "done" /\ kind = "search" /\ changes = 0 =>
        total <= Cardinality(Shown)
=============================================================================
