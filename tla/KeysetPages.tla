---------------------------- MODULE KeysetPages ----------------------------
(***************************************************************************)
(* A list of issues read page by page.  The cursor is the sort key and id   *)
(* of the last row of a page; every page is a statement of its own, and     *)
(* between two of them rows change their keys, leave the filter and come    *)
(* back.  A key may be NULL: PostgreSQL sorts it last in ascending order    *)
(* and first in descending order.                                           *)
(***************************************************************************)
EXTENDS Naturals, FiniteSets

CONSTANTS
  Work,        \* issues, numbered in the order of their ids
  SortKeys,    \* values of the column sorted by, None aside
  PageSizes,   \* values of first
  None

VARIABLES
  key,         \* the column of each issue
  listed,      \* the issues the filter lets through
  descending,  \* the direction of the walk
  cursor,      \* after; Start before the first page, End after the last
  shown,       \* history: rows returned by the walk so far
  repeated,    \* history: rows returned more than once
  steady       \* history: rows that have not changed since the walk began

pageVars == <<key, listed, descending, cursor, shown, repeated, steady>>

LegalPageConstants ==
  /\ Work \subseteq Nat /\ IsFiniteSet(Work) /\ SortKeys \subseteq Nat
  /\ PageSizes \subseteq Nat \ {0} /\ None \notin SortKeys

Start == [at |-> "start"]
End == [at |-> "end"]
Cursors == [at : {"row"}, key : SortKeys \union {None}, id : Work]

PageTypeOK ==
  /\ key \in [Work -> SortKeys \union {None}] /\ listed \subseteq Work
  /\ descending \in BOOLEAN
  /\ cursor \in {Start, End} \union Cursors
  /\ repeated \subseteq shown /\ shown \subseteq Work /\ steady \subseteq Work

PageInit ==
  /\ key \in [Work -> SortKeys \union {None}] /\ listed = Work
  /\ descending \in BOOLEAN
  /\ cursor = Start /\ shown = {} /\ repeated = {} /\ steady = Work

\* The ORDER BY: key, then id, both in the direction of the walk, NULLs as above.
Precedes(i, j) ==
  IF key[i] = key[j] THEN (IF descending THEN i > j ELSE i < j)
  ELSE IF key[i] = None THEN descending
  ELSE IF key[j] = None THEN ~descending
  ELSE (IF descending THEN key[i] > key[j] ELSE key[i] < key[j])

\* (key, id) < or > (k, i), which is not true when the row's key is NULL.
RowPast(i, c) ==
  /\ key[i] # None
  /\ IF descending THEN key[i] < c.key \/ (key[i] = c.key /\ i < c.id)
                   ELSE key[i] > c.key \/ (key[i] = c.key /\ i > c.id)

IdPast(i, c) == IF descending THEN i < c.id ELSE i > c.id

\* Mutant: the row comparison alone.
PastCursorByValue(i, c) ==
  IF c.key = None THEN key[i] = None /\ IdPast(i, c) ELSE RowPast(i, c)
\* _add_keyset.
PastCursor(i, c) ==
  CASE c.key = None /\ descending -> key[i] # None \/ IdPast(i, c)
    [] c.key = None /\ ~descending -> key[i] = None /\ IdPast(i, c)
    [] c.key # None /\ ~descending -> key[i] = None \/ RowPast(i, c)
    [] OTHER -> RowPast(i, c)

Matching == {i \in listed : cursor = Start \/ PastCursor(i, cursor)}
Rank(i, S) == Cardinality({j \in S : Precedes(j, i)})

\* IssueService.list: first + 1 rows are read, the last one only to know there is one.
NextPage(first) ==
  /\ cursor # End
  /\ LET rows == {i \in Matching : Rank(i, Matching) < first + 1}
         nodes == {i \in rows : Rank(i, rows) < first}
     IN /\ shown' = shown \union nodes
        /\ repeated' = repeated \union (shown \intersect nodes)
        /\ cursor' = IF Cardinality(rows) > first
                     THEN LET last == CHOOSE i \in nodes : Rank(i, nodes) = first - 1
                          IN [at |-> "row", key |-> key[last], id |-> last]
                     ELSE End
  /\ UNCHANGED <<key, listed, descending, steady>>

\* An edit of the column the list is sorted by.
Reorder(i, k) ==
  /\ key[i] # k /\ key' = [key EXCEPT ![i] = k]
  /\ steady' = steady \ {i}
  /\ UNCHANGED <<listed, descending, cursor, shown, repeated>>

\* An edit that takes the issue out of the filter, or brings it back.
Refilter(i) ==
  /\ listed' = IF i \in listed THEN listed \ {i} ELSE listed \union {i}
  /\ steady' = steady \ {i}
  /\ UNCHANGED <<key, descending, cursor, shown, repeated>>

PageNext ==
  \/ \E first \in PageSizes : NextPage(first)
  \/ \E i \in Work, k \in SortKeys \union {None} : Reorder(i, k)
  \/ \E i \in Work : Refilter(i)

PageSpec == PageInit /\ [][PageNext]_pageVars

-----------------------------------------------------------------------------
(* Whatever happens to other rows between the pages, a row that stays as it *)
(* was is returned by the walk, and returned once.                          *)
WalkIsComplete ==
  /\ repeated \intersect steady = {}
  /\ cursor = End => steady \subseteq shown
=============================================================================
