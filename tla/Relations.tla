----------------------------- MODULE Relations -----------------------------
(***************************************************************************)
(* Relations between two issues, which a client may name from either end    *)
(* and the table stores once; and triage, where an issue is declined as the *)
(* duplicate of another in the transaction that relates them.  An insertion *)
(* waits for one of the same row that has not committed.                    *)
(***************************************************************************)
EXTENDS Naturals

CONSTANTS
  Pair,    \* issues, by number: their ids are ordered
  Linkers, \* requests that relate issues
  None

VARIABLES
  edges,   \* issue_relations, with whom it was told, and history: how it was named
  linking, \* the relation each request has inserted and not committed
  queued,  \* issues in triage
  copies   \* history: <<i, j>> where i was declined as j's duplicate and the row is there

relationVars == <<edges, linking, queued, copies>>

LegalRelationConstants == Pair \subseteq Nat /\ None \notin Pair

Names == {"blocks", "blocked_by", "related", "duplicate"}
SYMMETRIC_TYPES == {"related", "duplicate"}
Calls == {c \in [source : Pair, target : Pair, name : Names] : c.source # c.target}
invert(name) ==
  CASE name = "blocks" -> "blocked_by" [] name = "blocked_by" -> "blocks" [] OTHER -> name

\* The row that stands for what the caller named.
_canonical(c) ==
  IF c.name = "blocked_by" THEN [source |-> c.target, target |-> c.source, type |-> "blocks"]
  ELSE IF c.name \in SYMMETRIC_TYPES /\ c.target < c.source
       THEN [source |-> c.target, target |-> c.source, type |-> c.name]
  ELSE [source |-> c.source, target |-> c.target, type |-> c.name]

_blocked_issue_id(c) ==
  CASE c.name = "blocks" -> c.target [] c.name = "blocked_by" -> c.source [] OTHER -> None

\* What the timeline of i shows of a row: the other issue, and a name.
list_relations(i) ==
  {[id |-> r, name |-> r.type, other |-> r.target] : r \in {e.row : e \in {x \in edges : x.row.source = i}}}
  \union {[id |-> r, name |-> invert(r.type), other |-> r.source] : r \in {e.row : e \in {x \in edges : x.row.target = i}}}

RelationTypeOK ==
  /\ \A e \in edges : e.call \in Calls /\ e.row = _canonical(e.call) /\ e.told \in Pair \union {None}
  /\ \A e, f \in edges : e.row = f.row => e = f
  /\ \A c \in Linkers : linking[c] # None => linking[c].call \in Calls /\ linking[c].kind \in {"create", "mark"}
  /\ queued \subseteq Pair /\ copies \subseteq Pair \X Pair

RelationInit ==
  /\ edges = {} /\ linking = [c \in Linkers |-> None]
  /\ queued = {} /\ copies = {}

-----------------------------------------------------------------------------
\* issue_relations_unique: nobody has the row, committed or not.
Free(row) ==
  /\ \A e \in edges : e.row # row
  /\ \A c \in Linkers : linking[c] # None => linking[c].row # row
\* issue_relations_symmetric_ordered.
Ordered(row) == row.type \in SYMMETRIC_TYPES => row.source < row.target
Over(c) == linking' = [linking EXCEPT ![c] = None]

\* create_relation's insertion, of a request of either kind.
Insert(c, call, kind) ==
  LET row == _canonical(call) IN
  /\ linking[c] = None /\ Free(row) /\ Ordered(row)
  /\ kind = "mark" => call.name = "duplicate"
  /\ linking' = [linking EXCEPT ![c] = [call |-> call, row |-> row, kind |-> kind]]
  /\ UNCHANGED <<edges, queued, copies>>

Recorded(c, told) ==
  edges' = edges \union {[row |-> linking[c].row, call |-> linking[c].call, told |-> told]}

\* create_relation: both timelines, the blocked issue's assignee, and the commit.
Relate(c) ==
  /\ linking[c] # None /\ linking[c].kind = "create"
  /\ Recorded(c, _blocked_issue_id(linking[c].call)) /\ Over(c)
  /\ UNCHANGED <<queued, copies>>

\* mark_duplicate: the issue is declined, if it is still in triage, and the commit.
Decline(c) ==
  LET i == linking[c].call.source IN
  /\ linking[c] # None /\ linking[c].kind = "mark" /\ i \in queued
  /\ queued' = queued \ {i} /\ copies' = copies \union {<<i, linking[c].call.target>>}
  /\ Recorded(c, None) /\ Over(c)

\* It is not, or the team has no state to decline into, or the process dies.
Rollback(c) == linking[c] # None /\ Over(c) /\ UNCHANGED <<edges, queued, copies>>

delete_relation(e) ==
  /\ e \in edges /\ edges' = edges \ {e}
  /\ copies' = copies \ (IF e.row.type = "duplicate"
                         THEN {<<e.row.source, e.row.target>>, <<e.row.target, e.row.source>>} ELSE {})
  /\ UNCHANGED <<linking, queued>>

Enter(i) == i \notin queued /\ queued' = queued \union {i} /\ UNCHANGED <<edges, linking, copies>>
\* Accepted, or declined for itself.
Accept(i) == i \in queued /\ queued' = queued \ {i} /\ UNCHANGED <<edges, linking, copies>>

RelationNext ==
  \/ \E c \in Linkers :
       \/ \E call \in Calls, kind \in {"create", "mark"} : Insert(c, call, kind)
       \/ Relate(c) \/ Decline(c) \/ Rollback(c)
  \/ \E e \in edges : delete_relation(e)
  \/ \E i \in Pair : Enter(i) \/ Accept(i)

RelationSpec == RelationInit /\ [][RelationNext]_relationVars

-----------------------------------------------------------------------------
(* A relation reads at either end as whoever made it named it, from there;  *)
(* and the one who was told that work is blocked holds the blocked issue.   *)
RelationsReadAsNamed == \A e \in edges : LET c == e.call IN
  /\ [id |-> e.row, name |-> c.name, other |-> c.target] \in list_relations(c.source)
  /\ [id |-> e.row, name |-> invert(c.name), other |-> c.source] \in list_relations(c.target)
  /\ \A i \in Pair : [id |-> e.row, name |-> "blocked_by", other |-> e.row.source] \in list_relations(i) => e.told = i

(* Two issues are never both declined as the duplicate of the other, though *)
(* two people may decide so at once.                                        *)
OriginalsStay == \A i, j \in Pair : ~ {<<i, j>>, <<j, i>>} \subseteq copies
=============================================================================
