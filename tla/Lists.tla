------------------------------- MODULE Lists -------------------------------
(***************************************************************************)
(* Every paginated list but that of issues (KeysetPages has it): a WHERE,   *)
(* an ORDER BY of one column that is never NULL in it, and the id.  Pages   *)
(* are statements of their own; between them rows are committed, renamed,   *)
(* moved, flipped and deleted.  created_at is the start of a transaction,   *)
(* so a row may appear behind rows that were committed before it.           *)
(***************************************************************************)
EXTENDS Naturals, FiniteSets

CONSTANTS
  Records,  \* rows of the table, numbered in the order of their ids
  Keys,     \* instants, and names
  Place,    \* the issue, team or project one asks about
  Firsts,   \* values of first
  None

VARIABLES
  list,      \* which one is walked
  rec,       \* its table
  asked,     \* the filter's arguments
  resume,    \* after
  got,       \* history: rows returned by the walk
  twice,     \* history: rows returned more than once
  replaced,  \* history: rows whose key has changed, since the walk began
  stable     \* history: rows that have not changed

listVars == <<list, rec, asked, resume, got, twice, replaced, stable>>

LegalListConstants ==
  /\ Records \subseteq Nat /\ IsFiniteSet(Records) /\ Keys \subseteq Nat /\ Firsts \subseteq Nat \ {0}
  /\ None \notin Keys

\* The columns the statements read: what is sorted by, what the row hangs off, and one flag
\* (unread; not archived; or visible to the viewer, and of the team the filter names).
Row == [key : Keys, of : {{}, {Place}}, open : BOOLEAN]
Present == {r \in Records : rec[r] # None}
Asked == [of : {{}, {Place}, None}, open : BOOLEAN]
Hanging == {r \in Present : rec[r].of = asked.of}
Flagged == {r \in Present : rec[r].open}

\* The lists: the rows each WHERE lets through.
activity == Hanging
comments == Hanging
notifications == {r \in Hanging : asked.open => r \in Flagged}
documents == IF asked.of = None THEN Present ELSE Hanging
revisions == Hanging
document_comments == Hanging
initiatives == Present
projects == Present
releases == Present
labels == Present
saved_views == Flagged
queue == Hanging \intersect Flagged
children == Hanging
relations == {r \in Present : asked.of \subseteq rec[r].of}

Passing ==
  CASE list = "activity" -> activity [] list = "comments" -> comments [] list = "notifications" -> notifications
    [] list = "documents" -> documents [] list = "revisions" -> revisions
    [] list = "document_comments" -> document_comments [] list = "initiatives" -> initiatives
    [] list = "projects" -> projects [] list = "releases" -> releases [] list = "labels" -> labels
    [] list = "saved_views" -> saved_views [] list = "queue" -> queue [] list = "children" -> children
    [] list = "relations" -> relations

\* What their ORDER BYs say.
ByName == {"labels", "saved_views"}
OldestFirst == {"comments", "document_comments", "queue"} \union ByName

\* The codec of the cursors each service hands out and takes back.
ActivityService == [l \in {"activity", "notifications"} |-> "created_at"]
CommentService == [l \in {"comments"} |-> "created_at"]
DocumentService == [l \in {"documents", "revisions", "document_comments"} |-> "created_at"]
InitiativeService == [l \in {"initiatives"} |-> "created_at"]
ProjectService == [l \in {"projects"} |-> "created_at"]
ReleaseService == [l \in {"releases"} |-> "created_at"]
LabelService == [l \in {"labels"} |-> "name"]
SavedViewService == [l \in {"saved_views"} |-> "name"]
TriageService == [l \in {"queue"} |-> "created_at"]
RelationService == [l \in {"children", "relations"} |-> "created_at"]
Services == {ActivityService, CommentService, DocumentService, InitiativeService, ProjectService, ReleaseService,
             LabelService, SavedViewService, TriageService, RelationService}
codec == (CHOOSE s \in Services : list \in DOMAIN s)[list]

Lists == UNION {DOMAIN s : s \in Services}
Start == [at |-> "start"]
End == [at |-> "end"]
Cursors == [at : {"name", "created_at"}, key : Keys, id : Records]

ListTypeOK ==
  /\ list \in Lists /\ rec \in [Records -> Row \union {None}] /\ asked \in Asked
  /\ resume \in {Start, End} \union {c \in Cursors : c.at = codec}
  /\ got \subseteq Records /\ twice \subseteq got /\ replaced \subseteq Records /\ stable \subseteq Records \ replaced

\* Who hangs off nothing, or is flagged, where the table has no such column.
Loose == {"initiatives", "projects", "releases", "labels", "saved_views"}
MayBeLoose == {"documents", "children", "relations", "queue"}
Flippable == {"notifications", "saved_views", "queue"}
Rows == {w \in Row : /\ list \in Loose => w.of = {}
                     /\ w.of = {} => list \in Loose \union MayBeLoose
                     /\ ~w.open => list \in Flippable}

ListInit ==
  /\ list \in Lists /\ rec \in [Records -> Rows \union {None}]
  /\ asked \in {q \in Asked : /\ q.of = {} => list \in Loose \union {"documents"}
                              /\ q.of = None => list = "documents"
                              /\ q.of = {Place} => list \notin Loose
                              /\ q.open => list = "notifications"}
  /\ resume = Start
  /\ got = {} /\ twice = {} /\ replaced = {} /\ stable = Records

-----------------------------------------------------------------------------
Before(k, i, l, j) ==
  IF k = l THEN (IF list \in OldestFirst THEN i < j ELSE i > j)
           ELSE (IF list \in OldestFirst THEN k < l ELSE k > l)
Precedes(i, j) == Before(rec[i].key, i, rec[j].key, j)
Nth(i, S) == Cardinality({j \in S : Precedes(j, i)})

\* encode_*_cursor and decode_*_cursor: a position comes back as it went out, and one of
\* another codec is refused.
encode(i) == [at |-> codec, key |-> rec[i].key, id |-> i]
decodes(c) == c \in {Start} \union {d \in Cursors : d.at = codec}
\* Mutant: rows are counted off instead.
SkipCounted(c) == {i \in Passing : c = Start \/ Nth(i, Passing) >= Cardinality(got)}
After(c) == {i \in Passing : c = Start \/ Before(c.key, c.id, rec[i].key, i)}

\* The services' list: first + 1 rows are read, the cursor is of the last that is returned.
Page(first) ==
  /\ decodes(resume)
  /\ LET rows == {i \in After(resume) : Nth(i, After(resume)) < first + 1}
         nodes == {i \in rows : Nth(i, rows) < first}
     IN /\ got' = got \union nodes /\ twice' = twice \union (got \intersect nodes)
        /\ resume' = IF Cardinality(rows) > first THEN encode(CHOOSE i \in nodes : Nth(i, nodes) = first - 1)
                     ELSE End
  /\ UNCHANGED <<list, rec, asked, replaced, stable>>

-----------------------------------------------------------------------------
(* What other requests do to the rows.                                      *)

Write(r, w) ==
  /\ resume \notin {Start, End} /\ rec' = [rec EXCEPT ![r] = w]
  /\ replaced' = IF rec[r] # None /\ w # None /\ rec[r].key = w.key THEN replaced ELSE replaced \union {r}
  /\ stable' = stable \ {r}
  /\ UNCHANGED <<list, asked, resume, got, twice>>

\* A transaction commits a row, whenever it began.
Insert(r) == rec[r] = None /\ r \notin got /\ \E w \in Rows : Write(r, w)
\* A name is changed.
Rename(r) ==
  /\ list \in ByName /\ rec[r] # None
  /\ \E k \in Keys \ {rec[r].key} : Write(r, [rec[r] EXCEPT !.key = k])
\* A sub-issue gets another parent, or an issue leaves the queue.
Move(r) ==
  /\ list = "children" \/ (list = "queue" /\ r \in Hanging)
  /\ rec[r] # None
  /\ \E p \in {{}, {Place}} \ {rec[r].of} : Write(r, [rec[r] EXCEPT !.of = p])
\* It enters it again, at a later instant.
Enter(r) ==
  /\ list = "queue" /\ rec[r] # None /\ rec[r].of = {} /\ rec[r].open
  /\ \E k \in Keys : k > rec[r].key /\ Write(r, [rec[r] EXCEPT !.of = {Place}, !.key = k])
\* A notification is read, a view shared, made personal or moved, an issue archived.
Flip(r) ==
  /\ list \in Flippable /\ rec[r] # None
  /\ rec[r].open \/ list = "saved_views"
  /\ Write(r, [rec[r] EXCEPT !.open = ~@])
\* Activity is never deleted, nor a release's or an issue's row behind a list of them.
Delete(r) == list \notin {"activity", "children", "queue"} /\ rec[r] # None /\ Write(r, None)

ListNext ==
  \/ \E first \in Firsts : Page(first)
  \/ \E r \in Records : Insert(r) \/ Rename(r) \/ Move(r) \/ Enter(r) \/ Flip(r) \/ Delete(r)

ListSpec == ListInit /\ [][ListNext]_listVars

-----------------------------------------------------------------------------
(* Whatever other requests do between the pages, a row that passes and stays*)
(* as it was is returned; and no row twice, unless its key has changed.     *)
ListsAreComplete ==
  /\ twice \subseteq replaced
  /\ resume = End => stable \intersect Passing \subseteq got
=============================================================================
