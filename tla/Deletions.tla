----------------------------- MODULE Deletions -----------------------------
(***************************************************************************)
(* Deleting a row that others refer to.  Every foreign key onto it refuses, *)
(* so the service takes the references away first, in as many statements as *)
(* there are tables, and the row last; a reference added in between, or of  *)
(* a table the service does not clear, has the whole deletion rolled back.  *)
(***************************************************************************)
EXTENDS Naturals, Sequences, FiniteSets

CONSTANTS
  Targets,  \* what is deleted, one to a behaviour
  Ids,      \* numbers that tell the rows of a table from each other
  Deleters, \* requests that delete
  MaxRefs,  \* bound: references at once, and one added while a deletion runs
  None

VARIABLES
  target,   \* whose deletion this is
  exists,   \* its row
  refs,     \* the rows that refer to it: <<table, number>>
  tx,       \* the deletions under way: what they delete, and took away
  since,    \* history: the rows written since each of them began
  refused   \* history: tables whose older rows refused a deletion that clears them

deletionVars == <<target, exists, refs, tx, since, refused>>

Tables ==
  [project    |-> {"issues", "placed", "milestones", "teams", "updates", "dependencies", "links",
                   "templates", "favourites", "documents"},
   initiative |-> {"children", "links", "updates", "documents"},
   template   |-> {"schedule", "labels"},
   cycle      |-> {"issues", "templates"},
   label      |-> {"issues", "templates"}]

\* No deletion clears these.
Uncleared == {"templates", "favourites", "documents"}

LegalDeletionConstants == Targets \subseteq DOMAIN Tables /\ MaxRefs \in Nat /\ None \notin Deleters

Refs == Tables[target] \X Ids
DeletionTypeOK ==
  /\ target \in Targets /\ exists \in BOOLEAN
  /\ refs \subseteq Refs /\ ~exists => refs = {}
  /\ \A c \in Deleters : tx[c] # None =>
       /\ tx[c].of \in Ids \union {None} /\ tx[c].at \in 1..7
       /\ tx[c].gone \subseteq Refs
  /\ since \in [Deleters -> SUBSET Refs] /\ refused \subseteq Tables[target]

DeletionInit ==
  /\ target \in Targets /\ exists = TRUE /\ refs = {}
  /\ tx = [c \in Deleters |-> None]
  /\ since = [c \in Deleters |-> {}] /\ refused = {}

-----------------------------------------------------------------------------
Running == {c \in Deleters : tx[c] # None}
\* An issue's project and its milestone are columns of one row.
RowOf(r) == IF r[1] = "placed" THEN <<"issues", r[2]>> ELSE r
Held(d) == {RowOf(r) : r \in tx[d].gone}
HeldBut(c) == UNION {Held(d) : d \in Running \ {c}}

\* A request that changes a reference, and commits: it waits for whoever holds the row.
Change(old, new) ==
  /\ exists /\ old # new /\ old \subseteq refs /\ new \intersect refs \subseteq old
  /\ {RowOf(r) : r \in old} \intersect HeldBut(None) = {}
  /\ Cardinality((refs \ old) \union new) <= MaxRefs
  /\ new # {} => \A c \in Deleters : since[c] = {}
  /\ refs' = (refs \ old) \union new
  /\ since' = [c \in Deleters |-> IF c \in Running THEN since[c] \union {RowOf(r) : r \in new} ELSE {}]
  /\ UNCHANGED <<target, exists, tx, refused>>
Refer(table, n) == <<table, n>> \in Refs /\ Change({}, {<<table, n>>})
Unrefer(table, n) == Change({<<table, n>>}, {})

AddTeam(n) == target = "project" /\ Refer("teams", n)
RemoveTeam(n) == target = "project" /\ Unrefer("teams", n)
CreateMilestone(n) == target = "project" /\ Refer("milestones", n)
PostUpdate(n) == target \in {"project", "initiative"} /\ Refer("updates", n)
AddDependency(n) == target = "project" /\ Refer("dependencies", n)
RemoveDependency(n) == target = "project" /\ Unrefer("dependencies", n)
AddProject(n) == target \in {"project", "initiative"} /\ Refer("links", n)
RemoveProject(n) == target \in {"project", "initiative"} /\ Unrefer("links", n)
SetParent(n) == target = "initiative" /\ Refer("children", n)
WriteDocument(n) == target \in {"project", "initiative"} /\ Refer("documents", n)
AddFavorite(n) == target = "project" /\ Refer("favourites", n)
UseInTemplate(n) == target \in {"project", "cycle", "label"} /\ Refer("templates", n)
SetRecurrence(n) == target = "template" /\ Refer("schedule", n)
ReplaceLabels(n) == target = "template" /\ (Refer("labels", n) \/ Unrefer("labels", n))
SetCycle(n) == target = "cycle" /\ (Refer("issues", n) \/ Unrefer("issues", n))
Attach(n) == target = "label" /\ (Refer("issues", n) \/ Unrefer("issues", n))

\* set_project: into the project, into its milestone of that number, or out of both.
SetProject(n) ==
  /\ target = "project"
  /\ \E new \in {{}, {<<"issues", n>>}, {<<"placed", n>>}} :
       /\ <<"placed", n>> \in new => <<"milestones", n>> \in refs \ HeldBut(None)
       /\ Change({<<"issues", n>>, <<"placed", n>>} \intersect refs, new)

-----------------------------------------------------------------------------
ProjectStatements ==
  <<{"issues", "placed"}, {"milestones"}, {"teams"}, {"updates"}, {"dependencies"}, {"links"}>>
InitiativeStatements == <<{"children"}, {"links"}, {"updates"}>>
TemplateStatements == <<{"schedule"}, {"labels"}>>
MilestoneStatements == <<{"placed"}>>

Statements(of) ==
  IF of # None THEN MilestoneStatements
  ELSE CASE target = "project" -> ProjectStatements
         [] target = "initiative" -> InitiativeStatements
         [] target = "template" -> TemplateStatements
         [] OTHER -> <<>>

\* What the schema takes away by itself: an issue's cycle, and what wears a label.
Falling == IF target \in {"cycle", "label"} THEN {"issues"} ELSE {}

\* The deletion of the target, or of one of a project's milestones.
Delete(c, of) ==
  /\ tx[c] = None /\ exists
  /\ of # None => target = "project" /\ <<"milestones", of>> \in refs
  /\ tx' = [tx EXCEPT ![c] = [of |-> of, at |-> 1, gone |-> {}]]
  /\ UNCHANGED <<target, exists, refs, since, refused>>

Over(c) == tx' = [tx EXCEPT ![c] = None] /\ since' = [since EXCEPT ![c] = {}]

\* Rows that refer to those about to go, once whoever holds them is done.
Referring(rows) == {r \in refs : r[1] = "placed" /\ <<"milestones", r[2]>> \in rows}
Refuse(c, by) ==
  /\ {RowOf(r) : r \in by} \intersect HeldBut(c) = {}
  /\ refused' = refused \union ({r[1] : r \in {b \in by : RowOf(b) \notin since[c]}} \ Uncleared)
  /\ Over(c) /\ UNCHANGED <<target, exists, refs>>

\* What the next statement finds; it misses what was added while it waited.
Found(c) ==
  {r \in refs : /\ r[1] \in Statements(tx[c].of)[tx[c].at]
                /\ tx[c].of # None => r[2] = tx[c].of}

Statement(c) ==
  /\ tx[c] # None /\ tx[c].at <= Len(Statements(tx[c].of))
  /\ \E missed \in SUBSET (IF Running = {c} THEN {} ELSE {r \in Found(c) : RowOf(r) \in since[c]}) :
     LET found == Found(c) \ missed
         rows == {RowOf(r) : r \in found}
         by == Referring(found) \ tx[c].gone
     IN /\ rows \intersect HeldBut(c) = {}
        /\ IF by # {} THEN Refuse(c, by)
           ELSE /\ tx' = [tx EXCEPT ![c].at = @ + 1, ![c].gone = @ \union found]
                /\ UNCHANGED <<target, exists, refs, since, refused>>

\* The row itself, and the commit.
Finish(c) ==
  /\ tx[c] # None /\ tx[c].at > Len(Statements(tx[c].of))
  /\ LET k == tx[c]
         goes == IF k.of = None THEN {} ELSE {<<"milestones", k.of>>}
         by == IF k.of = None THEN {r \in refs \ k.gone : r[1] \notin Falling}
                              ELSE Referring(goes) \ k.gone
     IN /\ (goes \union {r \in refs : r[1] \in Falling}) \intersect HeldBut(c) = {}
        /\ IF exists /\ by # {} THEN Refuse(c, by)
           ELSE /\ exists' = (exists /\ k.of # None)
                /\ refs' = IF k.of = None THEN {} ELSE
                     (refs \ (k.gone \union goes)) \union {RowOf(r) : r \in k.gone}
                /\ Over(c) /\ UNCHANGED <<target, refused>>

\* The process dies, or the database breaks a deadlock; all comes back.
Rollback(c) == tx[c] # None /\ Over(c) /\ UNCHANGED <<target, exists, refs, refused>>

DeletionNext ==
  \/ \E n \in Ids :
       \/ AddTeam(n) \/ RemoveTeam(n) \/ CreateMilestone(n) \/ PostUpdate(n)
       \/ AddDependency(n) \/ RemoveDependency(n) \/ AddProject(n) \/ RemoveProject(n)
       \/ SetParent(n) \/ WriteDocument(n) \/ AddFavorite(n) \/ UseInTemplate(n)
       \/ SetRecurrence(n) \/ ReplaceLabels(n) \/ SetCycle(n) \/ Attach(n) \/ SetProject(n)
  \/ \E c \in Deleters, of \in Ids \union {None} : Delete(c, of)
  \/ \E c \in Deleters : Statement(c) \/ Finish(c) \/ Rollback(c)

DeletionSpec == DeletionInit /\ [][DeletionNext]_deletionVars

-----------------------------------------------------------------------------
(* A deletion is refused only by references added since it began, or by     *)
(* those of the tables that no deletion clears.                             *)
RefusedForAReason == refused = {}

(* Two deletions wait for each other's rows only where one of them waits    *)
(* for a reference that was added since it began.                           *)
Wants(c) ==
  IF tx[c].at <= Len(Statements(tx[c].of)) THEN {RowOf(r) : r \in Found(c)} \ since[c]
  ELSE IF tx[c].of # None THEN {<<"milestones", tx[c].of>>}
  ELSE {RowOf(r) : r \in refs} \ since[c]
DeletionsDoNotDeadlock ==
  ~ \E c, d \in Running : /\ c # d
                          /\ Wants(c) \intersect Held(d) # {}
                          /\ Wants(d) \intersect Held(c) # {}
=============================================================================
