----------------------------- MODULE Templates -----------------------------
(***************************************************************************)
(* One template edited whole by several people, scheduled, discarded, and   *)
(* applied meanwhile.  An edit writes the row, whose lock it keeps, and     *)
(* then its labels; a deletion takes the schedule and the labels away       *)
(* first; a schedule's team is checked in one transaction and written in    *)
(* the next; and what is applied is read at once and written in several     *)
(* transactions, any of which may fail.                                     *)
(***************************************************************************)
EXTENDS Naturals, FiniteSets

CONSTANTS
  Drafts,    \* what a template may say: [team, project, labels]
  Squads,    \* teams
  Menders,   \* requests that write it
  Appliers,  \* requests, and sweeps, that file an issue from it
  None

VARIABLES
  template,  \* issue_templates
  labels,    \* issue_template_labels
  schedule,  \* issue_recurrences.team_id
  tx,        \* the transactions under way
  applied,   \* what each applier read, and how far it is
  filed,     \* the issue it filed
  saved,     \* history: the drafts that were committed
  moved      \* history: another team was saved since the schedule's was checked

templateVars == <<template, labels, schedule, tx, applied, filed, saved, moved>>

LegalTemplateConstants ==
  /\ \A d \in Drafts : d.team \in Squads \union {None} /\ IsFiniteSet(d.labels)
  /\ None \notin Drafts

Idle == [at |-> "idle"]
TemplateTypeOK ==
  /\ template \in Drafts \union {None}
  /\ template = None => labels = {} /\ schedule = None
  /\ schedule \in Squads \union {None} /\ moved \in BOOLEAN
  /\ \A c \in Menders : tx[c].at \in {"idle", "written", "relabelled", "unscheduled", "unlabelled", "checked"}
  /\ \A a \in Appliers : applied[a].at \in {"idle", "read", "filed", "placed"}
  /\ \A a \in Appliers : filed[a] # None => filed[a].team \in Squads
  /\ saved \subseteq Drafts

TemplateInit ==
  /\ template = None /\ labels = {} /\ schedule = None
  /\ tx = [c \in Menders |-> Idle]
  /\ applied = [a \in Appliers |-> Idle] /\ filed = [a \in Appliers |-> None]
  /\ saved = {} /\ moved = FALSE

-----------------------------------------------------------------------------
Over(c) == tx' = [tx EXCEPT ![c] = Idle]
Begins(c, k) == tx[c] = Idle /\ tx' = [tx EXCEPT ![c] = k]
Goes(c, at) == tx' = [tx EXCEPT ![c] = [@ EXCEPT !.at = at]]

\* Who has written the row, and whose label and schedule rows are deleted.
RowHeld == \E d \in Menders : tx[d].at \in {"written", "relabelled"}
LabelsHeldBut(c) == \E d \in Menders \ {c} : tx[d].at \in {"relabelled", "unlabelled"} /\ tx[d].gone # {}
ScheduleHeldBut(c) == \E d \in Menders \ {c} : tx[d].at \in {"unscheduled", "unlabelled"} /\ tx[d].took

Fits(d, team) == d.team \in {None, team}

\* A row nobody sees yet, and its labels.
Create(d) ==
  /\ template = None /\ \A c \in Menders : tx[c] = Idle
  /\ template' = d /\ labels' = d.labels /\ saved' = saved \union {d}
  /\ UNCHANGED <<schedule, tx, applied, filed, moved>>

\* update: the row, and its lock.
Write(c, d) ==
  /\ template # None /\ ~RowHeld
  /\ Begins(c, [at |-> "written", draft |-> d, gone |-> {}])
  /\ UNCHANGED <<template, labels, schedule, applied, filed, saved, moved>>

\* replace_labels: the ones that are there are deleted, the draft's are inserted.
ReplaceLabels(c) ==
  /\ tx[c].at = "written" /\ ~LabelsHeldBut(c)
  /\ tx' = [tx EXCEPT ![c] = [@ EXCEPT !.at = "relabelled", !.gone = labels]]
  /\ UNCHANGED <<template, labels, schedule, applied, filed, saved, moved>>

Save(c) ==
  /\ tx[c].at = "relabelled"
  /\ template' = tx[c].draft
  /\ labels' = (labels \ tx[c].gone) \union tx[c].draft.labels
  /\ saved' = saved \union {template'}
  /\ LET other == template'.team # template.team
     IN /\ moved' = (moved \/ other)
        /\ tx' = [d \in Menders |-> IF d = c THEN Idle
                                     ELSE IF tx[d].at = "checked" THEN [tx[d] EXCEPT !.moved = @ \/ other]
                                     ELSE tx[d]]
  /\ UNCHANGED <<schedule, applied, filed>>

-----------------------------------------------------------------------------
\* delete: the schedule, the labels, and then the row.
Unschedule(c) ==
  /\ template # None /\ ~ScheduleHeldBut(c)
  /\ Begins(c, [at |-> "unscheduled", took |-> schedule # None, gone |-> {}])
  /\ UNCHANGED <<template, labels, schedule, applied, filed, saved, moved>>

Unlabel(c) ==
  /\ tx[c].at = "unscheduled" /\ ~LabelsHeldBut(c)
  /\ tx' = [tx EXCEPT ![c] = [@ EXCEPT !.at = "unlabelled", !.gone = labels]]
  /\ UNCHANGED <<template, labels, schedule, applied, filed, saved, moved>>

\* What was committed since refuses it, unhandled.
Delete(c) ==
  /\ tx[c].at = "unlabelled" /\ ~RowHeld /\ ~ScheduleHeldBut(c)
  /\ IF labels \subseteq tx[c].gone /\ (schedule # None => tx[c].took)
     THEN template' = None /\ labels' = {} /\ schedule' = None /\ moved' = FALSE
     ELSE UNCHANGED <<template, labels, schedule, moved>>
  /\ Over(c) /\ UNCHANGED <<applied, filed, saved>>

\* An editor and a deletion may wait for each other; the database ends one.
Rollback(c) == tx[c] # Idle /\ Over(c) /\ UNCHANGED <<template, labels, schedule, applied, filed, saved, moved>>

\* set_recurrence: get and the comparison, and then the upsert.
CheckTeam(c, team) ==
  /\ template # None /\ Fits(template, team)
  /\ Begins(c, [at |-> "checked", team |-> team, moved |-> FALSE])
  /\ UNCHANGED <<template, labels, schedule, applied, filed, saved, moved>>

Upsert(c) ==
  /\ tx[c].at = "checked" /\ ~ScheduleHeldBut(c)
  /\ IF template = None THEN UNCHANGED <<schedule, moved>>
     ELSE schedule' = tx[c].team /\ moved' = tx[c].moved
  /\ Over(c) /\ UNCHANGED <<template, labels, applied, filed, saved>>

ClearRecurrence ==
  /\ schedule # None /\ ~ScheduleHeldBut(None) /\ schedule' = None /\ moved' = FALSE
  /\ UNCHANGED <<template, labels, tx, applied, filed, saved>>

-----------------------------------------------------------------------------
\* apply: the template and its labels in one statement.
Read(a, team) ==
  /\ applied[a] = Idle /\ filed[a] = None
  /\ template # None /\ Fits(template, team)
  /\ applied' = [applied EXCEPT ![a] = [at |-> "read", team |-> team,
                                        project |-> template.project, labels |-> labels]]
  /\ UNCHANGED <<template, labels, schedule, tx, filed, saved, moved>>

\* Each is a transaction of its own.
File(a) ==
  /\ applied[a].at = "read"
  /\ filed' = [filed EXCEPT ![a] = [team |-> applied[a].team, project |-> None, labels |-> {}]]
  /\ applied' = [applied EXCEPT ![a] = [@ EXCEPT !.at = "filed"]]
  /\ UNCHANGED <<template, labels, schedule, tx, saved, moved>>

Place(a) ==
  /\ applied[a].at = "filed"
  /\ filed' = [filed EXCEPT ![a] = [@ EXCEPT !.project = applied[a].project]]
  /\ applied' = [applied EXCEPT ![a] = [@ EXCEPT !.at = "placed"]]
  /\ UNCHANGED <<template, labels, schedule, tx, saved, moved>>

Label(a, l) ==
  /\ applied[a].at = "placed" /\ l \in applied[a].labels \ filed[a].labels
  /\ filed' = [filed EXCEPT ![a].labels = @ \union {l}]
  /\ UNCHANGED <<template, labels, schedule, tx, applied, saved, moved>>

\* It is done, or a step is refused, or the process dies; what is written stays.
Stop(a) ==
  /\ applied[a] # Idle /\ applied' = [applied EXCEPT ![a] = Idle]
  /\ UNCHANGED <<template, labels, schedule, tx, filed, saved, moved>>

TemplateNext ==
  \/ \E d \in Drafts : Create(d)
  \/ \E c \in Menders, d \in Drafts : Write(c, d)
  \/ \E c \in Menders : ReplaceLabels(c) \/ Save(c) \/ Unschedule(c) \/ Unlabel(c) \/ Delete(c)
  \/ \E c \in Menders, team \in Squads : CheckTeam(c, team)
  \/ \E c \in Menders : Upsert(c) \/ Rollback(c)
  \/ ClearRecurrence
  \/ \E a \in Appliers, team \in Squads : Read(a, team)
  \/ \E a \in Appliers : File(a) \/ Place(a) \/ Stop(a) \/ \E l \in labels \union (IF applied[a] = Idle THEN {} ELSE applied[a].labels) : Label(a, l)

TemplateSpec == TemplateInit /\ [][TemplateNext]_templateVars

-----------------------------------------------------------------------------
(* Between transactions a template is one of the drafts, whole.             *)
TemplateIsOneDraft == template # None => labels = template.labels

(* A schedule files into the template's team, unless the template was given *)
(* another team after the schedule's was checked.                           *)
ScheduleFits == schedule # None => Fits(template, schedule) \/ moved

(* An issue filed from a template is the beginning of one of its drafts,    *)
(* whoever edited it meanwhile.                                             *)
IssueFollowsOneDraft == \A a \in Appliers : filed[a] # None =>
  \E d \in saved : /\ Fits(d, filed[a].team)
                   /\ filed[a].project \in {None, d.project}
                   /\ filed[a].labels \subseteq d.labels
                   /\ filed[a].labels # {} => filed[a].project = d.project
=============================================================================
