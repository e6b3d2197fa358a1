---------------------------- MODULE HealthReports ----------------------------
(***************************************************************************)
(* Reports on how a project, or an initiative, is going.  A report is a row *)
(* of a log, and is stamped on the project in the same transaction; whether *)
(* the health moved, which is announced, is decided in between against the  *)
(* value that is stored.  Reports by several people may overlap.            *)
(***************************************************************************)
EXTENDS Naturals

CONSTANTS
  Healths,     \* HEALTH_VALUES
  Reporters,   \* requests at work at once
  MaxReports,  \* bound
  None

VARIABLES
  health,      \* projects.health
  log,         \* project_updates, each with whether it announced a move
  report,      \* the transaction of each request
  reported,    \* how many there were
  ticks        \* the clock that dates begins and commits

healthVars == <<health, log, report, reported, ticks>>

LegalHealthConstants == None \notin Healths /\ MaxReports \in Nat

Idle == [at |-> "idle"]
Times == Nat
Fields == [born : Times, to : Healths, moved : BOOLEAN]
Report == [at : {"inserted", "decided", "stamped"}, row : Fields]

HealthTypeOK ==
  /\ health \in Healths \union {None}
  /\ log \subseteq [born : Times, to : Healths, moved : BOOLEAN, ended : Times]
  /\ \A r \in Reporters : report[r] = Idle \/ report[r] \in Report
  /\ reported \in 0..MaxReports /\ ticks \in Times

HealthInit ==
  /\ health = None /\ log = {} /\ reported = 0 /\ ticks = 0
  /\ report = [r \in Reporters |-> Idle]

Holds(r) == report[r] # Idle /\ report[r].at = "stamped"

\* create_update: created_at is the time the transaction began.
Insert(r, h) ==
  /\ report[r] = Idle /\ reported < MaxReports
  /\ reported' = reported + 1 /\ ticks' = ticks + 1
  /\ report' = [report EXCEPT ![r] =
       [at |-> "inserted", row |-> [born |-> ticks + 1, to |-> h, moved |-> FALSE]]]
  /\ UNCHANGED <<health, log>>

\* Mutant: the statement runs after the stamp, and sees it.
MovedByTheStamp(h) == FALSE
\* IS DISTINCT FROM the stored value, as committed when the statement begins.
Moved(h) == health # h

\* record_project_update; an initiative announces nothing.
Decide(r) ==
  /\ report[r] # Idle /\ report[r].at = "inserted"
  /\ report' = [report EXCEPT ![r] =
       [at |-> "decided", row |-> [@.row EXCEPT !.moved = Moved(report[r].row.to)]]]
  /\ UNCHANGED <<health, log, reported, ticks>>

\* set_health takes the row's lock.
Stamp(r) ==
  /\ report[r] # Idle /\ report[r].at = "decided"
  /\ \A s \in Reporters : ~Holds(s)
  /\ report' = [report EXCEPT ![r].at = "stamped"]
  /\ UNCHANGED <<health, log, reported, ticks>>

Publish(r) ==
  /\ Holds(r)
  /\ LET row == report[r].row
     IN /\ health' = row.to
        /\ log' = log \union {[born |-> row.born, to |-> row.to, moved |-> row.moved, ended |-> ticks + 1]}
  /\ ticks' = ticks + 1 /\ report' = [report EXCEPT ![r] = Idle]
  /\ UNCHANGED reported

Abandon(r) ==
  /\ report[r] # Idle /\ report' = [report EXCEPT ![r] = Idle]
  /\ UNCHANGED <<health, log, reported, ticks>>

HealthNext == \E r \in Reporters :
  \/ \E h \in Healths : Insert(r, h)
  \/ Decide(r) \/ Stamp(r) \/ Publish(r) \/ Abandon(r)

HealthSpec == HealthInit /\ [][HealthNext]_healthVars

-----------------------------------------------------------------------------
Newest == {r \in log : \A s \in log : s.born <= r.born}
Before(r) == {s \in log : s.ended < r.ended /\ \A t \in log : t.ended < r.ended => t.ended <= s.ended}

(* The project's health is that of the newest report of its log, or of one  *)
(* that was begun before it and committed after it; and between reports     *)
(* that do not overlap a move is announced, and only a move.                *)
HealthFollowsTheLog ==
  /\ \A r \in Newest : \E s \in log : health = s.to /\ (s = r \/ (s.born < r.born /\ r.ended < s.ended))
  /\ \A r \in log :
       /\ Before(r) = {} => r.moved
       /\ \A s \in Before(r) : s.ended < r.born => r.moved = (s.to # r.to)
=============================================================================
