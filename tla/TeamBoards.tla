----------------------------- MODULE TeamBoards -----------------------------
(***************************************************************************)
(* Teams with the board of states they are founded with, the scale of their *)
(* estimates, and their cycles; and issues that are sized and put into a    *)
(* cycle.  A scale is read by one statement and the estimate written by     *)
(* another transaction, while the scale, the issue's team and its estimate  *)
(* change.                                                                  *)
(***************************************************************************)
EXTENDS Naturals, FiniteSets

CONSTANTS
  Crews,      \* teams, by their keys
  Sized,      \* issues
  Sprints,    \* cycles
  Numerals,   \* their numbers
  LastInstant,
  Units,     \* scales
  Guesses,    \* estimates
  Founders,   \* requests that found a team or size an issue
  MaxStrokes, \* statements of other requests
  None

VARIABLES
  crew,     \* teams; "by" names the transaction that has not committed it yet
  sprint,   \* cycles
  sheet,    \* issues: team, estimate, cycle
  sizing,   \* what each request has read, and will write
  unfit,    \* history: issues whose estimate nobody has checked against the scale in force
  strokes

boardVars == <<crew, sprint, sheet, sizing, unfit, strokes>>

Scales == {"none", "points", "hours", "tshirt"}

TSHIRT_LABELS == 5
Spans == {s \in (0..LastInstant) \X (0..LastInstant) : s[1] < s[2]}
CrewRow == [scale : Scales, board : BOOLEAN, by : Founders \union {None}]
SprintRow == [team : Crews, number : Numerals, span : Spans]
SheetRow == [team : Crews, estimate : Guesses \union {None}, cycle : Sprints \union {None}]

LegalBoardConstants ==
  /\ IsFiniteSet(Sized) /\ Units \subseteq Scales /\ LastInstant \in Nat /\ Guesses \subseteq Nat /\ MaxStrokes \in Nat
  /\ None \notin Crews \union Scales /\ None \notin Sprints /\ None \notin Guesses /\ None \notin Founders
  /\ None \notin CrewRow /\ None \notin SprintRow /\ None \notin SheetRow

BoardTypeOK ==
  /\ crew \in [Crews -> CrewRow \union {None}]
  /\ sprint \in [Sprints -> SprintRow \union {None}]
  /\ sheet \in [Sized -> SheetRow \union {None}]
  /\ \A w \in Founders : sizing[w] # None =>
       /\ sizing[w].issue \in Sized /\ sizing[w].team \in Crews \union {None} /\ sizing[w].scale \in Scales \union {None}
       /\ sizing[w].estimate \in Guesses \union {None} /\ sizing[w].new \in BOOLEAN
  /\ unfit \subseteq Sized /\ strokes \in 0..MaxStrokes

BoardInit ==
  /\ crew = [t \in Crews |-> None] /\ sprint = [c \in Sprints |-> None] /\ sheet = [i \in Sized |-> None]
  /\ sizing = [w \in Founders |-> None] /\ unfit = {} /\ strokes = 0

Seen(t) == crew[t] # None /\ crew[t].by = None
Founding(w) == {t \in Crews : crew[t] # None /\ crew[t].by = w}
Stroke == strokes < MaxStrokes /\ strokes' = strokes + 1

-----------------------------------------------------------------------------
(* Founding a team: one transaction.                                        *)

\* teams_workspace_key_unique waits for an uncommitted row and refuses a committed one.
create(w, t) ==
  /\ crew[t] = None /\ Founding(w) = {} /\ sizing[w] = None
  /\ crew' = [crew EXCEPT ![t] = [scale |-> "none", board |-> FALSE, by |-> w]]
  /\ UNCHANGED <<sprint, sheet, sizing, unfit, strokes>>
seed_default_workflow_states(w) ==
  /\ \E t \in Founding(w) : ~crew[t].board /\ crew' = [crew EXCEPT ![t].board = TRUE]
  /\ UNCHANGED <<sprint, sheet, sizing, unfit, strokes>>
\* Mutant: each statement is a transaction.
CommitEarly(w) ==
  /\ \E t \in Founding(w) : crew' = [crew EXCEPT ![t].by = None]
  /\ UNCHANGED <<sprint, sheet, sizing, unfit, strokes>>
Commit(w) ==
  /\ \E t \in Founding(w) : crew[t].board /\ crew' = [crew EXCEPT ![t].by = None]
  /\ UNCHANGED <<sprint, sheet, sizing, unfit, strokes>>
Rollback(w) ==
  /\ \E t \in Founding(w) : crew' = [crew EXCEPT ![t] = None]
  /\ UNCHANGED <<sprint, sheet, sizing, unfit, strokes>>

\* What is estimated is left as it is.
set_estimate_scale(t, s) ==
  /\ Seen(t) /\ crew[t].scale # s /\ Stroke /\ crew' = [crew EXCEPT ![t].scale = s]
  /\ unfit' = unfit \union {i \in Sized : sheet[i] # None /\ sheet[i].team = t}
  /\ UNCHANGED <<sprint, sheet, sizing>>

-----------------------------------------------------------------------------
(* Sizing an issue.                                                         *)

is_valid_estimate(scale, estimate) == scale = "tshirt" => estimate \in 1..TSHIRT_LABELS

Read(w, i, t, e, new) ==
  /\ sizing[w] = None /\ Founding(w) = {}
  \* No scale is read for an issue that is not sized, or not there.
  /\ LET scale == IF e = None \/ ~Seen(t) THEN None ELSE crew[t].scale
     IN /\ scale # None => is_valid_estimate(scale, e)
        /\ sizing' = [sizing EXCEPT ![w] = [issue |-> i, team |-> t, scale |-> scale, estimate |-> e, new |-> new]]
  /\ UNCHANGED <<crew, sprint, sheet, unfit, strokes>>
\* IssueService.create.
_check_estimate_scale(w, i, t, e) == sheet[i] = None /\ Seen(t) /\ Read(w, i, t, e, TRUE)
\* IssueService.update, which reads the scale of the issue's team as it is.
find_estimate_scale(w, i, e) == sheet[i] # None /\ Read(w, i, sheet[i].team, e, FALSE)

Sizes(w, i, t) ==
  /\ sizing' = [sizing EXCEPT ![w] = None]
  /\ unfit' = IF sizing[w].estimate = None \/ (sizing[w].team = t /\ sizing[w].scale = crew[t].scale)
              THEN unfit \ {i} ELSE unfit \union {i}
  /\ UNCHANGED <<crew, sprint, strokes>>
\* default_workflow_state_id finds the board's first state.
Insert(w) ==
  /\ sizing[w] # None /\ sizing[w].new
  /\ LET i == sizing[w].issue  t == sizing[w].team
     IN /\ sheet[i] = None /\ crew[t].board
        /\ sheet' = [sheet EXCEPT ![i] = [team |-> t, estimate |-> sizing[w].estimate, cycle |-> None]]
        /\ Sizes(w, i, t)
Update(w) ==
  /\ sizing[w] # None /\ ~sizing[w].new
  /\ LET i == sizing[w].issue
     IN sheet' = [sheet EXCEPT ![i].estimate = sizing[w].estimate] /\ Sizes(w, i, sheet[i].team)

\* A bulk edit asks only that an estimate be no less than zero.
Bulk(i, e) ==
  /\ sheet[i] # None /\ Stroke /\ sheet' = [sheet EXCEPT ![i].estimate = e]
  /\ unfit' = IF e = None THEN unfit \ {i} ELSE unfit \union {i}
  /\ UNCHANGED <<crew, sprint, sizing>>

\* issues_cycle_fk refuses to move an issue that is in a cycle; the estimate goes along.
change_team(i, t) ==
  /\ sheet[i] # None /\ Seen(t) /\ t # sheet[i].team /\ sheet[i].cycle = None /\ Stroke
  /\ sheet' = [sheet EXCEPT ![i].team = t] /\ unfit' = unfit \union {i}
  /\ UNCHANGED <<crew, sprint, sizing>>

-----------------------------------------------------------------------------
(* Cycles.                                                                  *)

\* tstzrange(starts_at, ends_at, '[)').
Overlap(s, r) == s[1] < r[2] /\ r[1] < s[2]
\* cycles_team_number_key and cycles_no_overlap, as the index writes decide them.
Apart(c, t, n, s) ==
  \A d \in Sprints \ {c} : sprint[d] # None /\ sprint[d].team = t => sprint[d].number # n /\ ~Overlap(sprint[d].span, s)
create_cycle(c, t, n, s) ==
  /\ sprint[c] = None /\ Seen(t) /\ Apart(c, t, n, s) /\ Stroke
  /\ sprint' = [sprint EXCEPT ![c] = [team |-> t, number |-> n, span |-> s]]
  /\ UNCHANGED <<crew, sheet, sizing, unfit>>
\* Every field but the team.
update_cycle(c, n, s) ==
  /\ sprint[c] # None /\ Apart(c, sprint[c].team, n, s) /\ Stroke
  /\ sprint' = [sprint EXCEPT ![c].number = n, ![c].span = s]
  /\ UNCHANGED <<crew, sheet, sizing, unfit>>
\* ON DELETE SET NULL (cycle_id).
delete_cycle(c) ==
  /\ sprint[c] # None /\ Stroke /\ sprint' = [sprint EXCEPT ![c] = None]
  /\ sheet' = [i \in Sized |-> IF sheet[i] # None /\ sheet[i].cycle = c THEN [sheet[i] EXCEPT !.cycle = None] ELSE sheet[i]]
  /\ UNCHANGED <<crew, sizing, unfit>>
set_cycle(i, c) ==
  /\ sheet[i] # None /\ Stroke
  /\ c # None => sprint[c] # None /\ sprint[c].team = sheet[i].team
  /\ sheet' = [sheet EXCEPT ![i].cycle = c]
  /\ UNCHANGED <<crew, sprint, sizing, unfit>>

BoardNext ==
  \/ \E w \in Founders :
       \/ \E t \in Crews : create(w, t)
       \/ seed_default_workflow_states(w) \/ Commit(w) \/ Rollback(w)
       \/ Insert(w) \/ Update(w)
       \/ \E i \in Sized, e \in Guesses \union {None} :
            find_estimate_scale(w, i, e) \/ \E t \in Crews : _check_estimate_scale(w, i, t, e)
  \/ \E t \in Crews, s \in Units : set_estimate_scale(t, s)
  \/ \E i \in Sized :
       \/ \E e \in Guesses \union {None} : Bulk(i, e)
       \/ \E t \in Crews : change_team(i, t)
       \/ \E c \in Sprints \union {None} : set_cycle(i, c)
  \/ \E c \in Sprints :
       \/ delete_cycle(c)
       \/ \E n \in Numerals, s \in Spans : update_cycle(c, n, s) \/ \E t \in Crews : create_cycle(c, t, n, s)

BoardSpec == BoardInit /\ [][BoardNext]_boardVars

-----------------------------------------------------------------------------
(* An estimate that its team's scale has no meaning for was sized before the*)
(* scale changed, or before the issue moved, or by a bulk edit.             *)
EstimatesFit ==
  \A i \in Sized \ unfit : sheet[i] # None /\ sheet[i].estimate # None /\ crew[sheet[i].team].scale = "tshirt" =>
    sheet[i].estimate \in 1..TSHIRT_LABELS

(* Whoever sees a team finds its board.                                     *)
BoardsAreWhole == \A t \in Crews : Seen(t) => crew[t].board

(* An issue's cycle is one of its team's, of which no two run at once,      *)
(* whatever is moved, redated or deleted.                                   *)
CyclesAreTheTeams ==
  /\ \A i \in Sized : sheet[i] # None /\ sheet[i].cycle # None =>
       sprint[sheet[i].cycle] # None /\ sprint[sheet[i].cycle].team = sheet[i].team
  /\ \A n \in 0..LastInstant, t \in Crews :
       Cardinality({c \in Sprints : sprint[c] # None /\ sprint[c].team = t
                                    /\ sprint[c].span[1] <= n /\ n < sprint[c].span[2]}) <= 1
=============================================================================
