------------------------------ MODULE Planning ------------------------------
(***************************************************************************)
(* Projects with their milestones, and the issues placed in them.  A        *)
(* placement is one statement that the foreign keys decide; a milestone is  *)
(* appended after the greatest position its statement saw; a deletion takes *)
(* the issues away first and the row last, in one transaction.              *)
(***************************************************************************)
EXTENDS Naturals, FiniteSets

CONSTANTS
  Plans,       \* projects
  Milestones,
  Placeable,   \* issues
  Planners,    \* requests of several statements
  Wanted,      \* positions a client asks for
  MaxPosition, \* bound
  None

VARIABLES
  plans,     \* the projects there are
  milestone, \* the rows
  place,     \* of an issue: project_id and milestone_id
  planner,   \* the transaction of each request
  together,  \* history: pairs of milestones whose appends overlapped
  shifted    \* history: milestones a client has put somewhere

planVars == <<plans, milestone, place, planner, together, shifted>>

Nowhere == [project |-> None, milestone |-> None]
LegalPlanConstants ==
  /\ IsFiniteSet(Milestones) /\ MaxPosition \in Nat /\ Wanted \subseteq Nat
  /\ None \notin Plans /\ None \notin Milestones /\ None \notin [project : Plans, position : Nat]

There(m) == milestone[m] # None
Of(p) == {m \in Milestones : There(m) /\ milestone[m].project = p}
Idle(c) == planner[c] = None
Ending(c) == ~Idle(c) /\ planner[c].kind = "delete"
\* Deleted, and its row locked until the commit.
Doomed(m) == \E c \in Planners : planner[c] # None /\ planner[c].kind = "delete" /\ m \in planner[c].swept
Appending(c) == ~Idle(c) /\ planner[c].kind = "append"

PlanTypeOK ==
  /\ plans \subseteq Plans
  /\ \A m \in Milestones : There(m) => milestone[m].project \in plans /\ milestone[m].position \in Nat
  /\ place \in [Placeable -> [project : Plans \union {None}, milestone : Milestones \union {None}]]
  /\ \A c \in Planners :
       /\ Appending(c) => planner[c].milestone \in Milestones /\ planner[c].position \in Nat
       /\ Ending(c) => planner[c].issues \subseteq Placeable /\ planner[c].swept \subseteq Milestones
  /\ together \subseteq SUBSET Milestones /\ shifted \subseteq Milestones

PlanInit ==
  /\ plans = {} /\ milestone = [m \in Milestones |-> None]
  /\ place = [i \in Placeable |-> Nowhere]
  /\ planner = [c \in Planners |-> None]
  /\ together = {} /\ shifted = {}

-----------------------------------------------------------------------------
create(p) == p \notin plans /\ plans' = plans \union {p} /\ UNCHANGED <<milestone, place, planner, together, shifted>>

\* Mutant: a milestone goes where there are as many before it.
PositionByCount(p) == Cardinality(Of(p))
\* COALESCE(MAX(position) + 1, 0), over what has committed.
NextPosition(p) ==
  IF Of(p) = {} THEN 0
  ELSE 1 + (CHOOSE n \in {milestone[m].position : m \in Of(p)} : \A m \in Of(p) : milestone[m].position <= n)

create_milestone(c, m, p) ==
  /\ Idle(c) /\ ~There(m) /\ p \in plans
  /\ \A d \in Planners : Appending(d) => planner[d].milestone # m
  /\ NextPosition(p) <= MaxPosition
  /\ planner' = [planner EXCEPT ![c] = [kind |-> "append", milestone |-> m, project |-> p, position |-> NextPosition(p)]]
  /\ together' = {S \in together : m \notin S} \union {{m, planner[d].milestone} : d \in {e \in Planners : Appending(e) /\ planner[e].project = p}}
  /\ UNCHANGED <<plans, milestone, place, shifted>>
Append(c) ==
  /\ Appending(c)
  /\ milestone' = [milestone EXCEPT ![planner[c].milestone] =
                     [project |-> planner[c].project, position |-> planner[c].position]]
  /\ planner' = [planner EXCEPT ![c] = None] /\ UNCHANGED <<plans, place, together, shifted>>
Rollback(c) ==
  /\ ~Idle(c) /\ planner' = [planner EXCEPT ![c] = None]
  /\ UNCHANGED <<plans, milestone, place, together, shifted>>

\* Every field but the project.
update_milestone(m, n) ==
  /\ There(m) /\ milestone' = [milestone EXCEPT ![m].position = n] /\ shifted' = shifted \union {m}
  /\ ~Doomed(m) /\ UNCHANGED <<plans, place, planner, together>>

-----------------------------------------------------------------------------
(* Placing issues.                                                          *)

Unlocked(i) == \A c \in Planners : Ending(c) => i \notin planner[c].issues
\* Mutant: a foreign key of two columns, which takes any milestone.
FitsAnywhere(p, m) == (p # None => p \in plans) /\ (m # None => p # None /\ There(m))
\* issues_project_fk, issues_milestone_fk and issues_milestone_requires_project.
Fits(p, m) ==
  /\ p # None => p \in plans
  /\ m # None => m \in Of(p) /\ ~Doomed(m)
Place(S, p, m) ==
  /\ Fits(p, m) /\ \A i \in S : Unlocked(i)
  /\ place' = [i \in Placeable |-> IF i \in S THEN [project |-> p, milestone |-> m] ELSE place[i]]
  /\ UNCHANGED <<plans, milestone, planner, together, shifted>>
set_project(i, p, m) == Place({i}, p, m)
\* A bulk edit names both or neither; one issue that cannot go keeps all of them.
update_many(S, p, m) == Place(S, p, m)

-----------------------------------------------------------------------------
(* Deletions: the issues of the first statement stay locked, and so do the  *)
(* milestones a project takes with it; all is seen at the commit.           *)

Placed(m) == {i \in Placeable : place[i].milestone = m}
Within(p) == {i \in Placeable : place[i].project = p}
Begin(c, S, m, p) ==
  /\ Idle(c) /\ \A i \in S : Unlocked(i)
  /\ planner' = [planner EXCEPT ![c] = [kind |-> "delete", issues |-> S, milestone |-> m, project |-> p, swept |-> {}]]
  /\ UNCHANGED <<plans, milestone, place, together, shifted>>
clear_milestone(c, m) == There(m) /\ Begin(c, Placed(m), m, None)
clear_project(c, p) == p \in plans /\ Begin(c, Within(p), None, p)

\* A milestone at which an issue was placed since has the deletion refused.
Deletable(c, m) == There(m) /\ ~Doomed(m) /\ Placed(m) \subseteq planner[c].issues
delete_milestones_for_project(c) ==
  /\ Ending(c) /\ planner[c].project # None /\ \A m \in Of(planner[c].project) : Deletable(c, m)
  /\ planner' = [planner EXCEPT ![c].swept = Of(planner[c].project)]
  /\ UNCHANGED <<plans, milestone, place, together, shifted>>

\* Mutant: what leaves its project keeps its milestone.
OutOfProject(w, p) == IF w.project = p THEN [w EXCEPT !.project = None] ELSE [w EXCEPT !.milestone = None]
Out(w, p) == IF w.project = p THEN Nowhere ELSE [w EXCEPT !.milestone = None]
Commit(c, M) ==
  /\ place' = [i \in Placeable |-> IF i \in planner[c].issues THEN Out(place[i], planner[c].project) ELSE place[i]]
  /\ milestone' = [m \in Milestones |-> IF m \in M THEN None ELSE milestone[m]]
  /\ plans' = plans \ {planner[c].project}
  /\ together' = {S \in together : S \intersect M = {}} /\ shifted' = shifted \ M
  /\ planner' = [planner EXCEPT ![c] = None]
delete_milestone(c) == Ending(c) /\ planner[c].milestone # None /\ Deletable(c, planner[c].milestone) /\ Commit(c, {planner[c].milestone})
\* Neither an issue nor a milestone came to the project since; an append's is waited for.
delete(c) ==
  /\ Ending(c) /\ planner[c].project \in plans
  /\ \A d \in Planners : Appending(d) => planner[d].project # planner[c].project
  /\ Within(planner[c].project) \subseteq planner[c].issues /\ Of(planner[c].project) = planner[c].swept
  /\ Commit(c, planner[c].swept)

PlanNext ==
  \/ \E p \in Plans : create(p)
  \/ \E m \in Milestones, n \in Wanted : update_milestone(m, n)
  \/ \E p \in Plans \union {None}, m \in Milestones \union {None} :
       \/ \E i \in Placeable : set_project(i, p, m)
       \/ update_many(Placeable, p, m)
  \/ \E c \in Planners :
       \/ \E m \in Milestones : clear_milestone(c, m) \/ \E p \in Plans : create_milestone(c, m, p)
       \/ \E p \in Plans : clear_project(c, p)
       \/ Append(c) \/ delete_milestones_for_project(c) \/ delete_milestone(c) \/ delete(c) \/ Rollback(c)

PlanSpec == PlanInit /\ [][PlanNext]_planVars

-----------------------------------------------------------------------------
(* An issue stands in a project that is there, at a milestone of that       *)
(* project, whatever is deleted while it is placed.                         *)
PlacesAreThere ==
  \A i \in Placeable :
    /\ place[i].project # None => place[i].project \in plans
    /\ place[i].milestone # None => place[i].milestone \in Of(place[i].project)

(* Two milestones of a project stand at one position only if their appends  *)
(* overlapped, or a client put one of them there.                           *)
MilestonesAreAppended ==
  \A l, m \in Milestones \ shifted :
    l # m /\ There(l) /\ There(m) /\ milestone[l] = milestone[m] => {l, m} \in together
=============================================================================
