------------------------------ MODULE Tracking ------------------------------
(***************************************************************************)
(* The GitHub settings page of one workspace: which of the repositories the *)
(* installation covers are tracked, and what a pull request does to a       *)
(* team's issues.  A selection is saved by one UPDATE under READ COMMITTED: *)
(* it visits the rows that disagree with it in its snapshot, waits for the  *)
(* ones another transaction holds, and looks at those again.  The covered   *)
(* repositories change under it: a delivery of GitHub deletes and inserts.  *)
(***************************************************************************)
EXTENDS Naturals

CONSTANTS
  Covered,   \* repositories GitHub may grant
  Listings,  \* what a delivery may restate: the rows that go, and those that come
  Admins,    \* requests that save a selection
  StartedStates, CompletedStates,  \* of a team's workflow, by their places on its board
  None

VARIABLES
  tracked,   \* github_repositories.tracked, committed: a function on the rows there are
  released,  \* repositories with a release
  saving,    \* the transaction of each admin
  rules,     \* github_issue_automations of the team: its row, or None
  detached   \* history: repositories untracked though a release named them when the save began

trackingVars == <<tracked, released, saving, rules, detached>>

Rows == DOMAIN tracked
On == {r \in Rows : tracked[r]}
Slot(states) == {None} \union states
SaveType == [at : {"looked", "probed"}, wanted : SUBSET Covered, dropped : SUBSET Covered, begun : SUBSET Covered]
  \union [at : {"writing"}, wanted : SUBSET Covered, left : SUBSET Covered,
          held : SUBSET Covered, begun : SUBSET Covered]

LegalTrackingConstants ==
  /\ None \notin StartedStates \union CompletedStates
  /\ StartedStates \union CompletedStates \subseteq Nat
  /\ Listings \subseteq [kind : {"delta", "full"}, added : SUBSET Covered, removed : SUBSET Covered]

TrackingTypeOK ==
  /\ Rows \subseteq Covered /\ \A r \in Rows : tracked[r] \in BOOLEAN
  /\ released \subseteq Rows
  /\ saving \in [Admins -> SaveType \union {None}]
  /\ rules # None =>
       /\ rules \in [started : Slot(StartedStates), completed : Slot(CompletedStates)]
       /\ rules # [started |-> None, completed |-> None]
  /\ detached \subseteq Covered

TrackingInit ==
  /\ tracked = [r \in Covered |-> TRUE] /\ released = {}
  /\ saving = [a \in Admins |-> None] /\ rules = None
  /\ detached = {}

-----------------------------------------------------------------------------
Step(a, s) == saving' = [saving EXCEPT ![a] = s]
Writing(a) == saving[a] # None /\ saving[a].at = "writing"
Held(r) == \E a \in Admins : Writing(a) /\ r \in saving[a].held

\* set_tracked_repositories: the rows are listed first ...
Look(a, wanted) ==
  /\ saving[a] = None
  /\ Step(a, [at |-> "looked", wanted |-> wanted, dropped |-> Rows \ wanted, begun |-> released])
  /\ UNCHANGED <<tracked, released, rules, detached>>

\* ... then repositories_with_releases, for those left out, may refuse ...
Probe(a) ==
  /\ saving[a] # None /\ saving[a].at = "looked"
  /\ Step(a, IF saving[a].dropped \intersect released = {} THEN [saving[a] EXCEPT !.at = "probed"] ELSE None)
  /\ UNCHANGED <<tracked, released, rules, detached>>

Disagrees(wanted) == {r \in Rows : tracked[r] # (r \in wanted)}

\* ... and the UPDATE takes its snapshot.
Update(a) ==
  /\ saving[a] # None /\ saving[a].at = "probed"
  /\ Step(a, [at |-> "writing", wanted |-> saving[a].wanted, left |-> Disagrees(saving[a].wanted),
              held |-> {}, begun |-> saving[a].begun])
  /\ UNCHANGED <<tracked, released, rules, detached>>

\* It comes to a row nobody holds, and changes the one that still disagrees.
Visit(a, r) ==
  /\ Writing(a) /\ r \in saving[a].left /\ ~Held(r)
  /\ Step(a, [saving[a] EXCEPT !.left = @ \ {r},
                !.held = IF r \in Disagrees(saving[a].wanted) THEN @ \union {r} ELSE @])
  /\ UNCHANGED <<tracked, released, rules, detached>>

Commit(a) ==
  LET s == saving[a] IN
  /\ Writing(a) /\ s.left = {}
  /\ tracked' = [r \in Rows |-> IF r \in s.held THEN r \in s.wanted ELSE tracked[r]]
  /\ detached' = detached \union ((s.held \ s.wanted) \intersect s.begun)
  /\ Step(a, None) /\ UNCHANGED <<released, rules>>

\* The request dies, or the database ends one of two that wait for each other.
Rollback(a) == saving[a] # None /\ Step(a, None) /\ UNCHANGED <<tracked, released, rules, detached>>

\* A delivery of the installation: the rows it names go, unless a release names
\* one, and the added ones come back tracked; who waits for a row loses it.
Restated(stale, added) ==
  /\ stale \intersect Rows \intersect released = {} /\ \A r \in stale : ~Held(r)
  /\ tracked' = [r \in (Rows \ stale) \union added |-> IF r \in added THEN TRUE ELSE tracked[r]]
  /\ saving' = [a \in Admins |-> IF Writing(a) THEN [saving[a] EXCEPT !.left = @ \ stale] ELSE saving[a]]
  /\ UNCHANGED <<released, rules, detached>>

_apply_delta(d) == d.kind = "delta" /\ Restated(d.added \union d.removed, d.added)
_apply_full_set(d) == d.kind = "full" /\ Restated(Rows, d.added)

\* A release is cut of commits collected before: its row needs no tracking.
Release(r) == /\ r \in Rows \ released /\ released' = released \union {r}
              /\ UNCHANGED <<tracked, saving, rules, detached>>

\* set_issue_automation: neither state named, the first of each category; a row
\* of two NULLs is refused, and a state of another category.
First(states) ==
  IF states = {} THEN None ELSE CHOOSE p \in states : \A q \in states : p <= q
_store_automation(started, completed) ==
  /\ LET row == IF started = None /\ completed = None
                THEN [started |-> First(StartedStates), completed |-> First(CompletedStates)]
                ELSE [started |-> started, completed |-> completed]
     IN /\ row.started \in Slot(StartedStates) /\ row.completed \in Slot(CompletedStates)
        /\ row # [started |-> None, completed |-> None]
        /\ rules' = row
  /\ UNCHANGED <<tracked, released, saving, detached>>
delete_automation == rules' = None /\ UNCHANGED <<tracked, released, saving, detached>>

TrackingNext ==
  \/ \E a \in Admins :
       \/ \E wanted \in SUBSET Covered : Look(a, wanted)
       \/ Probe(a) \/ Update(a) \/ Commit(a) \/ Rollback(a)
       \/ \E r \in Covered : Visit(a, r)
  \/ \E d \in Listings : _apply_delta(d) \/ _apply_full_set(d)
  \/ \E r \in Covered : Release(r)
  \/ \E p, q \in Slot(StartedStates \union CompletedStates) : _store_automation(p, q)
  \/ delete_automation

TrackingSpec == TrackingInit /\ [][TrackingNext]_trackingVars

-----------------------------------------------------------------------------
(* A repository that a release named when the save began is not untracked   *)
(* by it, whatever a delivery did to the rows before the releases were read.*)
ReleasedStayTracked == detached = {}

(* Two admins saving at once: "per-repository toggles -- would let two saves *)
(* interleave into a set neither admin chose".  A save, which is of the whole*)
(* set, leaves its own selection, or the one it found.                      *)
SelectionsAreWhole ==
  [][\A a \in Admins : Commit(a) => On' \in {saving[a].wanted \intersect Rows, On}]_trackingVars
=============================================================================
