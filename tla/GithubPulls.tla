---------------------------- MODULE GithubPulls ----------------------------
(***************************************************************************)
(* One pull request of a tracked repository.  GitHub sends a delivery for   *)
(* every change of it; deliveries are lost, late, reordered and repeated.   *)
(* A delivery is one transaction, and the upsert of the pull's row is where *)
(* two of them wait for each other.                                         *)
(***************************************************************************)
EXTENDS Naturals, Sequences

CONSTANTS
  Work,       \* issues a pull request may mention
  MaxEvents,  \* bound: changes of the pull request
  MaxMoves    \* bound: moves of issues by people

VARIABLES
  history,    \* the pull request at GitHub, one version per change
  spent,      \* github_deliveries, by the version they carry
  tracked,    \* the repository is listed and tracked
  stored,     \* github_pull_requests: the version in the row, 0 for no row
  linked,     \* github_pull_request_issues
  category,   \* of the workflow state of each issue
  live,       \* issues not archived
  announced,  \* domain_events of a merge, by issue
  applied,    \* history: versions written to the row since it was made
  moved,      \* history: <<version, issue>> of the moves of the automation
  again,      \* history: those that moved an issue more than once
  moves

pullVars == <<history, spent, tracked, stored, linked, category, live, announced, applied, moved, again, moves>>

Ladder == <<"backlog", "unstarted", "started", "completed">>
Category == {"backlog", "unstarted", "started", "completed", "canceled"}
Display == {"draft", "open", "closed", "merged"}
Version == [action : {"opened", "ready_for_review", "edited", "closed", "reopened"},
            display : Display, mentions : SUBSET Work, instant : Nat]

LegalPullConstants == MaxEvents \in Nat /\ MaxMoves \in Nat

Versions == 1..Len(history)

PullTypeOK ==
  /\ history \in Seq(Version) /\ Len(history) <= MaxEvents
  /\ spent \subseteq Versions /\ applied \subseteq spent /\ stored \in applied \union {0}
  /\ tracked \in BOOLEAN
  /\ linked \subseteq Work /\ live \subseteq Work /\ announced \subseteq Work
  /\ category \in [Work -> Category]
  /\ moved \subseteq Versions \X Work /\ again \subseteq moved /\ moves \in 0..MaxMoves

PullInit ==
  /\ history = <<>> /\ spent = {} /\ tracked = TRUE /\ stored = 0 /\ linked = {}
  /\ category = [i \in Work |-> "unstarted"] /\ live = Work
  /\ announced = {} /\ applied = {} /\ moved = {} /\ again = {} /\ moves = 0

-----------------------------------------------------------------------------
(* GitHub: an instant is a second, and two changes may fall into one.        *)

Current == history[Len(history)]

Change(action, display, mentions) ==
  /\ Len(history) < MaxEvents
  /\ \E t \in IF history = <<>> THEN {0} ELSE {Current.instant, Current.instant + 1} :
       history' = Append(history, [action |-> action, display |-> display, mentions |-> mentions, instant |-> t])
  /\ UNCHANGED <<spent, tracked, stored, linked, category, live, announced, applied, moved, again, moves>>

Emit ==
  \/ history = <<>> /\ \E d \in {"draft", "open"}, S \in SUBSET Work : Change("opened", d, S)
  \/ /\ history # <<>>
     /\ \/ Current.display = "draft" /\ Change("ready_for_review", "open", Current.mentions)
        \/ \E S \in SUBSET Work \ {Current.mentions} : Change("edited", Current.display, S)
        \/ /\ Current.display \in {"draft", "open"}
           /\ \E d \in {"closed", "merged"} : Change("closed", d, Current.mentions)
        \/ Current.display = "closed" /\ Change("reopened", "open", Current.mentions)

-----------------------------------------------------------------------------
(* apply_webhook for a pull_request event.                                   *)

\* Mutant: every delivery is a new one.
NewEachTime(n) == TRUE
\* record_delivery: ON CONFLICT DO NOTHING.
NewDelivery(n) == n \notin spent

\* Mutant: whatever arrives last is written.
AnyOrder(n) == TRUE
\* The WHERE of the upsert.
NotStale(n) == stored = 0 \/ history[n].instant >= history[stored].instant

\* resolve_issue_ids: an archived issue is not found.
Resolved(n) == history[n].mentions \intersect live

\* automated_move_for.
Target(v) ==
  CASE v.display = "merged" /\ v.action = "closed" -> "completed"
    [] v.display = "open" /\ v.action \in {"opened", "reopened", "ready_for_review"} -> "started"
    [] OTHER -> "none"

CategoriesBelow(target) == {Ladder[k] : k \in {k \in 1..4 : \E j \in 1..4 : Ladder[j] = target /\ k < j}}

\* move_issues_for_automation, on the issues this version mentions.
Moving(n) == {i \in Resolved(n) : category[i] \in CategoriesBelow(Target(history[n]))}

\* record_pull_request_merged reads the links that were just written.
Merged(n) == IF history[n].display = "merged" THEN Resolved(n) ELSE {}

\* The repository is not tracked, or the payload is older than the row.
Ignored(n) == ~tracked \/ ~NotStale(n)

Deliver(n) ==
  /\ NewDelivery(n)
  /\ spent' = spent \union {n}
  /\ IF Ignored(n) THEN UNCHANGED <<stored, linked, category, announced, applied, moved, again>>
     ELSE /\ stored' = n /\ applied' = applied \union {n}
          /\ linked' = Resolved(n)
          /\ announced' = announced \union Merged(n)
          /\ category' = [i \in Work |-> IF i \in Moving(n) THEN Target(history[n]) ELSE category[i]]
          /\ moved' = moved \union ({n} \X Moving(n))
          /\ again' = again \union (moved \intersect ({n} \X Moving(n)))
  /\ UNCHANGED <<history, tracked, live, moves>>

-----------------------------------------------------------------------------
\* set_tracked.
Track ==
  /\ tracked' = ~tracked
  /\ UNCHANGED <<history, spent, stored, linked, category, live, announced, applied, moved, again, moves>>

\* delete_development: the repository leaves the installation, or the workspace disconnects.
Forget ==
  /\ stored # 0
  /\ stored' = 0 /\ linked' = {} /\ applied' = {} /\ tracked' = FALSE
  /\ UNCHANGED <<history, spent, category, live, announced, moved, again, moves>>

\* A person moves an issue, to any state.
MoveByHand(i, c) ==
  /\ moves < MaxMoves /\ c # category[i]
  /\ category' = [category EXCEPT ![i] = c] /\ moves' = moves + 1
  /\ UNCHANGED <<history, spent, tracked, stored, linked, live, announced, applied, moved, again>>

ArchiveLinked(i) ==
  /\ i \in live /\ live' = live \ {i}
  /\ UNCHANGED <<history, spent, tracked, stored, linked, category, announced, applied, moved, again, moves>>

PullNext ==
  \/ Emit
  \/ \E n \in Versions : Deliver(n)
  \/ Track
  \/ Forget
  \/ \E i \in Work, c \in Category : MoveByHand(i, c)
  \/ \E i \in Work : ArchiveLinked(i)

PullSpec == PullInit /\ [][PullNext]_pullVars

-----------------------------------------------------------------------------
(* In whatever order deliveries arrive, the row holds the newest version    *)
(* applied to it, and the links are those of that version and of no other.  *)
TheRowIsTheNewestVersion ==
  stored # 0 =>
    /\ \A n \in applied : history[n].instant <= history[stored].instant
    /\ linked \subseteq history[stored].mentions
    /\ history[stored].mentions \intersect live \subseteq linked

(* A delivery moves an issue once: repeated, it does not undo what a person *)
(* did after it.                                                            *)
DeliveriesActOnce == again = {}
=============================================================================
