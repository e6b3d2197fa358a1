------------------------------ MODULE Releases ------------------------------
(***************************************************************************)
(* Releases of one repository into one environment.  A release freezes what *)
(* its range holds when it is cut, from where the last deployment left off  *)
(* to its own commit; it is deployed later, or fails, or is withdrawn.      *)
(* Pushes keep arriving, and need not arrive in the order of their dates.   *)
(***************************************************************************)
EXTENDS Naturals, FiniteSets

CONSTANTS
  Commits,      \* named by their dates; each touches an issue, whose number it is
  Slots,        \* ids of releases, in the order of their creation
  Cutters,      \* requests
  RangeLimit,   \* RANGE_LIMIT
  None

VARIABLES
  stored,       \* github_commits
  release,      \* releases with their links
  cutting,      \* the transaction of each request that cuts one
  deployments,  \* how many there were: the clock of deployed_at
  last,         \* the last id given out
  reach,        \* history: the latest commit a release was cut at
  excused       \* history: work that came late, was trimmed, skipped by hand or deleted

releaseVars == <<stored, release, cutting, deployments, last, reach, excused>>

Idle == [at |-> "idle"]
Bounds == [head : Commits, previous : Commits \union {None}]
Release == [head : Commits, previous : Commits \union {None}, shipped : SUBSET Commits,
            status : {"pending", "deployed", "failed", "rolled_back"}, deployedAt : Nat \union {None}]

LegalReleaseConstants ==
  /\ Commits \subseteq Nat \ {0} /\ IsFiniteSet(Slots) /\ Slots = 1..Cardinality(Slots)
  /\ RangeLimit \in Nat \ {0} /\ None \notin Nat \union Release

ReleaseTypeOK ==
  /\ stored \subseteq Commits
  /\ release \in [Slots -> Release \union {None}]
  /\ \A q \in Cutters : cutting[q] = Idle \/ cutting[q] \in [at : {"bounded"}, bounds : Bounds]
  /\ deployments <= last /\ last \in Slots \union {0}
  /\ reach \in Commits \union {0} /\ excused \subseteq Commits
  \* releases_deployed_at_matches_status
  /\ \A i \in Slots : release[i] # None =>
       (release[i].deployedAt # None) = (release[i].status \in {"deployed", "rolled_back"})

ReleaseInit ==
  /\ stored = {} /\ release = [i \in Slots |-> None]
  /\ cutting = [q \in Cutters |-> Idle]
  /\ deployments = 0 /\ last = 0 /\ reach = 0 /\ excused = {}

\* A push: commits dated before what has been cut already are too late for it.
Store(c) ==
  /\ c \notin stored /\ stored' = stored \union {c}
  /\ excused' = IF c <= reach THEN excused \union {c} ELSE excused
  /\ UNCHANGED <<release, cutting, deployments, last, reach>>

Existing == {i \in Slots : release[i] # None}

\* Mutant: the release created last, whatever became of it.
LatestCreated == {i \in Existing : \A j \in Existing : j <= i}
\* deployed_at IS NOT NULL ORDER BY deployed_at DESC LIMIT 1.
LatestDeployed ==
  LET reached == {i \in Existing : release[i].deployedAt # None}
  IN {i \in reached : \A j \in reached : release[j].deployedAt <= release[i].deployedAt}

\* previous_commit_sha: left to the service, none, or named by the caller.
Derived == IF LatestDeployed = {} THEN None ELSE release[CHOOSE i \in LatestDeployed : TRUE].head
Requested == {Derived, None} \union stored

\* Both boundaries are resolved, in order.
Begin(q, head, previous) ==
  /\ cutting[q] = Idle
  /\ head \in stored /\ previous \in Requested
  /\ previous # None => previous <= head
  /\ previous # head \/ previous = Derived
  /\ cutting' = [cutting EXCEPT ![q] = [at |-> "bounded", bounds |-> [head |-> head, previous |-> previous]]]
  /\ excused' = IF previous \in {Derived, None} THEN excused
                ELSE excused \union {c \in Commits : c <= previous}
  /\ UNCHANGED <<stored, release, deployments, last, reach>>

\* resolve_range: (since, until] by date, in the order of the issues, trimmed.
Range(b) == {c \in stored : c <= b.head /\ (b.previous # None => c > b.previous)}
Trimmed(S) == {c \in S : Cardinality({d \in S : d < c}) < RangeLimit}

\* The range is read, the release, its note and its links are written: the commit.
Cut(q, i) ==
  /\ cutting[q] # Idle /\ i = last + 1 /\ last' = i
  /\ LET b == cutting[q].bounds
         found == Range(b)
     IN /\ release' = [release EXCEPT ![i] =
             [head |-> b.head, previous |-> b.previous, shipped |-> Trimmed(found),
              status |-> "pending", deployedAt |-> None]]
        /\ excused' = excused \union (found \ Trimmed(found))
        /\ reach' = IF b.head > reach THEN b.head ELSE reach
  /\ cutting' = [cutting EXCEPT ![q] = Idle]
  /\ UNCHANGED <<stored, deployments>>

AbandonCut(q) ==
  /\ cutting[q] # Idle /\ cutting' = [cutting EXCEPT ![q] = Idle]
  /\ UNCHANGED <<stored, release, deployments, last, reach, excused>>

AllowedFrom(status) ==
  CASE status = "deployed" -> {"pending"}
    [] status = "failed" -> {"pending"}
    [] status = "rolled_back" -> {"deployed"}
    [] OTHER -> {}

\* set_status: one UPDATE that names the states it moves from.
SetStatus(i, status) ==
  /\ release[i] # None /\ release[i].status \in AllowedFrom(status)
  /\ release' = [release EXCEPT ![i].status = status,
                                ![i].deployedAt = IF status = "deployed" THEN deployments + 1 ELSE @]
  /\ deployments' = IF status = "deployed" THEN deployments + 1 ELSE deployments
  /\ UNCHANGED <<stored, cutting, last, reach, excused>>

\* delete: the links, then the release.
Delete(i) ==
  /\ release[i] # None
  /\ release' = [release EXCEPT ![i] = None]
  /\ excused' = excused \union release[i].shipped
  /\ UNCHANGED <<stored, cutting, deployments, last, reach>>

ReleaseNext ==
  \/ \E c \in Commits : Store(c)
  \/ \E q \in Cutters, h \in Commits, p \in Commits \union {None} : Begin(q, h, p)
  \/ \E q \in Cutters, i \in Slots : Cut(q, i)
  \/ \E q \in Cutters : AbandonCut(q)
  \/ \E i \in Slots, status \in {"deployed", "failed", "rolled_back"} : SetStatus(i, status)
  \/ \E i \in Slots : Delete(i)

ReleaseSpec == ReleaseInit /\ [][ReleaseNext]_releaseVars

-----------------------------------------------------------------------------
(* What is behind a commit that reached the environment was announced by    *)
(* some release that did, or there is a reason: it arrived after its range  *)
(* was frozen, was trimmed, was skipped by an explicit range, or went with  *)
(* a release that was deleted.  Cut concurrently, deployed out of order,    *)
(* failed and withdrawn, releases repeat work but leave none out.           *)
MissingWorkHasAReason ==
  \A i \in Existing : release[i].deployedAt # None =>
    \A c \in stored \ excused : c <= release[i].head =>
      \E j \in Existing : release[j].deployedAt # None /\ c \in release[j].shipped
=============================================================================
