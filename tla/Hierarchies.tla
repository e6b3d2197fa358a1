---------------------------- MODULE Hierarchies ----------------------------
(***************************************************************************)
(* The three graphs of a workspace that must not contain a loop, and that  *)
(* no constraint keeps from containing one: sub-issues, nested initiatives *)
(* and dependencies between projects.  Each is guarded by the same three   *)
(* statements of one READ COMMITTED transaction: take the workspace's      *)
(* advisory lock, walk what is stored, write.  Removing arrows takes no    *)
(* lock.  The walk and the write each see what is committed when they run. *)
(*                                                                         *)
(* An arrow goes from a child to its parent, and from a blocking project   *)
(* to the one it blocks.                                                   *)
(***************************************************************************)
EXTENDS Naturals, FiniteSets, TLC

CONSTANTS
    Nodes,      \* issues, initiatives or projects of one workspace
    Requests,   \* transactions that may be open at once
    Free,       \* "nobody holds the advisory lock"
    MaxDepth    \* MAX_INITIATIVE_DEPTH

ASSUME FreeAssumption == Free \notin Requests
ASSUME NodesAssumption == IsFiniteSet(Nodes)
ASSUME MaxDepthAssumption == MaxDepth \in Nat

VARIABLES
    kind,       \* which of the three tables this is about
    alive,      \* the rows that exist
    edges,      \* the committed arrows
    lock,       \* who holds the advisory lock of the table and workspace
    stage,      \* where each request stands
    arrow       \* the arrow it was asked to add

vars == <<kind, alive, edges, lock, stage, arrow>>

Kinds == {"issue", "initiative", "project"}
Stages == {"idle", "waiting", "locked", "allowed"}
NoArrow == <<>>

Graph == INSTANCE AcyclicGraph WITH Nodes <- Nodes, edges <- edges

\* Rows are alike, and so are transactions.
Symmetry == Permutations(Nodes) \cup Permutations(Requests)

TypeOK ==
    /\ kind \in Kinds
    /\ alive \in SUBSET Nodes
    /\ edges \in SUBSET (alive \X alive)
    /\ kind # "project" =>
        \A e, f \in edges : e[1] = f[1] => e = f
    /\ lock \in Requests \cup {Free}
    /\ stage \in [Requests -> Stages]
    /\ arrow \in [Requests -> (Nodes \X Nodes) \cup {NoArrow}]

Init ==
    /\ kind \in Kinds
    /\ alive = {}
    /\ edges = {}
    /\ lock = Free
    /\ stage = [t \in Requests |-> "idle"]
    /\ arrow = [t \in Requests |-> NoArrow]

-----------------------------------------------------------------------------
(***************************************************************************)
(* Walks                                                                   *)
(***************************************************************************)

\* The nodes above n, n included; in a forest they are one path.
Above(n) == Graph!Reach(edges, n)
Below(n) == {m \in alive : n \in Above(m)}
Depth(n) == Cardinality(Above(n)) - 1

AtMost(a, b) == IF a <= b THEN a ELSE b

\* inspect_parenting: the walk up and the walk down both stop after MaxDepth
\* steps, so each of the numbers below may be short of the truth.
ParentDepth(b) == AtMost(Depth(b), MaxDepth)
HeightOver(a, m) == AtMost(Depth(m) - Depth(a), MaxDepth)
CreatesCycle(a, b) == a \in Above(b) /\ Depth(b) - Depth(a) <= MaxDepth

\* Mutant: only the root of the moved tree is looked at.
FitsAlone(a, b) == ParentDepth(b) + 1 + HeightOver(a, a) <= MaxDepth

\* resulting_depth, over the whole tree that moves with a.
Fits(a, b) ==
    \A m \in Below(a) \cup {a} : ParentDepth(b) + 1 + HeightOver(a, m) <= MaxDepth

-----------------------------------------------------------------------------
(***************************************************************************)
(* Adding an arrow                                                         *)
(***************************************************************************)
End(t) ==
    /\ lock' = IF lock = t THEN Free ELSE lock
    /\ stage' = [stage EXCEPT ![t] = "idle"]
    /\ arrow' = [arrow EXCEPT ![t] = NoArrow]

\* set_parent and add_dependency compare their two arguments before anything.
Ask(t, a, b) ==
    /\ stage[t] = "idle"
    /\ a # b
    /\ stage' = [stage EXCEPT ![t] = "waiting"]
    /\ arrow' = [arrow EXCEPT ![t] = <<a, b>>]
    /\ UNCHANGED <<kind, alive, edges, lock>>

\* Mutant: the advisory lock is shared.
LockShared(t) ==
    /\ stage[t] = "waiting"
    /\ lock' = t
    /\ stage' = [stage EXCEPT ![t] = "locked"]
    /\ UNCHANGED <<kind, alive, edges, arrow>>

\* pg_advisory_xact_lock
Lock(t) ==
    /\ stage[t] = "waiting"
    /\ lock = Free
    /\ lock' = t
    /\ stage' = [stage EXCEPT ![t] = "locked"]
    /\ UNCHANGED <<kind, alive, edges, arrow>>

Allow(t) ==
    /\ stage[t] = "locked"
    /\ stage' = [stage EXCEPT ![t] = "allowed"]
    /\ UNCHANGED <<kind, alive, edges, lock, arrow>>

\* Mutant: the walk starts at the issue instead of its proposed parent.
AllowByWrongWalk(t) ==
    /\ kind = "issue"
    /\ stage[t] = "locked"
    /\ arrow[t][2] \notin Above(arrow[t][1])
    /\ Allow(t)

\* Sub-issues: the walk up from the proposed parent does not meet the issue.
AllowSubIssue(t) ==
    /\ kind = "issue"
    /\ stage[t] = "locked"
    /\ arrow[t][1] \notin Above(arrow[t][2])
    /\ Allow(t)

\* Initiatives: neither a cycle nor a tree that has grown too deep.
AllowInitiative(t) ==
    LET a == arrow[t][1]
        b == arrow[t][2]
    IN  /\ kind = "initiative"
        /\ stage[t] = "locked"
        /\ ~CreatesCycle(a, b)
        /\ Fits(a, b)
        /\ Allow(t)

\* Mutant: only a direct dependency in the other direction is refused.
AllowUnlessDirect(t) ==
    /\ kind = "project"
    /\ stage[t] = "locked"
    /\ <<arrow[t][2], arrow[t][1]>> \notin edges
    /\ Allow(t)

\* Projects: the walk forward from the blocked project, of any length, does not
\* meet the blocking one.
AllowDependency(t) ==
    /\ kind = "project"
    /\ stage[t] = "locked"
    /\ arrow[t][1] \notin Above(arrow[t][2])
    /\ Allow(t)

\* The UPDATE of set_parent and the commit: the one parent is replaced.  The
\* foreign keys refuse a row that is gone.
SetParent(t) ==
    LET a == arrow[t][1] IN
    /\ kind \in {"issue", "initiative"}
    /\ stage[t] = "allowed"
    /\ {a, arrow[t][2]} \subseteq alive
    /\ edges' = {e \in edges : e[1] # a} \cup {arrow[t]}
    /\ End(t)
    /\ UNCHANGED <<kind, alive>>

\* The INSERT of add_dependency and the commit.  The primary key refuses an
\* arrow that is there, the foreign keys a row that is gone.
AddDependency(t) ==
    /\ kind = "project"
    /\ stage[t] = "allowed"
    /\ arrow[t] \in (alive \X alive) \ edges
    /\ edges' = edges \cup {arrow[t]}
    /\ End(t)
    /\ UNCHANGED <<kind, alive>>

\* A refusal, a timeout or a lost connection rolls the transaction back, and
\* the advisory lock goes with it.
Rollback(t) ==
    /\ stage[t] # "idle"
    /\ End(t)
    /\ UNCHANGED <<kind, alive, edges>>

-----------------------------------------------------------------------------
(***************************************************************************)
(* Rows come and go, and arrows with them, under no lock                   *)
(***************************************************************************)

\* create: no row is born with an arrow.
Create(n) ==
    /\ n \notin alive
    /\ alive' = alive \cup {n}
    /\ UNCHANGED <<kind, edges, lock, stage, arrow>>

\* clear_parent of an issue or an initiative.
ClearParent(n) ==
    /\ kind \in {"issue", "initiative"}
    /\ edges' = {e \in edges : e[1] # n}
    /\ UNCHANGED <<kind, alive, lock, stage, arrow>>

\* remove_dependency
RemoveDependency(e) ==
    /\ kind = "project"
    /\ edges' = edges \ {e}
    /\ UNCHANGED <<kind, alive, lock, stage, arrow>>

\* Mutant: clear_children forgotten, with no foreign key to notice.
DeleteAboveChildren(n) ==
    /\ kind = "initiative"
    /\ n \in alive
    /\ alive' = alive \ {n}
    /\ edges' = {e \in edges : e[1] # n}
    /\ UNCHANGED <<kind, lock, stage, arrow>>

\* delete of an initiative: its children are promoted, then the row goes.
DeleteInitiative(n) ==
    /\ kind = "initiative"
    /\ n \in alive
    /\ alive' = alive \ {n}
    /\ edges' = {e \in edges : n \notin {e[1], e[2]}}
    /\ UNCHANGED <<kind, lock, stage, arrow>>

\* delete of a project: both ends of its dependencies go in one statement.
DeleteProject(n) ==
    /\ kind = "project"
    /\ n \in alive
    /\ alive' = alive \ {n}
    /\ edges' = {e \in edges : n \notin {e[1], e[2]}}
    /\ UNCHANGED <<kind, lock, stage, arrow>>

-----------------------------------------------------------------------------
Serve(t) ==
    \/ \E a, b \in Nodes : Ask(t, a, b)
    \/ Lock(t)
    \/ AllowSubIssue(t) \/ AllowInitiative(t) \/ AllowDependency(t)
    \/ SetParent(t) \/ AddDependency(t) \/ Rollback(t)

Next ==
    \/ \E t \in Requests : Serve(t)
    \/ \E n \in Nodes :
        Create(n) \/ ClearParent(n) \/ DeleteInitiative(n) \/ DeleteProject(n)
    \/ \E e \in edges : RemoveDependency(e)

Spec == Init /\ [][Next]_vars

-----------------------------------------------------------------------------
(***************************************************************************)
(* Properties                                                              *)
(***************************************************************************)

\* No concurrent request invalidates what a walk read: whoever was told that
\* its arrow closes no loop can still say so when it writes.
AllowedStaysAllowed ==
    \A t \in Requests :
        stage[t] = "allowed" => lock = t /\ arrow[t][1] \notin Above(arrow[t][2])

\* No initiative ever sits more than MAX_INITIATIVE_DEPTH levels below a
\* top-level one, whatever was nested, moved or promoted concurrently.
InitiativesStayShallow ==
    kind = "initiative" => \A n \in alive : Depth(n) <= MaxDepth

\* The three statements and their lock act as one atomic "add an arrow unless
\* it closes a loop".
LoopsAreRefusedAtomically == Graph!Spec

\* No loop, in any of the three graphs.
NoLoop == Graph!NoLoop
=============================================================================
