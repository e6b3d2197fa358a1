---------------------------- MODULE AcyclicGraph ----------------------------
(***************************************************************************)
(* What the hierarchies of a workspace promise, as one atomic object: a    *)
(* directed graph that gains an arrow only if the arrow closes no loop at  *)
(* that instant, and may lose arrows at any time.  Hierarchies implements  *)
(* it with locks, walks and writes that are separate statements.           *)
(***************************************************************************)
CONSTANT Nodes
VARIABLE edges

\* The nodes a walk from n along the arrows meets, n included: what every set
\* that holds n and is closed under the arrows holds.
Closed(E, S) == \A e \in E : e[1] \in S => e[2] \in S
Reach(E, n) == {m \in Nodes : \A S \in SUBSET Nodes : n \in S /\ Closed(E, S) => m \in S}

\* No loop: every set of nodes has one with no arrow into the set.
Acyclic(E) ==
    \A S \in SUBSET Nodes :
        S # {} => \E n \in S : \A m \in S : <<n, m>> \notin E

Init == edges = {}

Connect(a, b) ==
    /\ a \notin Reach(edges, b)
    /\ <<a, b>> \in edges'
    /\ edges' \subseteq edges \cup {<<a, b>>}

Disconnect == edges' \subseteq edges

Next == Disconnect \/ \E a, b \in Nodes : Connect(a, b)

Spec == Init /\ [][Next]_edges

\* A loop in a hierarchy is what no constraint of the schema can refuse.
NoLoop == Acyclic(edges)
=============================================================================
