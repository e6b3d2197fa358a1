------------------------- MODULE Hierarchies_proofs -------------------------
(***************************************************************************)
(* Proofs about Hierarchies for any number of rows and transactions.  The  *)
(* argument: removing arrows shortens every walk, so it invalidates no     *)
(* answer; adding one takes the advisory lock, which the holder of an      *)
(* answer has; and an arrow that closes no loop when it is added leaves a  *)
(* node without a way back into every set that had one.                    *)
(***************************************************************************)
EXTENDS Hierarchies, FiniteSetTheorems, TLAPS

\* Holding the lock, and what a request was asked.
LockInv ==
    \A t \in Requests :
        /\ stage[t] \in {"locked", "allowed"} => lock = t
        /\ stage[t] # "idle" => arrow[t] \in Nodes \X Nodes

\* The inductive invariant of the lock and the cycle guard.
IInv == TypeOK /\ LockInv /\ AllowedStaysAllowed /\ NoLoop

-----------------------------------------------------------------------------
\* A walk over fewer arrows meets fewer nodes.
LEMMA ReachMonotone ==
    ASSUME NEW E, NEW F, F \subseteq E, NEW n
    PROVE  Graph!Reach(F, n) \subseteq Graph!Reach(E, n)
BY DEF Graph!Reach, Graph!Closed

\* A walk meets its start, and goes on along every arrow.
LEMMA ReachClosed ==
    ASSUME NEW E, NEW n \in Nodes
    PROVE  /\ n \in Graph!Reach(E, n)
           /\ \A x, y \in Nodes :
                x \in Graph!Reach(E, n) /\ <<x, y>> \in E => y \in Graph!Reach(E, n)
BY DEF Graph!Reach, Graph!Closed

\* Taking arrows away makes no loop.
LEMMA AcyclicMonotone ==
    ASSUME NEW E, NEW F, F \subseteq E, Graph!Acyclic(E)
    PROVE  Graph!Acyclic(F)
BY DEF Graph!Acyclic

\* The cycle guard is sound: an arrow from a to b makes no loop unless a walk
\* from b meets a.
LEMMA ArrowLemma ==
    ASSUME NEW E, Graph!Acyclic(E), NEW a \in Nodes, NEW b \in Nodes,
           a \notin Graph!Reach(E, b)
    PROVE  Graph!Acyclic(E \cup {<<a, b>>})
<1> DEFINE F == E \cup {<<a, b>>}
<1> SUFFICES ASSUME NEW S \in SUBSET Nodes, S # {}
             PROVE  \E n \in S : \A m \in S : <<n, m>> \notin F
  BY DEF Graph!Acyclic
<1>1. PICK x \in S : \A m \in S : <<x, m>> \notin E
  BY DEF Graph!Acyclic
<1>2. CASE x # a \/ b \notin S
  BY <1>1, <1>2
<1>3. CASE x = a /\ b \in S
  <2> DEFINE T == {y \in S : y \in Graph!Reach(E, b)}
  <2>1. b \in T
    BY <1>3, ReachClosed
  <2>2. PICK z \in T : \A m \in T : <<z, m>> \notin E
    BY <2>1 DEF Graph!Acyclic
  <2>3. z # a
    OBVIOUS
  <2>4. \A m \in S : <<z, m>> \notin E
    BY <2>2, ReachClosed
  <2> QED BY <2>3, <2>4
<1> QED BY <1>2, <1>3

\* inspect_parenting stops its walks at MAX_INITIATIVE_DEPTH.  A loop too long
\* for the walk up to see makes the parent too deep for the depth rule.
LEMMA DepthGuardIsEnough ==
    ASSUME NEW a \in Nodes, NEW b \in Nodes, ~CreatesCycle(a, b), Fits(a, b)
    PROVE  a \notin Above(b)
<1>1. \A n \in Nodes : n \in Above(n) /\ Above(n) \subseteq Nodes
  BY DEF Above, Graph!Reach
<1>2. \A n \in Nodes : Depth(n) \in Nat
  <2> SUFFICES ASSUME NEW n \in Nodes PROVE Depth(n) \in Nat
    OBVIOUS
  <2>1. IsFiniteSet(Above(n)) /\ Cardinality(Above(n)) \in Nat
    BY <1>1, NodesAssumption, FS_Subset, FS_CardinalityType
  <2>2. Cardinality(Above(n)) # 0
    BY <1>1, <2>1, FS_EmptySet
  <2> QED BY <2>1, <2>2 DEF Depth
<1>3. HeightOver(a, a) = 0
  BY <1>2, MaxDepthAssumption DEF HeightOver, AtMost
<1>4. ParentDepth(b) + 1 <= MaxDepth
  BY <1>2, <1>3, MaxDepthAssumption DEF Fits, ParentDepth, AtMost
<1>5. Depth(b) < MaxDepth
  BY <1>2, <1>4, MaxDepthAssumption DEF ParentDepth, AtMost
<1>6. Depth(b) - Depth(a) <= MaxDepth
  BY <1>2, <1>5, MaxDepthAssumption
<1> QED BY <1>6 DEF CreatesCycle

-----------------------------------------------------------------------------
\* Every step of the hierarchies is a step of the atomic graph, or none.
LEMMA StepIsAtomic ==
    ASSUME IInv, [Next]_vars
    PROVE  \/ edges' \subseteq edges
           \/ \E t \in Requests :
                /\ stage[t] = "allowed"
                /\ Graph!Connect(arrow[t][1], arrow[t][2])
                /\ arrow[t] \in Nodes \X Nodes
                /\ End(t)
<1> USE DEF IInv
<1>1. ASSUME NEW t \in Requests, SetParent(t) \/ AddDependency(t)
      PROVE  /\ stage[t] = "allowed" /\ End(t)
             /\ arrow[t] \in Nodes \X Nodes
             /\ Graph!Connect(arrow[t][1], arrow[t][2])
  <2>1. /\ stage[t] = "allowed" /\ End(t)
        /\ arrow[t] \in edges' /\ edges' \subseteq edges \cup {arrow[t]}
    BY <1>1 DEF SetParent, AddDependency
  <2>2. arrow[t] \in Nodes \X Nodes
    BY <2>1 DEF LockInv
  <2>3. arrow[t] = <<arrow[t][1], arrow[t][2]>>
    BY <2>2
  <2>4. arrow[t][1] \notin Graph!Reach(edges, arrow[t][2])
    BY <2>1 DEF AllowedStaysAllowed, Above
  <2> QED BY <2>1, <2>2, <2>3, <2>4 DEF Graph!Connect
<1>2. ASSUME NEW t \in Requests,
             \/ \E a, b \in Nodes : Ask(t, a, b)
             \/ Lock(t) \/ AllowSubIssue(t) \/ AllowInitiative(t)
             \/ AllowDependency(t) \/ Rollback(t)
      PROVE  edges' = edges
  BY <1>2 DEF Ask, Lock, AllowSubIssue, AllowInitiative, AllowDependency, Allow,
              Rollback
<1>3. ASSUME NEW n \in Nodes,
             \/ Create(n) \/ ClearParent(n)
             \/ DeleteInitiative(n) \/ DeleteProject(n)
      PROVE  edges' \subseteq edges
  BY <1>3 DEF Create, ClearParent, DeleteInitiative, DeleteProject
<1>4. ASSUME NEW e \in edges, RemoveDependency(e) PROVE edges' \subseteq edges
  BY <1>4 DEF RemoveDependency
<1>5. CASE UNCHANGED vars
  BY <1>5 DEF vars
<1> QED BY <1>1, <1>2, <1>3, <1>4, <1>5 DEF Next, Serve

-----------------------------------------------------------------------------
\* Type correctness: forests stay forests, and no arrow outlives a row.
LEMMA TypeStep == ASSUME IInv, [Next]_vars PROVE TypeOK'
<1> USE FreeAssumption DEF IInv, TypeOK, Kinds, Stages, End, NoArrow
<1>1. ASSUME NEW t \in Requests, NEW a \in Nodes, NEW b \in Nodes, Ask(t, a, b)
      PROVE  TypeOK'
  BY <1>1 DEF Ask
<1>2. ASSUME NEW t \in Requests, Lock(t) PROVE TypeOK'
  BY <1>2 DEF Lock
<1>3. ASSUME NEW t \in Requests,
             AllowSubIssue(t) \/ AllowInitiative(t) \/ AllowDependency(t)
      PROVE  TypeOK'
  BY <1>3 DEF AllowSubIssue, AllowInitiative, AllowDependency, Allow
<1>4. ASSUME NEW t \in Requests, SetParent(t) PROVE TypeOK'
  <2>1. arrow[t] \in Nodes \X Nodes
    BY <1>4 DEF SetParent, LockInv
  <2>2. arrow[t] \in alive \X alive
    BY <1>4, <2>1 DEF SetParent
  <2>3. edges' \in SUBSET (alive \X alive) /\ alive' = alive
    BY <1>4, <2>2 DEF SetParent
  <2>4. \A e, f \in edges' : e[1] = f[1] => e = f
    BY <1>4 DEF SetParent
  <2> QED BY <1>4, <2>3, <2>4 DEF SetParent
<1>5. ASSUME NEW t \in Requests, AddDependency(t) PROVE TypeOK'
  BY <1>5 DEF AddDependency
<1>6. ASSUME NEW t \in Requests, Rollback(t) PROVE TypeOK'
  BY <1>6 DEF Rollback
<1>7. ASSUME NEW n \in Nodes, Create(n) PROVE TypeOK'
  BY <1>7 DEF Create
<1>8. ASSUME NEW n \in Nodes, ClearParent(n) PROVE TypeOK'
  BY <1>8 DEF ClearParent
<1>9. ASSUME NEW n \in Nodes, DeleteInitiative(n) \/ DeleteProject(n)
      PROVE  TypeOK'
  <2>1. edges' \in SUBSET (alive' \X alive')
    BY <1>9 DEF DeleteInitiative, DeleteProject
  <2> QED BY <1>9, <2>1 DEF DeleteInitiative, DeleteProject
<1>10. ASSUME NEW e \in edges, RemoveDependency(e) PROVE TypeOK'
  BY <1>10 DEF RemoveDependency
<1>11. CASE UNCHANGED vars
  BY <1>11 DEF vars
<1> QED
  BY <1>1, <1>2, <1>3, <1>4, <1>5, <1>6, <1>7, <1>8, <1>9, <1>10, <1>11
  DEF Next, Serve

\* The advisory lock excludes, and an arrow is known until its request ends.
LEMMA LockStep == ASSUME IInv, [Next]_vars PROVE LockInv'
<1> USE FreeAssumption DEF IInv, TypeOK, LockInv, Stages, End
<1>1. ASSUME NEW t \in Requests, NEW a \in Nodes, NEW b \in Nodes, Ask(t, a, b)
      PROVE  LockInv'
  BY <1>1 DEF Ask
<1>2. ASSUME NEW t \in Requests, Lock(t) PROVE LockInv'
  BY <1>2 DEF Lock
<1>3. ASSUME NEW t \in Requests,
             AllowSubIssue(t) \/ AllowInitiative(t) \/ AllowDependency(t)
      PROVE  LockInv'
  BY <1>3 DEF AllowSubIssue, AllowInitiative, AllowDependency, Allow
<1>4. ASSUME NEW t \in Requests, End(t) PROVE LockInv'
  BY <1>4
<1>5. CASE UNCHANGED <<lock, stage, arrow>>
  BY <1>5
<1> QED
  BY <1>1, <1>2, <1>3, <1>4, <1>5
  DEF Next, Serve, SetParent, AddDependency, Rollback, Create, ClearParent,
      RemoveDependency, DeleteInitiative, DeleteProject, vars

\* What a walk answered stays true until the write it was for.
LEMMA AllowedStep == ASSUME IInv, LockInv', [Next]_vars PROVE AllowedStaysAllowed'
<1> SUFFICES ASSUME NEW t \in Requests, stage'[t] = "allowed"
             PROVE  lock' = t
                    /\ arrow'[t][1] \notin Graph!Reach(edges', arrow'[t][2])
  BY DEF AllowedStaysAllowed, Above
<1> USE FreeAssumption DEF IInv, TypeOK, Stages
<1>1. lock' = t
  BY DEF LockInv
<1>2. ASSUME AllowSubIssue(t) \/ AllowInitiative(t) \/ AllowDependency(t)
      PROVE  arrow'[t][1] \notin Graph!Reach(edges', arrow'[t][2])
  <2>1. CASE AllowSubIssue(t) \/ AllowDependency(t)
    BY <2>1 DEF AllowSubIssue, AllowDependency, Allow, Above
  <2>2. CASE AllowInitiative(t)
    <3>1. PICK a, b \in Nodes : arrow[t] = <<a, b>>
      BY <2>2 DEF AllowInitiative, LockInv
    <3>2. ~CreatesCycle(a, b) /\ Fits(a, b)
      BY <2>2, <3>1 DEF AllowInitiative
    <3>3. a \notin Graph!Reach(edges, b)
      BY <3>2, DepthGuardIsEnough DEF Above
    <3> QED BY <2>2, <3>1, <3>3 DEF AllowInitiative, Allow
  <2> QED BY <1>2, <2>1, <2>2
<1>3. ASSUME edges' \subseteq edges, stage[t] = "allowed", arrow'[t] = arrow[t]
      PROVE  arrow'[t][1] \notin Graph!Reach(edges', arrow'[t][2])
  BY <1>3, ReachMonotone DEF AllowedStaysAllowed, Above
<1>4. ASSUME NEW r \in Requests,
             \/ \E a, b \in Nodes : Ask(r, a, b)
             \/ Lock(r) \/ Rollback(r)
      PROVE  stage[t] = "allowed" /\ arrow'[t] = arrow[t] /\ edges' = edges
  BY <1>4 DEF Ask, Lock, Rollback, End
<1>5. ASSUME NEW r \in Requests,
             AllowSubIssue(r) \/ AllowInitiative(r) \/ AllowDependency(r)
      PROVE  arrow'[t][1] \notin Graph!Reach(edges', arrow'[t][2])
  <2>1. CASE r = t
    BY <1>2, <1>5, <2>1
  <2>2. CASE r # t
    BY <1>3, <1>5, <2>2
    DEF AllowSubIssue, AllowInitiative, AllowDependency, Allow
  <2> QED BY <2>1, <2>2
<1>6. ASSUME NEW r \in Requests, SetParent(r) \/ AddDependency(r) PROVE FALSE
  <2>1. stage[r] = "allowed" /\ stage'[r] = "idle"
    BY <1>6 DEF SetParent, AddDependency, End
  <2>2. r # t /\ stage[t] = "allowed"
    BY <1>6, <2>1 DEF SetParent, AddDependency, End
  <2> QED BY <2>1, <2>2 DEF AllowedStaysAllowed
<1>7. ASSUME NEW n \in Nodes,
             \/ Create(n) \/ ClearParent(n)
             \/ DeleteInitiative(n) \/ DeleteProject(n)
      PROVE  edges' \subseteq edges /\ UNCHANGED <<stage, arrow>>
  BY <1>7 DEF Create, ClearParent, DeleteInitiative, DeleteProject
<1>8. ASSUME NEW e \in edges, RemoveDependency(e)
      PROVE  edges' \subseteq edges /\ UNCHANGED <<stage, arrow>>
  BY <1>8 DEF RemoveDependency
<1>9. ASSUME UNCHANGED vars
       PROVE  edges' \subseteq edges /\ UNCHANGED <<stage, arrow>>
  BY <1>9 DEF vars
<1>10. arrow'[t][1] \notin Graph!Reach(edges', arrow'[t][2])
  BY <1>3, <1>4, <1>5, <1>6, <1>7, <1>8, <1>9 DEF Next, Serve
<1> QED BY <1>1, <1>10

-----------------------------------------------------------------------------
\* The inductive invariant holds of every reachable state.
THEOREM InductiveInvariant == Spec => []IInv
<1>1. Init => IInv
  BY DEF Init, IInv, TypeOK, LockInv, AllowedStaysAllowed, Kinds, Stages,
         NoLoop, Graph!NoLoop, Graph!Acyclic
<1>2. IInv /\ [Next]_vars => IInv'
  <2> SUFFICES ASSUME IInv, [Next]_vars PROVE IInv'
    OBVIOUS
  <2>1. TypeOK' /\ LockInv' /\ AllowedStaysAllowed'
    BY TypeStep, LockStep, AllowedStep
  <2>2. ASSUME edges' \subseteq edges PROVE Graph!Acyclic(edges')
    BY <2>2, AcyclicMonotone DEF IInv, NoLoop, Graph!NoLoop
  <2>3. ASSUME NEW a \in Nodes, NEW b \in Nodes, Graph!Connect(a, b)
        PROVE  Graph!Acyclic(edges')
    <3>1. Graph!Acyclic(edges \cup {<<a, b>>})
      BY <2>3, ArrowLemma DEF IInv, NoLoop, Graph!NoLoop, Graph!Connect
    <3> QED BY <2>3, <3>1, AcyclicMonotone DEF Graph!Connect
  <2>4. ASSUME NEW t \in Requests, arrow[t] \in Nodes \X Nodes,
               Graph!Connect(arrow[t][1], arrow[t][2])
        PROVE  Graph!Acyclic(edges')
    <3>1. arrow[t][1] \in Nodes /\ arrow[t][2] \in Nodes
      BY <2>4
    <3> QED BY <2>3, <2>4, <3>1
  <2>5. NoLoop'
    BY <2>2, <2>4, StepIsAtomic DEF NoLoop, Graph!NoLoop
  <2> QED BY <2>1, <2>5 DEF IInv
<1> QED BY <1>1, <1>2, PTL DEF Spec

\* Type correctness: in particular no arrow outlives a row, and issues and
\* initiatives have one parent at most.
THEOREM TypeCorrect == Spec => []TypeOK
<1>1. IInv => TypeOK
  BY DEF IInv
<1> QED BY <1>1, InductiveInvariant, PTL

\* What set_parent and add_dependency read under the lock is still true when
\* they write.
THEOREM AllowedTheorem == Spec => []AllowedStaysAllowed
<1>1. IInv => AllowedStaysAllowed
  BY DEF IInv
<1> QED BY <1>1, InductiveInvariant, PTL

\* Neither sub-issues, nor initiatives, nor project dependencies form a loop.
THEOREM NoLoopTheorem == Spec => []NoLoop
<1>1. IInv => NoLoop
  BY DEF IInv
<1> QED BY <1>1, InductiveInvariant, PTL

\* Lock, walk and write implement the atomic graph.
THEOREM RefinementTheorem == Spec => LoopsAreRefusedAtomically
<1>1. Init => Graph!Init
  BY DEF Init, Graph!Init
<1>2. IInv /\ [Next]_vars => [Graph!Next]_edges
  <2> SUFFICES ASSUME IInv, [Next]_vars PROVE Graph!Next
    OBVIOUS
  <2>1. CASE edges' \subseteq edges
    BY <2>1 DEF Graph!Next, Graph!Disconnect
  <2>2. ASSUME NEW t \in Requests, arrow[t] \in Nodes \X Nodes,
               Graph!Connect(arrow[t][1], arrow[t][2])
        PROVE  Graph!Next
    <3>1. arrow[t][1] \in Nodes /\ arrow[t][2] \in Nodes
      BY <2>2
    <3> QED BY <2>2, <3>1 DEF Graph!Next
  <2> QED BY <2>1, <2>2, StepIsAtomic
<1> QED
  BY <1>1, <1>2, InductiveInvariant, PTL
  DEF Spec, LoopsAreRefusedAtomically, Graph!Spec

-----------------------------------------------------------------------------
(* Levels: how deep an initiative stands, and what hangs below it.          *)

\* A forest: nobody has two parents, and nobody is above himself.
Forest(E) ==
    /\ E \subseteq Nodes \X Nodes
    /\ \A e, f \in E : e[1] = f[1] => e = f
    /\ Graph!Acyclic(E)

\* What is above a node's parent is above the node.
LEMMA ReachTransitive ==
    ASSUME NEW E \in SUBSET (Nodes \X Nodes), NEW x \in Nodes, NEW y \in Graph!Reach(E, x)
    PROVE  Graph!Reach(E, y) \subseteq Graph!Reach(E, x)
BY DEF Graph!Reach, Graph!Closed

\* A walk that gets anywhere takes a first step.
LEMMA FirstStep ==
    ASSUME NEW E \in SUBSET (Nodes \X Nodes), NEW x \in Nodes, NEW y \in Graph!Reach(E, x), x # y
    PROVE  \E z \in Nodes : <<x, z>> \in E /\ y \in Graph!Reach(E, z)
<1> DEFINE S == {x} \cup {m \in Nodes : \E z \in Nodes : <<x, z>> \in E /\ m \in Graph!Reach(E, z)}
<1>1. S \in SUBSET Nodes /\ x \in S
  OBVIOUS
<1>2. ASSUME NEW e \in E, e[1] \in S PROVE e[2] \in S
  <2>1. e[1] \in Nodes /\ e[2] \in Nodes /\ e = <<e[1], e[2]>>
    OBVIOUS
  <2>2. CASE e[1] = x
    BY <2>1, <2>2, ReachClosed
  <2>3. CASE e[1] # x
    <3>1. PICK z \in Nodes : <<x, z>> \in E /\ e[1] \in Graph!Reach(E, z)
      BY <1>2, <2>3
    <3>2. e[2] \in Graph!Reach(E, z)
      BY <2>1, <3>1, ReachClosed
    <3> QED BY <2>1, <3>1, <3>2
  <2> QED BY <2>2, <2>3
<1>3. y \in S
  <2> HIDE DEF S
  <2> QED BY <1>1, <1>2 DEF Graph!Reach, Graph!Closed
<1> QED BY <1>3

\* Without loops, two nodes are not above each other.
LEMMA AboveIsOneWay ==
    ASSUME NEW E \in SUBSET (Nodes \X Nodes), Graph!Acyclic(E), NEW x \in Nodes, NEW y \in Nodes,
           x \in Graph!Reach(E, y), y \in Graph!Reach(E, x)
    PROVE  x = y
<1> SUFFICES ASSUME x # y PROVE FALSE
  OBVIOUS
<1> DEFINE T == {z \in Nodes : z \in Graph!Reach(E, x) /\ x \in Graph!Reach(E, z)}
<1>1. x \in T /\ y \in T
  BY ReachClosed
<1>2. PICK n \in T : \A m \in T : <<n, m>> \notin E
  <2> HIDE DEF T
  <2>1. T \subseteq Nodes
    BY DEF T
  <2> QED BY <1>1, <2>1 DEF Graph!Acyclic
<1>3. PICK u \in Nodes : u # n /\ u \in Graph!Reach(E, n) /\ x \in Graph!Reach(E, u)
  <2>1. CASE n = x
    BY <2>1
  <2>2. CASE n # x
    BY <2>2, ReachClosed
  <2> QED BY <2>1, <2>2
<1>4. PICK z \in Nodes : <<n, z>> \in E /\ u \in Graph!Reach(E, z)
  BY <1>3, FirstStep
<1>5. z \in Graph!Reach(E, x)
  BY <1>2, <1>4, ReachClosed
<1>6. x \in Graph!Reach(E, z)
  BY <1>3, <1>4, ReachTransitive
<1> QED BY <1>2, <1>4, <1>5, <1>6

\* In a forest, of two nodes above a third one is above the other.
LEMMA AboveIsAPath ==
    ASSUME NEW E, Forest(E), NEW m \in Nodes, NEW x \in Graph!Reach(E, m), NEW y \in Graph!Reach(E, m)
    PROVE  x \in Graph!Reach(E, y) \/ y \in Graph!Reach(E, x)
<1> DEFINE S == {z \in Nodes : x \in Graph!Reach(E, z) \/ z \in Graph!Reach(E, x)}
<1>0. E \in SUBSET (Nodes \X Nodes) /\ x \in Nodes /\ y \in Nodes
  BY DEF Forest, Graph!Reach
<1>1. S \in SUBSET Nodes /\ m \in S
  OBVIOUS
<1>2. ASSUME NEW e \in E, e[1] \in S PROVE e[2] \in S
  <2>1. e[1] \in Nodes /\ e[2] \in Nodes /\ e = <<e[1], e[2]>>
    BY <1>0
  <2>2. CASE e[1] \in Graph!Reach(E, x)
    BY <2>1, <2>2, <1>0, ReachClosed
  <2>3. CASE e[1] \notin Graph!Reach(E, x)
    <3>1. x \in Graph!Reach(E, e[1]) /\ e[1] # x
      BY <1>2, <2>3, <1>0, ReachClosed
    <3>2. PICK z \in Nodes : <<e[1], z>> \in E /\ x \in Graph!Reach(E, z)
      BY <2>1, <3>1, <1>0, FirstStep
    <3>3. z = e[2]
      BY <2>1, <3>2 DEF Forest
    <3> QED BY <2>1, <3>2, <3>3
  <2> QED BY <2>2, <2>3
<1>3. y \in S
  <2> HIDE DEF S
  <2> QED BY <1>1, <1>2 DEF Graph!Reach, Graph!Closed
<1> QED BY <1>3

\* A walk from m enters what is above a only at a, if it meets a at all.
LEMMA EntersAt ==
    ASSUME NEW E, Forest(E), NEW m \in Nodes, NEW a \in Graph!Reach(E, m), NEW e \in E,
           e[1] \in Graph!Reach(E, m) \ Graph!Reach(E, a), e[2] \in Graph!Reach(E, a)
    PROVE  e[2] = a
<1>1. E \in SUBSET (Nodes \X Nodes) /\ a \in Nodes /\ e[1] \in Nodes /\ e[2] \in Nodes /\ e = <<e[1], e[2]>>
  BY DEF Forest, Graph!Reach
<1>2. a \in Graph!Reach(E, e[1]) /\ a # e[1]
  BY <1>1, AboveIsAPath, ReachClosed
<1>3. PICK z \in Nodes : <<e[1], z>> \in E /\ a \in Graph!Reach(E, z)
  BY <1>1, <1>2, FirstStep
<1>4. z = e[2]
  BY <1>1, <1>3 DEF Forest
<1> QED BY <1>1, <1>3, <1>4, AboveIsOneWay DEF Forest

\* Above m, below a and at a.
LEMMA StartsBelow ==
    ASSUME NEW E, Forest(E), NEW m \in Nodes, NEW a \in Graph!Reach(E, m)
    PROVE  m \in (Graph!Reach(E, m) \ Graph!Reach(E, a)) \cup {a}
<1>1. E \in SUBSET (Nodes \X Nodes) /\ a \in Nodes
  BY DEF Forest, Graph!Reach
<1> QED BY <1>1, AboveIsOneWay, ReachClosed DEF Forest

\* What is above m once a hangs under b: what was below a still is, then a and
\* what is above b.
LEMMA AboveOnceMoved ==
    ASSUME NEW E, Forest(E), NEW m \in Nodes, NEW a \in Graph!Reach(E, m), NEW b \in Nodes,
           NEW F, \A f \in F : f = <<a, b>> \/ (f \in E /\ f[1] # a)
    PROVE  Graph!Reach(F, m) \subseteq (Graph!Reach(E, m) \ Graph!Reach(E, a)) \cup {a} \cup Graph!Reach(E, b)
<1> DEFINE S == (Graph!Reach(E, m) \ Graph!Reach(E, a)) \cup {a} \cup Graph!Reach(E, b)
<1>1. a \in Nodes /\ E \in SUBSET (Nodes \X Nodes)
  BY DEF Forest, Graph!Reach
<1>2. S \in SUBSET Nodes /\ m \in S
  BY <1>1, StartsBelow DEF Graph!Reach
<1>3. ASSUME NEW f \in F, f[1] \in S PROVE f[2] \in S
  <2>1. CASE f = <<a, b>>
    BY <2>1, ReachClosed
  <2>2. CASE f \in E /\ f[1] # a
    <3>1. f[1] \in Nodes /\ f[2] \in Nodes /\ f = <<f[1], f[2]>>
      BY <2>2, <1>1
    <3>2. CASE f[1] \in Graph!Reach(E, b)
      BY <2>2, <3>1, <3>2, ReachClosed
    <3>3. CASE f[1] \in Graph!Reach(E, m) \ Graph!Reach(E, a)
      <4>1. f[2] \in Graph!Reach(E, m)
        BY <2>2, <3>1, <3>3, ReachClosed
      <4>2. f[2] \in Graph!Reach(E, a) => f[2] = a
        BY <2>2, <3>3, EntersAt
      <4> QED BY <4>1, <4>2
    <3> QED BY <1>3, <2>2, <3>2, <3>3
  <2> QED BY <2>1, <2>2
<1>4. \A y \in Graph!Reach(F, m) : y \in S
  <2> HIDE DEF S
  <2> QED BY <1>2, <1>3 DEF Graph!Reach, Graph!Closed
<1> QED BY <1>4

\* The same when arrows only go.
LEMMA AboveOnceCut ==
    ASSUME NEW E, Forest(E), NEW m \in Nodes, NEW a \in Graph!Reach(E, m), NEW F \in SUBSET E
    PROVE  Graph!Reach(F, m) \subseteq (Graph!Reach(E, m) \ Graph!Reach(E, a)) \cup Graph!Reach(F, a)
<1> DEFINE S == (Graph!Reach(E, m) \ Graph!Reach(E, a)) \cup Graph!Reach(F, a)
<1>1. a \in Nodes /\ E \in SUBSET (Nodes \X Nodes)
  BY DEF Forest, Graph!Reach
<1>2. a \in Graph!Reach(F, a)
  BY <1>1, ReachClosed
<1>3. S \in SUBSET Nodes /\ m \in S
  BY <1>2, StartsBelow DEF Graph!Reach
<1>4. ASSUME NEW f \in F, f[1] \in S PROVE f[2] \in S
  <2>1. f[1] \in Nodes /\ f[2] \in Nodes /\ f = <<f[1], f[2]>>
    BY <1>1
  <2>2. CASE f[1] \in Graph!Reach(F, a)
    BY <1>1, <2>1, <2>2, ReachClosed
  <2>3. CASE f[1] \in Graph!Reach(E, m) \ Graph!Reach(E, a)
    <3>1. f[2] \in Graph!Reach(E, m)
      BY <2>1, <2>3, ReachClosed
    <3>2. f[2] \in Graph!Reach(E, a) => f[2] = a
      BY <2>3, EntersAt
    <3> QED BY <3>1, <3>2, <1>2
  <2> QED BY <1>4, <2>2, <2>3
<1>5. \A y \in Graph!Reach(F, m) : y \in S
  <2> HIDE DEF S
  <2> QED BY <1>3, <1>4 DEF Graph!Reach, Graph!Closed
<1> QED BY <1>5

\* A walk that does not meet a does not care where a hangs.
LEMMA AboveElsewhere ==
    ASSUME NEW E \in SUBSET (Nodes \X Nodes), NEW m \in Nodes, NEW a \in Nodes, a \notin Graph!Reach(E, m), NEW b,
           NEW F, \A f \in F : f = <<a, b>> \/ f \in E
    PROVE  Graph!Reach(F, m) \subseteq Graph!Reach(E, m)
<1> DEFINE S == Graph!Reach(E, m)
<1>1. S \in SUBSET Nodes /\ m \in S
  BY ReachClosed DEF Graph!Reach
<1>2. ASSUME NEW f \in F, f[1] \in S PROVE f[2] \in S
  <2>1. f \in E
    BY <1>2
  <2> QED BY <1>2, <2>1, ReachClosed
<1>3. \A y \in Graph!Reach(F, m) : y \in S
  <2> HIDE DEF S
  <2> QED BY <1>1, <1>2 DEF Graph!Reach, Graph!Closed
<1> QED BY <1>3

-----------------------------------------------------------------------------
\* How far a node is from the top.
Levels(E, n) == Cardinality(Graph!Reach(E, n)) - 1

\* How many levels a node has above it is a number.
LEMMA LevelsAreNatural ==
    ASSUME NEW E, NEW n \in Nodes
    PROVE  /\ IsFiniteSet(Graph!Reach(E, n)) /\ Cardinality(Graph!Reach(E, n)) \in Nat
           /\ Levels(E, n) \in Nat
<1>1. n \in Graph!Reach(E, n) /\ Graph!Reach(E, n) \in SUBSET Nodes
  BY DEF Graph!Reach
<1>2. IsFiniteSet(Graph!Reach(E, n))
  BY <1>1, NodesAssumption, FS_Subset
<1>3. Cardinality(Graph!Reach(E, n)) \in Nat /\ Cardinality(Graph!Reach(E, n)) # 0
  BY <1>1, <1>2, FS_CardinalityType, FS_EmptySet
<1> QED BY <1>2, <1>3 DEF Levels

\* Fewer nodes above, fewer levels.
LEMMA LevelsMonotone ==
    ASSUME NEW E, NEW F, NEW n \in Nodes, Graph!Reach(F, n) \subseteq Graph!Reach(E, n)
    PROVE  Levels(F, n) <= Levels(E, n)
<1>1. Cardinality(Graph!Reach(F, n)) <= Cardinality(Graph!Reach(E, n))
  BY LevelsAreNatural, FS_Subset
<1> QED BY <1>1, LevelsAreNatural DEF Levels

\* The part of the walk from m that is below a.
LEMMA LevelsBelow ==
    ASSUME NEW E \in SUBSET (Nodes \X Nodes), NEW m \in Nodes, NEW a \in Graph!Reach(E, m)
    PROVE  /\ a \in Nodes /\ Levels(E, a) <= Levels(E, m)
           /\ IsFiniteSet(Graph!Reach(E, m) \ Graph!Reach(E, a))
           /\ Cardinality(Graph!Reach(E, m) \ Graph!Reach(E, a)) = Levels(E, m) - Levels(E, a)
<1>1. a \in Nodes /\ Graph!Reach(E, a) \subseteq Graph!Reach(E, m)
  BY ReachTransitive DEF Graph!Reach
<1>2. /\ IsFiniteSet(Graph!Reach(E, m)) /\ Cardinality(Graph!Reach(E, m)) \in Nat
      /\ IsFiniteSet(Graph!Reach(E, a)) /\ Cardinality(Graph!Reach(E, a)) \in Nat
  BY <1>1, LevelsAreNatural
<1>3. Graph!Reach(E, m) \cap Graph!Reach(E, a) = Graph!Reach(E, a)
  BY <1>1
<1>4. Cardinality(Graph!Reach(E, a)) <= Cardinality(Graph!Reach(E, m))
  BY <1>1, <1>2, FS_Subset
<1>5. /\ IsFiniteSet(Graph!Reach(E, m) \ Graph!Reach(E, a))
      /\ Cardinality(Graph!Reach(E, m) \ Graph!Reach(E, a)) = Cardinality(Graph!Reach(E, m)) - Cardinality(Graph!Reach(E, a))
  BY <1>2, <1>3, FS_Difference
<1> QED BY <1>1, <1>2, <1>4, <1>5 DEF Levels

\* Two parts together.
LEMMA UnionBound ==
    ASSUME NEW S, NEW T, IsFiniteSet(S), IsFiniteSet(T), NEW U \in SUBSET (S \cup T)
    PROVE  Cardinality(U) <= Cardinality(S) + Cardinality(T)
<1>1. Cardinality(S) \in Nat /\ Cardinality(T) \in Nat
  BY FS_CardinalityType
<1>2. IsFiniteSet(S \cup T) /\ Cardinality(S \cup T) = Cardinality(S) + Cardinality(T) - Cardinality(S \cap T)
  BY FS_Union
<1>3. Cardinality(S \cap T) \in Nat
  BY FS_Intersection, FS_CardinalityType
<1>4. Cardinality(U) <= Cardinality(S \cup T) /\ IsFiniteSet(U) /\ Cardinality(U) \in Nat
  BY <1>2, FS_Subset, FS_CardinalityType
<1> QED BY <1>1, <1>2, <1>3, <1>4

\* A node that is moved takes what is below it along.
LEMMA LevelsOnceMoved ==
    ASSUME NEW E, Forest(E), NEW m \in Nodes, NEW a \in Graph!Reach(E, m), NEW b \in Nodes,
           NEW F, \A f \in F : f = <<a, b>> \/ (f \in E /\ f[1] # a)
    PROVE  Levels(F, m) <= Levels(E, m) - Levels(E, a) + Levels(E, b) + 1
<1> DEFINE S == Graph!Reach(E, m) \ Graph!Reach(E, a)
           B == Graph!Reach(E, b)
<1>1. E \in SUBSET (Nodes \X Nodes)
  BY DEF Forest
<1>2. IsFiniteSet(S) /\ Cardinality(S) = Levels(E, m) - Levels(E, a) /\ a \in Nodes
  BY <1>1, LevelsBelow
<1>3. IsFiniteSet(B) /\ Cardinality(B) = Levels(E, b) + 1
  <2>1. IsFiniteSet(B) /\ Cardinality(B) \in Nat
    BY LevelsAreNatural
  <2> QED BY <2>1 DEF Levels
<1>4. Graph!Reach(F, m) \subseteq S \cup {a} \cup B
  BY AboveOnceMoved
<1> HIDE DEF S, B
<1>5. IsFiniteSet(S \cup {a}) /\ Cardinality(S \cup {a}) <= Cardinality(S) + 1
  <2>1. Cardinality(S) \in Nat
    BY <1>2, FS_CardinalityType
  <2>2. /\ IsFiniteSet(S \cup {a})
        /\ Cardinality(S \cup {a}) = IF a \in S THEN Cardinality(S) ELSE Cardinality(S) + 1
    BY <1>2, FS_AddElement
  <2> QED BY <2>1, <2>2
<1>6. Cardinality(Graph!Reach(F, m)) <= Cardinality(S \cup {a}) + Cardinality(B)
  BY <1>3, <1>4, <1>5, UnionBound
<1>7. /\ Levels(E, m) \in Nat /\ Levels(E, a) \in Nat /\ Levels(E, b) \in Nat
      /\ Cardinality(Graph!Reach(F, m)) \in Nat /\ Cardinality(S \cup {a}) \in Nat
  BY <1>2, <1>5, LevelsAreNatural, FS_CardinalityType
<1> QED BY <1>2, <1>3, <1>5, <1>6, <1>7 DEF Levels

\* What is cut off loses no more than its root does.
LEMMA LevelsOnceCut ==
    ASSUME NEW E, Forest(E), NEW m \in Nodes, NEW a \in Graph!Reach(E, m), NEW F \in SUBSET E
    PROVE  Levels(F, m) - Levels(F, a) <= Levels(E, m) - Levels(E, a)
<1> DEFINE S == Graph!Reach(E, m) \ Graph!Reach(E, a)
           B == Graph!Reach(F, a)
<1>1. E \in SUBSET (Nodes \X Nodes)
  BY DEF Forest
<1>2. IsFiniteSet(S) /\ Cardinality(S) = Levels(E, m) - Levels(E, a) /\ a \in Nodes
  BY <1>1, LevelsBelow
<1>3. IsFiniteSet(B) /\ Cardinality(B) = Levels(F, a) + 1
  <2>1. IsFiniteSet(B) /\ Cardinality(B) \in Nat
    BY <1>2, LevelsAreNatural
  <2> QED BY <2>1 DEF Levels
<1>4. Graph!Reach(F, m) \subseteq S \cup B
  BY AboveOnceCut
<1> HIDE DEF S, B
<1>5. Cardinality(Graph!Reach(F, m)) <= Cardinality(S) + Cardinality(B)
  BY <1>2, <1>3, <1>4, UnionBound
<1>6. /\ Levels(E, m) \in Nat /\ Levels(E, a) \in Nat /\ Levels(F, a) \in Nat
      /\ Cardinality(Graph!Reach(F, m)) \in Nat
  BY <1>2, LevelsAreNatural
<1> QED BY <1>2, <1>3, <1>5, <1>6 DEF Levels

-----------------------------------------------------------------------------
\* No row is too deep, dead or alive, and who was allowed to nest a tree under
\* an initiative has room for all of it.
ShallowInv == kind = "initiative" => \A n \in Nodes : Levels(edges, n) <= MaxDepth

\* A tree nested under a node leaves every ancestor within the depth allowed.
Room(E, a, b) ==
    \A m \in Nodes : a \in Graph!Reach(E, m) => Levels(E, m) - Levels(E, a) + Levels(E, b) + 1 <= MaxDepth

RoomInv ==
    kind = "initiative" =>
        \A t \in Requests : stage[t] = "allowed" => Room(edges, arrow[t][1], arrow[t][2])

\* The inductive invariant of the depth of the initiatives.
DepthInv == IInv /\ ShallowInv /\ RoomInv

\* The arrows of the initiatives are a forest.
LEMMA InitiativesAreAForest ==
    ASSUME IInv, kind # "project" PROVE Forest(edges)
BY DEF IInv, TypeOK, NoLoop, Graph!NoLoop, Forest

\* The depth rule, with its walks that stop, leaves room for the whole tree.
LEMMA FittingLeavesRoom ==
    ASSUME IInv, NEW a \in Nodes, NEW b \in Nodes, Fits(a, b)
    PROVE  Room(edges, a, b)
<1> SUFFICES ASSUME NEW m \in Nodes, a \in Graph!Reach(edges, m)
             PROVE  Levels(edges, m) - Levels(edges, a) + Levels(edges, b) + 1 <= MaxDepth
  BY DEF Room
<1>1. edges \in SUBSET (Nodes \X Nodes) /\ edges \in SUBSET (alive \X alive) /\ alive \subseteq Nodes
  BY DEF IInv, TypeOK
<1>2. Depth(m) = Levels(edges, m) /\ Depth(a) = Levels(edges, a) /\ Depth(b) = Levels(edges, b)
  BY DEF Depth, Above, Levels
<1>3. Depth(m) \in Nat /\ Depth(a) \in Nat /\ Depth(b) \in Nat /\ Depth(a) <= Depth(m) /\ MaxDepth \in Nat
  <2>1. Levels(edges, a) <= Levels(edges, m)
    BY <1>1, LevelsBelow
  <2>2. Levels(edges, m) \in Nat /\ Levels(edges, a) \in Nat /\ Levels(edges, b) \in Nat
    BY LevelsAreNatural
  <2> QED BY <1>2, <2>1, <2>2, MaxDepthAssumption
<1>4. m \in Below(a) \cup {a}
  <2>1. CASE m = a
    BY <2>1
  <2>2. CASE m # a
    <3>1. PICK z \in Nodes : <<m, z>> \in edges
      BY <1>1, <2>2, FirstStep
    <3>2. m \in alive
      BY <1>1, <3>1
    <3> QED BY <3>2 DEF Below, Above
  <2> QED BY <2>1, <2>2
<1>5. ParentDepth(b) + 1 + HeightOver(a, m) <= MaxDepth
  BY <1>4 DEF Fits
<1>6. Depth(b) + 1 + (Depth(m) - Depth(a)) <= MaxDepth
  BY <1>3, <1>5 DEF ParentDepth, HeightOver, AtMost
<1> QED BY <1>2, <1>3, <1>6

\* Arrows that go take no room.
LEMMA RoomStays ==
    ASSUME NEW E, Forest(E), NEW F \in SUBSET E, NEW a \in Nodes, NEW b \in Nodes, Room(E, a, b)
    PROVE  Room(F, a, b)
<1> SUFFICES ASSUME NEW m \in Nodes, a \in Graph!Reach(F, m)
             PROVE  Levels(F, m) - Levels(F, a) + Levels(F, b) + 1 <= MaxDepth
  BY DEF Room
<1>1. a \in Graph!Reach(E, m)
  BY ReachMonotone
<1>2. Levels(F, m) - Levels(F, a) <= Levels(E, m) - Levels(E, a)
  BY <1>1, LevelsOnceCut
<1>3. Levels(F, b) <= Levels(E, b)
  BY ReachMonotone, LevelsMonotone
<1>4. Levels(E, m) - Levels(E, a) + Levels(E, b) + 1 <= MaxDepth
  BY <1>1 DEF Room
<1> QED BY <1>2, <1>3, <1>4, LevelsAreNatural, MaxDepthAssumption

\* Nothing is above anything at first.
LEMMA DepthStart == Init => ShallowInv /\ RoomInv
<1> SUFFICES ASSUME Init, NEW n \in Nodes PROVE Levels(edges, n) <= MaxDepth
  BY DEF Init, ShallowInv, RoomInv
<1>1. Graph!Reach(edges, n) \subseteq {n}
  BY DEF Init, Graph!Reach, Graph!Closed
<1>2. Cardinality(Graph!Reach(edges, n)) <= 1
  <2>1. IsFiniteSet({n}) /\ Cardinality({n}) = 1
    BY FS_Singleton
  <2> QED BY <1>1, <2>1, FS_Subset
<1> QED BY <1>2, LevelsAreNatural, MaxDepthAssumption DEF Levels

\* The write keeps to the depth that was allowed.
LEMMA ShallowStep ==
    ASSUME DepthInv, [Next]_vars PROVE ShallowInv'
<1> SUFFICES ASSUME kind' = "initiative", NEW n \in Nodes PROVE Levels(edges', n) <= MaxDepth
  BY DEF ShallowInv, Levels
<1>0. kind = "initiative" /\ Levels(edges, n) <= MaxDepth /\ Forest(edges) /\ edges \in SUBSET (Nodes \X Nodes)
  <2>1. kind' = kind
    BY DEF Next, Serve, Ask, Lock, AllowSubIssue, AllowInitiative, AllowDependency, Allow, SetParent, AddDependency,
           Rollback, Create, ClearParent, RemoveDependency, DeleteInitiative, DeleteProject, vars
  <2> QED BY <2>1, InitiativesAreAForest DEF DepthInv, ShallowInv, Forest
<1>1. CASE edges' \subseteq edges
  <2>1. Levels(edges', n) <= Levels(edges, n)
    BY <1>1, ReachMonotone, LevelsMonotone
  <2> QED BY <2>1, <1>0, LevelsAreNatural, MaxDepthAssumption
<1>2. ASSUME NEW t \in Requests, SetParent(t) PROVE Levels(edges', n) <= MaxDepth
  <2>1. PICK a, b \in Nodes : arrow[t] = <<a, b>>
    BY <1>2 DEF SetParent, DepthInv, IInv, LockInv
  <2>2. \A f \in edges' : f = <<a, b>> \/ (f \in edges /\ f[1] # a)
    BY <1>2, <2>1 DEF SetParent
  <2>3. Room(edges, a, b)
    BY <1>0, <1>2, <2>1 DEF SetParent, DepthInv, RoomInv
  <2>4. CASE a \in Graph!Reach(edges, n)
    <3>1. Levels(edges', n) <= Levels(edges, n) - Levels(edges, a) + Levels(edges, b) + 1
      BY <1>0, <2>2, <2>4, LevelsOnceMoved
    <3>2. Levels(edges, n) - Levels(edges, a) + Levels(edges, b) + 1 <= MaxDepth
      BY <2>3, <2>4 DEF Room
    <3> QED BY <3>1, <3>2, LevelsAreNatural, MaxDepthAssumption
  <2>5. CASE a \notin Graph!Reach(edges, n)
    <3>1. Graph!Reach(edges', n) \subseteq Graph!Reach(edges, n)
      BY <1>0, <2>2, <2>5, AboveElsewhere
    <3>2. Levels(edges', n) <= Levels(edges, n)
      BY <3>1, LevelsMonotone
    <3> QED BY <3>2, <1>0, LevelsAreNatural, MaxDepthAssumption
  <2> QED BY <2>4, <2>5
<1>3. edges' \subseteq edges \/ \E t \in Requests : SetParent(t)
  BY <1>0 DEF Next, Serve, Ask, Lock, AllowSubIssue, AllowInitiative, AllowDependency, Allow, AddDependency,
     Rollback, Create, ClearParent, RemoveDependency, DeleteInitiative, DeleteProject, vars
<1> QED BY <1>1, <1>2, <1>3

\* Nobody writes between the walk and the write, but to take arrows away.
LEMMA RoomStep ==
    ASSUME DepthInv, IInv', [Next]_vars PROVE RoomInv'
<1> SUFFICES ASSUME kind' = "initiative", NEW t \in Requests, stage'[t] = "allowed"
             PROVE  Room(edges', arrow'[t][1], arrow'[t][2])
  BY DEF RoomInv, Room, Levels
<1>0. kind = "initiative" /\ Forest(edges) /\ stage \in [Requests -> Stages] /\ arrow \in [Requests -> (Nodes \X Nodes) \cup {NoArrow}]
  <2>1. kind' = kind
    BY DEF Next, Serve, Ask, Lock, AllowSubIssue, AllowInitiative, AllowDependency, Allow, SetParent, AddDependency,
           Rollback, Create, ClearParent, RemoveDependency, DeleteInitiative, DeleteProject, vars
  <2> QED BY <2>1, InitiativesAreAForest DEF DepthInv, IInv, TypeOK
<1>1. PICK a, b \in Nodes : arrow'[t] = <<a, b>>
  BY DEF IInv, LockInv
<1>2. CASE AllowInitiative(t)
  <2>1. arrow[t] = <<a, b>> /\ edges' = edges /\ Fits(a, b)
    BY <1>1, <1>2 DEF AllowInitiative, Allow
  <2> QED BY <1>1, <2>1, FittingLeavesRoom DEF DepthInv
<1>3. ASSUME edges' \subseteq edges, stage[t] = "allowed", arrow'[t] = arrow[t]
      PROVE  Room(edges', arrow'[t][1], arrow'[t][2])
  BY <1>0, <1>1, <1>3, RoomStays DEF DepthInv, RoomInv
<1>4. ASSUME NEW r \in Requests,
             \/ \E c, d \in Nodes : Ask(r, c, d)
             \/ Lock(r) \/ Rollback(r)
      PROVE  stage[t] = "allowed" /\ arrow'[t] = arrow[t] /\ edges' \subseteq edges
  BY <1>0, <1>4 DEF Ask, Lock, Rollback, End, Stages
<1>5. ASSUME NEW r \in Requests, AllowSubIssue(r) \/ AllowInitiative(r) \/ AllowDependency(r)
      PROVE  \/ r = t /\ AllowInitiative(t)
             \/ stage[t] = "allowed" /\ arrow'[t] = arrow[t] /\ edges' \subseteq edges
  BY <1>0, <1>5 DEF AllowSubIssue, AllowInitiative, AllowDependency, Allow
<1>6. ASSUME NEW r \in Requests, SetParent(r) \/ AddDependency(r) PROVE FALSE
  <2>1. stage[r] = "allowed" /\ stage'[r] = "idle"
    BY <1>0, <1>6 DEF SetParent, AddDependency, End
  <2>2. r # t /\ stage[t] = "allowed"
    BY <1>0, <1>6, <2>1 DEF SetParent, AddDependency, End
  <2> QED BY <2>1, <2>2 DEF DepthInv, IInv, AllowedStaysAllowed
<1>7. ASSUME NEW n \in Nodes, Create(n) \/ ClearParent(n) \/ DeleteInitiative(n) \/ DeleteProject(n)
      PROVE  edges' \subseteq edges /\ UNCHANGED <<stage, arrow>>
  BY <1>7 DEF Create, ClearParent, DeleteInitiative, DeleteProject
<1>8. ASSUME NEW e \in edges, RemoveDependency(e) PROVE edges' \subseteq edges /\ UNCHANGED <<stage, arrow>>
  BY <1>8 DEF RemoveDependency
<1>9. ASSUME UNCHANGED vars PROVE edges' \subseteq edges /\ UNCHANGED <<stage, arrow>>
  BY <1>9 DEF vars
<1> QED BY <1>2, <1>3, <1>4, <1>5, <1>6, <1>7, <1>8, <1>9 DEF Next, Serve

\* No initiative ever sits more than MAX_INITIATIVE_DEPTH below the top, though
\* the walks of the rule stop there and rows are promoted under no lock.
THEOREM ShallowTheorem == Spec => []InitiativesStayShallow
<1>1. Init => ShallowInv /\ RoomInv
  BY DepthStart
<1>2. IInv /\ IInv' /\ ShallowInv /\ RoomInv /\ [Next]_vars => ShallowInv' /\ RoomInv'
  BY ShallowStep, RoomStep DEF DepthInv
<1>3. IInv /\ ShallowInv => InitiativesStayShallow
  BY DEF IInv, TypeOK, ShallowInv, InitiativesStayShallow, Depth, Above, Levels
<1> QED BY <1>1, <1>2, <1>3, InductiveInvariant, PTL DEF Spec
=============================================================================
