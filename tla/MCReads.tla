------------------------------ MODULE MCReads ------------------------------
(* Membership's instance; three issues by two values or none; three rows of *)
(* each other list; two issues over two days, or of one project or cycle;   *)
(* a document of two fields, for two ids and two workspaces; and documents  *)
(* of two operations and up to two fragments.                               *)
EXTENDS Reads, Sequences, TLC

CONSTANTS ada, bob, cyd, t1, t2

MCUsers == {ada, bob, cyd}
MCRequests == {t1, t2}

\* Accounts and transactions are told apart by equality alone.
MCSymmetry == Permutations(MCUsers) \cup Permutations(MCRequests)

ThreeIssues == 1..3
TwoIssues == 1..2
DueDates == 1 :> 1 @@ 2 :> 2
OneCycle == "cycle" :> <<1, 1>>
Homes == [i \in TwoIssues |-> "w"]

Leaf == [field |-> "leaf", alias |-> FALSE]
Named == [field |-> "leaf", alias |-> TRUE]
Spread(f) == [spread |-> f]
Object(inside) == [field |-> "object", alias |-> FALSE, inside |-> inside]
Paged(size, first, inside) ==
  [field |-> "page", alias |-> size = "declared", size |-> size, first |-> first, inside |-> inside]
Described == [field |-> "schema", alias |-> TRUE, inside |-> <<Leaf>>]
NineBodies == {
  <<Leaf>>, <<Leaf, Named>>, <<Spread("g"), Spread("g")>>, <<Described, Spread("f")>>,
  <<Object(<<Spread("f"), Leaf>>)>>, <<Paged("stated", 2, <<Spread("g")>>)>>,
  <<Paged("stated", 0, <<Leaf>>), Spread("g")>>, <<Paged("unknown", 0, <<Spread("g"), Leaf>>)>>,
  <<Paged("declared", 0, <<Leaf, Spread("g")>>), Spread("g")>>}
Asks == {<<Spread("f")>>, <<Spread("g"), Spread("f")>>, <<Paged("declared", 0, <<Spread("f")>>), Spread("nowhere")>>}
PairsOfAsks == Asks \X Asks
\* Whatever is measured: what is selected, in whole or from one of its fields on.
Selected == NineBodies \cup Asks
Nested == {t[1].inside : t \in {u \in Selected : "inside" \in DOMAIN u[1]}}
EveryText == UNION {{SubSeq(t, k, Len(t)) : k \in 1..Len(t) + 1} : t \in Selected \cup Nested}
=============================================================================
