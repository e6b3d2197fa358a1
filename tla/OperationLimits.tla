--------------------------- MODULE OperationLimits ---------------------------
(***************************************************************************)
(* OperationLimitsRule: before a GraphQL document is executed, each of its  *)
(* operations is measured with its fragments expanded, every fragment once  *)
(* for the whole document, and refused for each budget it is over.          *)
(***************************************************************************)
EXTENDS Naturals, Sequences, FiniteSets, FiniteSetsExt, Functions

CONSTANTS
  Texts,            \* what may stand between two braces
  Fragments,        \* names a document may define
  Bodies,           \* what a fragment may select
  Operations,       \* what the operations of a document may select, in order
  DeclaredSize,     \* the default of a page-size argument
  ASSUMED_PAGE_SIZE,
  MAX_DEPTH, MAX_ALIASES, MAX_SELECTIONS, MAX_COMPLEXITY,
  None

VARIABLES
  fragment,   \* the definitions of the document: a function on the names it defines
  operation,
  measured,   \* _Walk.measured: what each fragment measured so far costs
  price,      \* what each operation was found to cost
  broken      \* the budgets that were reported

limitVars == <<fragment, operation, measured, price, broken>>

(* A selection is a spread, or a field: a leaf, an object, a page whose size *)
(* is stated, declared by the schema or unknown (a variable, a null), or one *)
(* that describes the schema.                                                *)
IsSpread(s) == "spread" \in DOMAIN s
Composite(s) == ~IsSpread(s) /\ s.field \in {"object", "page"}
Aliased(s) == ~IsSpread(s) /\ s.alias

Cost == [depth : Nat, selections : Nat, complexity : Nat, aliases : Nat]

LegalLimitConstants ==
  /\ Bodies \subseteq Texts /\ \A o \in Operations : \A k \in DOMAIN o : o[k] \in Texts
  /\ \A t \in Texts \ {<<>>} : Tail(t) \in Texts /\ (Composite(Head(t)) => Head(t).inside \in Texts)
  /\ DeclaredSize \in 1..ASSUMED_PAGE_SIZE /\ ASSUMED_PAGE_SIZE \in Nat
  /\ {MAX_DEPTH, MAX_ALIASES, MAX_SELECTIONS, MAX_COMPLEXITY} \subseteq Nat /\ None \notin Cost

Memos == [Fragments -> Cost \union {None}]
Budgets == {"depth", "aliases", "selections", "complexity"}

LimitTypeOK ==
  /\ DOMAIN fragment \subseteq Fragments /\ \A f \in DOMAIN fragment : fragment[f] \in Bodies
  /\ operation \in Operations
  /\ measured \in Memos /\ \A f \in Fragments \ DOMAIN fragment : measured[f] = None
  /\ price \in Seq(Cost) /\ Len(price) <= Len(operation)
  /\ broken \subseteq Budgets

LimitInit ==
  /\ \E defined \in SUBSET Fragments : fragment \in [defined -> Bodies]
  /\ operation \in Operations
  /\ measured = [f \in Fragments |-> None] /\ price = <<>> /\ broken = {}

-----------------------------------------------------------------------------
_NOTHING == [depth |-> 0, selections |-> 0, complexity |-> 0, aliases |-> 0]

_as_page_size(n) == IF n = 0 THEN 1 ELSE n

_page_size(s) ==
  CASE s.field = "object" -> 1
    [] s.field = "page" /\ s.size = "stated"   -> _as_page_size(s.first)
    [] s.field = "page" /\ s.size = "declared" -> DeclaredSize
    [] OTHER -> ASSUMED_PAGE_SIZE

\* Depth by maximum, the rest by sum.
Combine(c, d) ==
  [depth |-> IF c.depth > d.depth THEN c.depth ELSE d.depth, selections |-> c.selections + d.selections,
   complexity |-> c.complexity + d.complexity, aliases |-> c.aliases + d.aliases]

\* Mutant: a page's rows are added to what each of them holds.
ChargeRowsApart(s, inner) ==
  IF IsSpread(s) THEN inner
  ELSE [depth |-> IF Composite(s) THEN 1 + inner.depth ELSE 0,
        selections |-> 1 + inner.selections,
        complexity |-> CASE s.field = "schema" -> 0
                         [] s.field = "leaf" -> 1
                         [] OTHER -> _page_size(s) + inner.complexity,
        aliases |-> inner.aliases + IF s.alias THEN 1 ELSE 0]
\* What a selection costs, given what is inside it.
Charge(s, inner) ==
  IF IsSpread(s) THEN inner
  ELSE [depth |-> IF Composite(s) THEN 1 + inner.depth ELSE 0,
        selections |-> 1 + inner.selections,
        complexity |-> CASE s.field = "schema" -> 0
                         [] s.field = "leaf" -> 1
                         [] OTHER -> _page_size(s) * inner.complexity,
        aliases |-> inner.aliases + IF s.alias THEN 1 ELSE 0]

\* Where a walk is: what is left, what is measured, and the fragments it is in.
_Walk == [of : Texts, memo : Memos, expanding : SUBSET Fragments]

\* Both return the cost with the fragments measured by then.
_measure[a \in _Walk] ==
  LET NoCost == [cost |-> _NOTHING, memo |-> a.memo]
      _spread(f) ==
        IF f \in a.expanding \/ f \notin DOMAIN fragment THEN NoCost
        ELSE IF a.memo[f] # None THEN [cost |-> a.memo[f], memo |-> a.memo]
        ELSE LET m == _measure[[of |-> fragment[f], memo |-> a.memo, expanding |-> a.expanding \union {f}]]
             IN [cost |-> m.cost, memo |-> [m.memo EXCEPT ![f] = m.cost]]
  IN IF a.of = <<>> THEN NoCost
     ELSE LET s == Head(a.of)
              inner == CASE IsSpread(s) -> _spread(s.spread)
                         [] Composite(s) -> _measure[[a EXCEPT !.of = s.inside]]
                         [] OTHER -> NoCost
              rest == _measure[[a EXCEPT !.of = Tail(@), !.memo = inner.memo]]
          IN [cost |-> Combine(Charge(s, inner.cost), rest.cost), memo |-> rest.memo]

_report(cost) ==
  {b \in Budgets : CASE b = "depth" -> cost.depth > MAX_DEPTH
                     [] b = "aliases" -> cost.aliases > MAX_ALIASES
                     [] b = "selections" -> cost.selections > MAX_SELECTIONS
                     [] OTHER -> cost.complexity > MAX_COMPLEXITY}

\* The next operation of the document.
Measure ==
  /\ Len(price) < Len(operation)
  /\ LET m == _measure[[of |-> operation[Len(price) + 1], memo |-> measured, expanding |-> {}]]
     IN /\ measured' = m.memo /\ price' = Append(price, m.cost)
        /\ broken' = broken \union _report(m.cost)
  /\ UNCHANGED <<fragment, operation>>

LimitSpec == LimitInit /\ [][Measure]_limitVars

-----------------------------------------------------------------------------
(* The document written out: every way from an operation down to one of its *)
(* selections, a fragment followed again at each of its spreads.            *)
Within(s) ==
  CASE IsSpread(s) /\ s.spread \in DOMAIN fragment -> fragment[s.spread]
    [] Composite(s) -> s.inside
    [] OTHER -> <<>>

Ways[t \in Texts] ==
  UNION {{<<<<i, t[i]>>>>} \union {<<<<i, t[i]>>>> \o w : w \in Ways[Within(t[i])]} : i \in DOMAIN t}

Last(way) == way[Len(way)][2]
To(ways, P(_)) == {w \in ways : P(Last(w))}
Levels(way) == Cardinality({k \in DOMAIN way : Composite(way[k][2])})

\* The values one way brings, when each composite field brings so many rows.
Rows(way, size(_)) ==
  FoldFunction(LAMBDA m, n : m * n, 1, [k \in DOMAIN way |-> IF Composite(way[k][2]) THEN size(way[k][2]) ELSE 1])
Leaves(ways) == To(ways, LAMBDA s : ~IsSpread(s) /\ s.field = "leaf")
Values(ways, size(_)) == MapThenSumSet(LAMBDA w : Rows(w, size), Leaves(ways))

\* What the server brings: a variable holds what no service refuses, or null.
Brought(s, variable) ==
  CASE s.field = "object" -> 1
    [] s.field = "page" /\ s.size = "stated"   -> s.first
    [] s.field = "page" /\ s.size = "declared" -> DeclaredSize
    [] OTHER -> variable

\* A fragment that spreads itself is another rule's to refuse.
Spreads(selections) == {selections[i].spread : i \in {i \in DOMAIN selections : IsSpread(selections[i])}}
  \union UNION {{s.spread : s \in {selections[i].inside[j] : j \in {j \in DOMAIN selections[i].inside :
                   IsSpread(selections[i].inside[j])}}} : i \in {i \in DOMAIN selections : Composite(selections[i])}}
Executable ==
  \E rank \in [DOMAIN fragment -> 1..Cardinality(Fragments)] :
    \A f \in DOMAIN fragment : \A g \in Spreads(fragment[f]) \intersect DOMAIN fragment : rank[g] < rank[f]

(* Of a document that can execute, each operation is charged for what it    *)
(* asks for, written out, whatever was measured before it.                  *)
FragmentsBuyNothing ==
  Executable => \A k \in DOMAIN price :
    LET ways == Ways[operation[k]] IN
    price[k] = [depth |-> Max({0} \union {Levels(w) : w \in ways}),
                selections |-> Cardinality(To(ways, LAMBDA s : ~IsSpread(s))),
                complexity |-> Values(ways, LAMBDA s : _page_size(s)),
                aliases |-> Cardinality(To(ways, LAMBDA s : Aliased(s)))]

(* What was let through brings no more values than the budget, whatever the *)
(* variables of the request hold.                                           *)
AdmittedIsAffordable ==
  Executable /\ "complexity" \notin broken =>
    \A k \in DOMAIN price, variable \in 0..ASSUMED_PAGE_SIZE :
      Values(Ways[operation[k]], LAMBDA s : Brought(s, variable)) <= MAX_COMPLEXITY
=============================================================================
