--------------------------- MODULE GraphqlRequests ---------------------------
(***************************************************************************)
(* One GraphQL document: fields resolved side by side, the viewer they      *)
(* share, the scope each asks for, and a DataLoader that puts what they     *)
(* load into batches of one statement per workspace.  Other requests write  *)
(* and log the viewer out meanwhile.                                        *)
(***************************************************************************)
EXTENDS Naturals, FiniteSets

CONSTANTS
  Fields,     \* fields of the document that load a row each
  Slugs,      \* workspaces
  Joined,     \* those the user is a member of
  Keyed,      \* ids, numbered in their order; they stand for what hangs off them too
  Home,       \* the workspace of each id's row
  Most,       \* MILESTONE_LIST_LIMIT, UPDATE_LIST_LIMIT
  MaxWrites,
  None

VARIABLES
  loader,    \* what is loaded
  hang,      \* the row: the children, labels or dependencies of each id; {} if there is none
  alive,     \* the session is
  viewer,    \* the memoised future: "none", "asked", or what the session was
  field,     \* where each field is
  cache,     \* the loader's, of keys that were asked for
  flights,   \* batches under way
  truth,     \* history: what a statement of its own would have answered, since the key was asked
  writes

requestVars == <<loader, hang, alive, viewer, field, cache, flights, truth, writes>>

LegalRequestConstants ==
  /\ IsFiniteSet(Fields) /\ Joined \subseteq Slugs /\ Keyed \subseteq Nat /\ IsFiniteSet(Keyed)
  /\ Most \in Nat \ {0} /\ MaxWrites \in Nat
  /\ Home \in [Keyed -> Slugs] /\ \A S \in SUBSET Keyed : S # None

Rows == {"issue", "cycle", "project", "document", "revision"}
Loaders == Rows \union {"labels", "milestones", "updates", "initiative_updates", "dependencies"}
\* (workspace_id, id), never an id alone.
LoaderKeys == Joined \X Keyed
NoDependencies == [blocks |-> {}, blocked_by |-> {}]
Values == IF loader = "dependencies" THEN [blocks : SUBSET Keyed, blocked_by : SUBSET Keyed]
          ELSE {None} \union SUBSET Keyed
Entries == [is : {"queued", "flying", "failed"}] \union [is : {"answered"}, value : Values]

RequestTypeOK ==
  /\ loader \in Loaders /\ hang \in [Keyed -> SUBSET Keyed]
  /\ alive \in BOOLEAN /\ viewer \in {"none", "asked", "known", "nobody"}
  /\ \A f \in Fields : field[f].at \in {"new", "viewer", "scope", "in", "loading", "anonymous", "foreign"}
  /\ DOMAIN cache \subseteq LoaderKeys /\ \A k \in DOMAIN cache : cache[k] \in Entries
  /\ \A b \in flights : b.keys \subseteq DOMAIN cache /\ b.left \subseteq Joined
  /\ DOMAIN truth = DOMAIN cache /\ writes \in 0..MaxWrites

\* Dependencies have no loops, and stay in one workspace.
Straight(h) ==
  loader = "dependencies" => \A i, j \in Keyed : j \in h[i] => i \notin h[j] /\ Home[i] = Home[j]

RequestInit ==
  /\ loader \in Loaders /\ hang \in [Keyed -> {{}, Keyed} \union IF loader = "dependencies" THEN SUBSET Keyed ELSE {}]
  /\ Straight(hang)
  /\ alive = TRUE /\ viewer = "none"
  /\ field = [f \in Fields |-> [at |-> "new"]]
  /\ cache = [k \in {} |-> None] /\ flights = {} /\ truth = [k \in {} |-> {}] /\ writes = 0

Set(f, v) == field' = [field EXCEPT ![f] = v]
With(F, k, v) == [x \in DOMAIN F \union {k} |-> IF x = k THEN v ELSE F[x]]

-----------------------------------------------------------------------------
(* Who asks, and where.                                                     *)

\* Mutant: every field looks the session up.
ViewerAgain(f) == viewer' = "asked"
\* context.viewer: resolved at most once.
Viewer(f) == viewer' = IF viewer = "none" THEN "asked" ELSE viewer
viewer_user_id(f) ==
  /\ field[f].at = "new" /\ Set(f, [at |-> "viewer"]) /\ Viewer(f)
  /\ UNCHANGED <<loader, hang, alive, cache, flights, truth, writes>>
\* touch_valid and get_by_id.
authenticate ==
  /\ viewer = "asked" /\ viewer' = IF alive THEN "known" ELSE "nobody"
  /\ UNCHANGED <<loader, hang, alive, field, cache, flights, truth, writes>>
Identified(f) ==
  /\ field[f].at = "viewer" /\ viewer \in {"known", "nobody"}
  /\ Set(f, [field[f] EXCEPT !.at = IF viewer = "known" THEN "scope" ELSE "anonymous"])
  /\ UNCHANGED <<loader, hang, alive, viewer, cache, flights, truth, writes>>
authorized_scope(f, w) ==
  /\ field[f].at = "scope"
  /\ Set(f, IF w \in Joined THEN [at |-> "in", ws |-> w] ELSE [at |-> "foreign"])
  /\ UNCHANGED <<loader, hang, alive, viewer, cache, flights, truth, writes>>

-----------------------------------------------------------------------------
(* The statements, for the ids of one workspace.                            *)

Least(S) == {c \in S : Cardinality({d \in S : d < c}) < Most}
Own(w, S) == {i \in S : Home[i] = w}
\* Those that are there, not archived, and have something.
Found(w, S) == [i \in {i \in Own(w, S) : hang[i] # {}} |-> hang[i]]
\* Mutant: the limit is of the whole result.
LimitOfAll(w, S) ==
  LET rows == {r \in Own(w, S) \X Keyed : r[2] \in hang[r[1]]}
      Earlier(r) == {q \in rows : q[1] < r[1] \/ (q[1] = r[1] /\ q[2] < r[2])}
  IN [i \in Own(w, S) |-> {c \in hang[i] : Cardinality(Earlier(<<i, c>>)) < Most}]
\* row_number() OVER (PARTITION BY ...) <= limit.
Ranked(w, S) == [i \in Own(w, S) |-> Least(hang[i])]

issues(w, S) == Found(w, S)
cycles(w, S) == Found(w, S)
projects(w, S) == Found(w, S)
contents_for_documents(w, S) == Found(w, S)
contents_for_revisions(w, S) == Found(w, S)
list_for_issues(w, S) == Found(w, S)
list_milestones_for_projects(w, S) == Ranked(w, S)
list_updates_for_projects(w, S) == Ranked(w, S)
list_updates_for_initiatives(w, S) == Ranked(w, S)
\* Every id that is asked for has a row, of what the workspace has at either end of it.
list_dependencies_for_projects(w, S) ==
  [i \in S |-> [blocks |-> IF Home[i] = w THEN {j \in hang[i] : Home[j] = w} ELSE {},
                blocked_by |-> {j \in Keyed : Home[j] = w /\ Home[i] = w /\ i \in hang[j]}]]

Statement(w, S) ==
  CASE loader = "issue" -> issues(w, S) [] loader = "cycle" -> cycles(w, S) [] loader = "project" -> projects(w, S)
    [] loader = "document" -> contents_for_documents(w, S) [] loader = "revision" -> contents_for_revisions(w, S)
    [] loader = "labels" -> list_for_issues(w, S) [] loader = "milestones" -> list_milestones_for_projects(w, S)
    [] loader = "updates" -> list_updates_for_projects(w, S)
    [] loader = "initiative_updates" -> list_updates_for_initiatives(w, S)
    [] loader = "dependencies" -> list_dependencies_for_projects(w, S)

\* What each loader makes of a key that its statements did not return.
OrElse(found, k, missing) == IF k \in DOMAIN found THEN found[k] ELSE missing
issue_loader(found, k) == OrElse(found, k, None)
cycle_loader(found, k) == OrElse(found, k, None)
project_loader(found, k) == OrElse(found, k, None)
content_loader(found, k) == OrElse(found, k, None)
issue_label_loader(found, k) == OrElse(found, k, {})
project_milestones_loader(found, k) == OrElse(found, k, {})
project_updates_loader(found, k) == OrElse(found, k, {})
initiative_updates_loader(found, k) == OrElse(found, k, {})
project_dependencies_loader(found, k) == OrElse(found, k, NoDependencies)

Result(found, k) ==
  CASE loader = "issue" -> issue_loader(found, k) [] loader = "cycle" -> cycle_loader(found, k)
    [] loader = "project" -> project_loader(found, k) [] loader \in {"document", "revision"} -> content_loader(found, k)
    [] loader = "labels" -> issue_label_loader(found, k) [] loader = "milestones" -> project_milestones_loader(found, k)
    [] loader = "updates" -> project_updates_loader(found, k)
    [] loader = "initiative_updates" -> initiative_updates_loader(found, k)
    [] loader = "dependencies" -> project_dependencies_loader(found, k)

\* What the field would have been answered alone.
Alone(k) ==
  LET of == IF Home[k[2]] = k[1] THEN hang[k[2]] ELSE {}
      first == CHOOSE T \in SUBSET of : /\ \A c \in T, d \in of \ T : c < d
                                        /\ Cardinality(T) = IF Cardinality(of) < Most THEN Cardinality(of) ELSE Most
  IN IF loader \in Rows THEN (IF of = {} THEN None ELSE of)
     ELSE IF loader = "labels" THEN of
     ELSE IF loader # "dependencies" THEN first
     ELSE [blocks |-> of, blocked_by |-> {j \in Keyed : Home[j] = k[1] /\ Home[k[2]] = k[1] /\ k[2] \in hang[j]}]

-----------------------------------------------------------------------------
(* The loader.                                                              *)

\* A key asked for before shares what it was answered, or will be.
Load(f, i) ==
  /\ field[f].at = "in"
  /\ LET k == <<field[f].ws, i>>
     IN /\ Set(f, [at |-> "loading", ws |-> field[f].ws, key |-> k])
        /\ IF k \in DOMAIN cache THEN UNCHANGED <<cache, truth>>
           ELSE cache' = With(cache, k, [is |-> "queued"]) /\ truth' = With(truth, k, {Alone(k)})
  /\ UNCHANGED <<loader, hang, alive, viewer, flights, writes>>

Mark(S, e) == cache' = [k \in DOMAIN cache |-> IF k \in S THEN e ELSE cache[k]]
\* At the end of a tick the keys queued are handed to load, which groups them by workspace.
Dispatch ==
  /\ LET S == {k \in DOMAIN cache : cache[k].is = "queued"}
     IN /\ S # {} /\ Mark(S, [is |-> "flying"])
        /\ flights' = flights \union {[keys |-> S, left |-> {k[1] : k \in S}, found |-> [k \in {} |-> None]]}
  /\ UNCHANGED <<loader, hang, alive, viewer, field, truth, writes>>
Fetch(b, w) ==
  /\ b \in flights /\ w \in b.left
  /\ LET rows == Statement(w, {k[2] : k \in {k \in b.keys : k[1] = w}})
         New == {<<w, i>> : i \in DOMAIN rows}
     IN flights' = (flights \ {b}) \union
          {[b EXCEPT !.left = @ \ {w},
                     !.found = [k \in DOMAIN @ \union New |-> IF k \in New THEN rows[k[2]] ELSE @[k]]]}
  /\ UNCHANGED <<loader, hang, alive, viewer, field, cache, truth, writes>>
\* One result per key, in the order of the keys.
Resolve(b) ==
  /\ b \in flights /\ b.left = {} /\ flights' = flights \ {b}
  /\ cache' = [k \in DOMAIN cache |-> IF k \notin b.keys THEN cache[k]
                 ELSE [is |-> "answered", value |-> Result(b.found, k)]]
  /\ UNCHANGED <<loader, hang, alive, viewer, field, truth, writes>>
\* A statement raises: so does every field of the batch, and the cache keeps it.
Raise(b) ==
  /\ b \in flights /\ b.left # {} /\ flights' = flights \ {b} /\ Mark(b.keys, [is |-> "failed"])
  /\ UNCHANGED <<loader, hang, alive, viewer, field, truth, writes>>

-----------------------------------------------------------------------------
(* Other requests, as long as this one has something left to read.          *)

Change(i, j) ==
  /\ \E k \in DOMAIN cache : cache[k].is \in {"queued", "flying"}
  /\ writes < MaxWrites /\ writes' = writes + 1
  /\ hang' = [hang EXCEPT ![i] = IF j \in @ THEN @ \ {j} ELSE @ \union {j}] /\ Straight(hang')
  /\ UNCHANGED <<loader, alive, viewer, field, cache, flights>>
  /\ truth' = [k \in DOMAIN truth |-> truth[k] \union {Alone(k)'}]
Logout ==
  /\ alive /\ viewer \in {"none", "asked"} /\ alive' = FALSE
  /\ UNCHANGED <<loader, hang, viewer, field, cache, flights, truth, writes>>

RequestNext ==
  \/ \E f \in Fields :
       \/ viewer_user_id(f) \/ Identified(f)
       \/ \E w \in Slugs : authorized_scope(f, w)
       \/ \E i \in Keyed : Load(f, i)
  \/ authenticate \/ Dispatch \/ Logout
  \/ \E b \in flights : Resolve(b) \/ Raise(b) \/ \E w \in Slugs : Fetch(b, w)
  \/ \E i, j \in Keyed : Change(i, j)

RequestSpec == RequestInit /\ [][RequestNext]_requestVars

-----------------------------------------------------------------------------
(* What a batch answers to a key, a statement of its own would have answered*)
(* at some moment since the key was asked for: nobody else's row, nor fewer *)
(* of a row's children because of who else is in the batch.                 *)
BatchesAnswerAsAlone ==
  \A k \in DOMAIN cache : cache[k].is = "answered" => cache[k].value \in truth[k]

(* Two projects loaded together agree on which of them blocks the other.    *)
EndsAgree ==
  loader = "dependencies" => \A b \in flights : \A k, l \in DOMAIN b.found :
    k[1] = l[1] => (l[2] \in b.found[k].blocks <=> k[2] \in b.found[l].blocked_by)

(* The fields of a document are resolved for one viewer, or for nobody.     *)
OneViewer ==
  \A f, g \in Fields : ~(field[f].at = "anonymous" /\ field[g].at \in {"scope", "in", "loading", "foreign"})
=============================================================================
