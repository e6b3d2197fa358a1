----------------------------- MODULE SavedViews -----------------------------
(***************************************************************************)
(* Saved views, personal or shared, and the favourites that point at them,  *)
(* while members leave.  A view is deleted in two statements, favourites    *)
(* first; a departure asks what the member still holds, and then deletes    *)
(* what is theirs alone, one statement after the other; and foreign keys    *)
(* refuse to lose the view of a favourite, but accept a row of somebody who *)
(* left.  A request is served for a member who was here when it came in.    *)
(***************************************************************************)
EXTENDS Naturals

CONSTANTS
  People,
  Boards,    \* the saved views
  Filters,   \* what views are saved with: Unset, None or a value for each field
  Unset,     \* the field is not filtered on; None filters on its absence
  None

VARIABLES
  here,      \* workspace_members.removed_at IS NULL
  admitted,  \* whose request is being served
  view,      \* saved_views
  star,      \* favorites that point at a view, each with whose it is
  deleting,  \* the view that is being deleted, with the favourites deleted first
  leaving,   \* the departure under way, with what it deletes
  since,     \* history: who wrote after which statement of their departure
  hidden     \* history: the views made personal after they were shared

viewVars == <<here, admitted, view, star, deleting, leaving, since, hidden>>

Fields == {"assignee", "priority"}
Nullable == {"assignee"}

encode_filter(f) == [k \in {k \in Fields : f[k] # Unset} |-> f[k]]
decode_filter(p) == [k \in Fields |-> IF k \in DOMAIN p THEN p[k] ELSE Unset]
Readable(p) == DOMAIN p \subseteq Fields /\ \A k \in DOMAIN p \ Nullable : p[k] # None

ViewRow == [owner : People, shared : BOOLEAN, saved : Filters, stored : {encode_filter(f) : f \in Filters}]
LegalViewConstants ==
  /\ None \notin People /\ None \notin ViewRow /\ Unset # None
  /\ \A f \in Filters : f = [k \in Fields |-> f[k]] /\ \A k \in Fields \ Nullable : f[k] # None

Stars == People \X Boards
Statements == {"asked", "unstarred", "unviewed"}
ViewTypeOK ==
  /\ here \subseteq People /\ admitted \subseteq People /\ star \subseteq Stars
  /\ view \in [Boards -> ViewRow \union {None}]
  /\ \A p \in People : deleting[p] # None => deleting[p].view \in Boards /\ deleting[p].stars \subseteq Stars
  /\ leaving # None => leaving \in [who : People, at : Statements, stars : SUBSET Stars, views : SUBSET Boards]
  /\ since \in [Statements -> SUBSET People] /\ hidden \subseteq Boards

ViewInit ==
  /\ here = People /\ admitted = {}
  /\ view = [v \in Boards |-> None] /\ star = {}
  /\ deleting = [p \in People |-> None] /\ leaving = None
  /\ since = [s \in Statements |-> {}] /\ hidden = {}

Admit(p) ==
  /\ p \in here \ admitted /\ admitted' = admitted \union {p}
  /\ UNCHANGED <<here, view, star, deleting, leaving, since, hidden>>

-----------------------------------------------------------------------------
\* The rows a transaction under way has deleted: whoever wants one waits.
GoingStars == UNION {deleting[p].stars : p \in {q \in People : deleting[q] # None}}
                \union (IF leaving = None THEN {} ELSE leaving.stars)
GoingViews == IF leaving = None THEN {} ELSE leaving.views

\* A request of p that is about to commit what it writes; it is served once.
Serve(p) == p \in admitted /\ deleting[p] = None /\ admitted' = admitted \ {p}
Wrote(p) == since' = [s \in Statements |-> since[s] \union {p}]

\* The creator's key is of a row that stays when the membership ends.
Create(p, v, shared, f) ==
  /\ Serve(p) /\ view[v] = None
  /\ view' = [view EXCEPT ![v] = [owner |-> p, shared |-> shared, saved |-> f, stored |-> encode_filter(f)]]
  /\ hidden' = hidden \ {v}
  /\ Wrote(p) /\ UNCHANGED <<here, star, deleting, leaving>>

\* The filter, the visibility or both; a field that was not sent keeps its value.
Update(p, v, shared, f) ==
  /\ Serve(p) /\ v \notin GoingViews
  /\ view[v] # None /\ view[v].owner = p
  /\ view' = [view EXCEPT ![v] = [@ EXCEPT !.shared = shared, !.saved = f, !.stored = encode_filter(f)]]
  /\ hidden' = IF view[v].shared /\ ~shared THEN hidden \union {v} ELSE hidden
  /\ Wrote(p) /\ UNCHANGED <<here, star, deleting, leaving>>

Visible(p, v) == view[v] # None /\ (view[v].shared \/ view[v].owner = p)

\* The check and the row are one statement; the key shares a lock on the view.
Star(p, v) ==
  /\ Serve(p) /\ Visible(p, v)
  /\ <<p, v>> \notin star /\ v \notin GoingViews
  /\ star' = star \union {<<p, v>>}
  /\ Wrote(p) /\ UNCHANGED <<here, view, deleting, leaving, hidden>>

Unstar(p, v) ==
  /\ Serve(p) /\ <<p, v>> \in star \ GoingStars
  /\ star' = star \ {<<p, v>>}
  /\ UNCHANGED <<here, view, deleting, leaving, since, hidden>>

\* clear_for_saved_view: everybody's favourites, before it is known whose view it is.
ClearFor(p, v) ==
  /\ p \in admitted /\ deleting[p] = None
  /\ {s \in star : s[2] = v} \intersect GoingStars = {}
  /\ deleting' = [deleting EXCEPT ![p] = [view |-> v, stars |-> {s \in star : s[2] = v}]]
  /\ UNCHANGED <<here, admitted, view, star, leaving, since, hidden>>

\* Whoever asked, the delete says whose it was; a favourite added meanwhile refuses it.
Delete(p) ==
  LET v == deleting[p].view IN
  /\ deleting[p] # None /\ v \notin GoingViews
  /\ {s \in GoingStars : s[2] = v} \subseteq deleting[p].stars
  /\ IF view[v] # None /\ view[v].owner = p /\ \A s \in star : s[2] = v => s \in deleting[p].stars
     THEN view' = [view EXCEPT ![v] = None] /\ star' = star \ deleting[p].stars /\ hidden' = hidden \ {v}
     ELSE UNCHANGED <<view, star, hidden>>
  /\ deleting' = [deleting EXCEPT ![p] = None] /\ admitted' = admitted \ {p}
  /\ UNCHANGED <<here, leaving, since>>

-----------------------------------------------------------------------------
\* shared_holdings, of the views.
SharedHoldings(p) == \E v \in Boards : view[v] # None /\ view[v].owner = p /\ view[v].shared

\* remove_member, having locked the owners' rows: one departure at a time.
Ask(p) ==
  /\ leaving = None /\ p \in here /\ ~SharedHoldings(p)
  /\ leaving' = [who |-> p, at |-> "asked", stars |-> {}, views |-> {}]
  /\ since' = [since EXCEPT !["asked"] = @ \ {p}]
  /\ UNCHANGED <<here, admitted, view, star, deleting, hidden>>

\* delete_personal_rows: the favourites, and then the personal views.
LeaveStars ==
  LET mine == {s \in star : s[1] = leaving.who} IN
  /\ leaving # None /\ leaving.at = "asked"
  /\ mine \intersect GoingStars = {}
  /\ leaving' = [leaving EXCEPT !.at = "unstarred", !.stars = mine]
  /\ since' = [since EXCEPT !["unstarred"] = @ \ {leaving.who}]
  /\ UNCHANGED <<here, admitted, view, star, deleting, hidden>>

\* Somebody else's favourite of one of them refuses the departure, unhandled.
LeaveViews ==
  LET mine == {v \in Boards : view[v] # None /\ view[v].owner = leaving.who /\ ~view[v].shared} IN
  /\ leaving # None /\ leaving.at = "unstarred"
  /\ \A s \in star : s[2] \in mine => s \notin GoingStars \ leaving.stars
  /\ IF \A s \in star : s[2] \in mine => s \in leaving.stars
     THEN /\ leaving' = [leaving EXCEPT !.at = "unviewed", !.views = mine]
          /\ since' = [since EXCEPT !["unviewed"] = @ \ {leaving.who}]
     ELSE leaving' = None /\ UNCHANGED since
  /\ UNCHANGED <<here, admitted, view, star, deleting, hidden>>

\* mark_removed, and the commit.
Leave ==
  /\ leaving # None /\ leaving.at = "unviewed"
  /\ here' = here \ {leaving.who}
  /\ star' = star \ leaving.stars
  /\ view' = [v \in Boards |-> IF v \in leaving.views THEN None ELSE view[v]]
  /\ hidden' = hidden \ leaving.views
  /\ leaving' = None
  /\ UNCHANGED <<admitted, deleting, since>>

\* An invitation is accepted; the row of the membership is revived.
Return(p) ==
  /\ p \notin here /\ here' = here \union {p}
  /\ UNCHANGED <<admitted, view, star, deleting, leaving, since, hidden>>

ViewNext ==
  \/ \E p \in People : Admit(p) \/ Delete(p) \/ Ask(p) \/ Return(p)
  \/ \E p \in People, v \in Boards : Star(p, v) \/ Unstar(p, v) \/ ClearFor(p, v)
  \/ \E p \in People, v \in Boards, shared \in BOOLEAN, f \in Filters :
       Create(p, v, shared, f) \/ Update(p, v, shared, f)
  \/ LeaveStars \/ LeaveViews \/ Leave

ViewSpec == ViewInit /\ [][ViewNext]_viewVars

-----------------------------------------------------------------------------
(* Who left owns a shared view, a favourite or a personal view only if a    *)
(* request of theirs wrote it after the statement of their departure that   *)
(* looked for it.                                                           *)
LeaversOwnNothing == \A p \in People \ here :
  /\ SharedHoldings(p) => p \in since["asked"]
  /\ (\E v \in Boards : <<p, v>> \in star) => p \in since["unstarred"]
  /\ (\E v \in Boards : view[v] # None /\ view[v].owner = p) => p \in since["asked"] \union since["unviewed"]

(* A favourite points at a view that is there; at one its owner cannot see  *)
(* only when it was made personal after it had been shared.                 *)
StarsWereVisible == \A e \in star : LET v == e[2] IN
  view[v] # None /\ (view[v].shared \/ view[v].owner = e[1] \/ v \in hidden)

(* A view filters on what it was saved with: an absence is not a silence.   *)
ViewsReadAsSaved == \A v \in Boards : view[v] # None =>
  Readable(view[v].stored) /\ decode_filter(view[v].stored) = view[v].saved
=============================================================================
