------------------------ MODULE GithubInstallations ------------------------
(***************************************************************************)
(* Which installation of the GitHub app belongs to which workspace.  A      *)
(* callback only claims; GitHub confirms, while the claim is young.  A      *)
(* delivery looks up its workspace with a plain read, and each statement    *)
(* after it waits for rows of its own: an UPDATE that waited for a row that  *)
(* is then deleted matches nothing, also not what has replaced the row.     *)
(***************************************************************************)
EXTENDS Naturals

CONSTANTS
  Workspaces, Installations,
  Repositories,   \* the repositories GitHub lists, by installation
  Deliveries,     \* deliveries that may be in progress at once
  Ttl             \* CLAIM_TTL

VARIABLES
  row,        \* github_installations, by workspace
  listed,     \* github_repositories, by workspace
  delivery,   \* the deliveries in progress
  overtaken   \* history: <<w, i>> of the deliveries of i in progress when w let go of i

installationVars == <<row, listed, delivery, overtaken>>

AllRepositories == UNION {Repositories[i] : i \in Installations}
Kinds == {"deleted", "full", "delta"}
Nowhere == [state |-> "none"]
NoDelivery == [state |-> "none"]
RowType == {Nowhere} \union [state : {"claimed", "confirmed"}, of : Installations, age : 0..Ttl]
DeliveryType == {NoDelivery} \union
  [state : {"resolved", "named", "cleared"}, to : Workspaces, of : Installations, kind : Kinds,
   added : SUBSET AllRepositories, removed : SUBSET AllRepositories,
   holds : BOOLEAN,                  \* has locked the workspace's row
   found : SUBSET AllRepositories]   \* has deleted these, unless it rolls back

LegalInstallationConstants ==
  /\ Ttl \in Nat \ {0}
  /\ \A i, j \in Installations : i # j => Repositories[i] \intersect Repositories[j] = {}

InstallationTypeOK ==
  /\ row \in [Workspaces -> RowType] /\ listed \in [Workspaces -> SUBSET AllRepositories]
  /\ delivery \in [Deliveries -> DeliveryType]
  /\ overtaken \subseteq Workspaces \X Installations

InstallationInit ==
  /\ row = [w \in Workspaces |-> Nowhere] /\ listed = [w \in Workspaces |-> {}]
  /\ delivery = [d \in Deliveries |-> NoDelivery] /\ overtaken = {}

Confirmed(w, i) == row[w].state = "confirmed" /\ row[w].of = i
Claimed(w, i) == row[w].state = "claimed" /\ row[w].of = i
Holds(w, i) == row[w].state # "none" /\ row[w].of = i
Expired(w) == row[w].age >= Ttl

\* The deliveries that have found w, and will write to whatever w is by then.
Bound(w) == {d \in Deliveries : delivery[d].state # "none" /\ delivery[d].to = w}
LeftBehind(w) == {w} \X {delivery[d].of : d \in Bound(w)}

\* No delivery keeps w's row, or any of its repositories', locked.
RowIsFree(w) == \A d \in Bound(w) : ~delivery[d].holds
Unlocked(w) == RowIsFree(w) /\ \A d \in Bound(w) : delivery[d].found = {}

\* When the rows of the workspaces in V are deleted, set_account_login may be
\* waiting for one: it matches no row then, and its delivery goes on.
Naming(V) == {d \in Deliveries : /\ delivery[d].state = "resolved" /\ delivery[d].kind # "deleted"
                                /\ delivery[d].to \in V}
Miss(V) == \E M \in SUBSET Naming(V) :
  delivery' = [d \in Deliveries |-> IF d \in M THEN [delivery[d] EXCEPT !.state = "named"] ELSE delivery[d]]

-----------------------------------------------------------------------------
(* The requests of an administrator.  Each locks what it deletes and        *)
(* commits: whoever waits for it meets the outcome.                         *)

\* Mutant: a second connection replaces the number and keeps the repositories.
ConnectInPlace(w, i) ==
  /\ \A v \in Workspaces \ {w} : ~Holds(v, i)
  /\ RowIsFree(w)
  /\ row' = [row EXCEPT ![w] = [state |-> "claimed", of |-> i, age |-> 0]]
  /\ overtaken' = overtaken \union LeftBehind(w)
  /\ UNCHANGED <<listed, delivery>>

\* connect: the workspace's own rows go, an expired claim of somebody else's
\* goes, and the UNIQUE number refuses what still stands.
Connect(w, i) ==
  LET stale == {v \in Workspaces \ {w} : Claimed(v, i) /\ Expired(v) /\ RowIsFree(v)} IN
  /\ Unlocked(w)
  /\ \A v \in Workspaces \ ({w} \union stale) : ~Holds(v, i)
  /\ \A v \in stale : listed[v] = {}
  /\ row' = [v \in Workspaces |-> CASE v = w -> [state |-> "claimed", of |-> i, age |-> 0]
                                     [] v \in stale -> Nowhere
                                     [] OTHER -> row[v]]
  /\ listed' = [listed EXCEPT ![w] = {}]
  /\ overtaken' = overtaken \union LeftBehind(w)
  /\ Miss({w} \union stale)

Forget(w) ==
  /\ Unlocked(w)
  /\ row' = [row EXCEPT ![w] = Nowhere]
  /\ listed' = [listed EXCEPT ![w] = {}]
  /\ overtaken' = overtaken \union LeftBehind(w)

Disconnect(w) == row[w].state # "none" /\ Forget(w) /\ Miss({w})

Grow(w) == /\ row[w].state = "claimed" /\ row[w].age < Ttl
           /\ row' = [row EXCEPT ![w].age = @ + 1]
           /\ UNCHANGED <<listed, delivery, overtaken>>

\* confirm_installation: one UPDATE carries all three conditions.
Confirmable(w, i) == Claimed(w, i) /\ ~Expired(w) /\ RowIsFree(w)
ConfirmedRow(w) == [row EXCEPT ![w].state = "confirmed", ![w].age = 0]

\* confirm_claim, when the grant of the callback lists the installation.
ConfirmClaim(w, i, R) ==
  /\ Confirmable(w, i) /\ row' = ConfirmedRow(w)
  /\ R \intersect listed[w] = {}
  /\ listed' = [listed EXCEPT ![w] = @ \union R]
  /\ UNCHANGED <<delivery, overtaken>>

-----------------------------------------------------------------------------
(* apply_webhook, statement by statement.  What it writes is seen when it   *)
(* commits; an error of any statement ends it.                              *)

Found(d, w, i, state, kind, added, removed) ==
  /\ delivery[d].state = "none"
  /\ delivery' = [delivery EXCEPT ![d] =
       [state |-> state, to |-> w, of |-> i, kind |-> kind, added |-> added, removed |-> removed,
        holds |-> state = "named", found |-> {}]]
  /\ UNCHANGED <<row, listed, overtaken>>

\* find_confirmed_workspace_by_installation_id: no lock.  Of a payload that deletes
\* nothing else is read, and of the full set nothing but the set.
Resolve(d, w, i, kind, added, removed) ==
  /\ Confirmed(w, i)
  /\ (kind = "deleted" => added = {}) /\ (kind # "delta" => removed = {})
  /\ Found(d, w, i, "resolved", kind, added, removed)

\* A delivery of the event installation confirms a young claim, and keeps its row
\* locked; it lists every repository, or none is in it.
ConfirmByDelivery(d, w, i, kind, R) ==
  /\ Confirmable(w, i) /\ (kind = "full" \/ R = {})
  /\ Found(d, w, i, "named", kind, R, {})

\* _apply_account, which skips a payload that names none.  A claim has no account:
\* the constraint refuses one.  And where there is no row, none is updated.
Name(d, skipped) ==
  LET w == delivery[d].to IN
  /\ delivery[d].state = "resolved" /\ delivery[d].kind # "deleted"
  /\ skipped \/ (row[w].state # "claimed" /\ RowIsFree(w))
  /\ delivery' = [delivery EXCEPT ![d].state = "named", ![d].holds = ~skipped /\ row[w].state = "confirmed"]
  /\ UNCHANGED <<row, listed, overtaken>>

\* delete_repositories: the whole set, or what the delivery is about.
Selection(e) == IF e.kind = "full" THEN listed[e.to] ELSE listed[e.to] \intersect (e.added \union e.removed)
Clear(d) ==
  LET e == delivery[d] IN
  /\ e.state = "named"
  /\ \A c \in Bound(e.to) : delivery[c].found \intersect Selection(e) = {}
  /\ delivery' = [delivery EXCEPT ![d].state = "cleared", ![d].found = Selection(e)]
  /\ UNCHANGED <<row, listed, overtaken>>

\* add_repositories, and the commit.  The key refuses a repository that is there,
\* and one of a workspace that has no row, of whatever kind.
Store(d) ==
  LET e == delivery[d] IN
  /\ e.state = "cleared"
  /\ e.added # {} => row[e.to].state # "none"
  /\ e.added \intersect (listed[e.to] \ e.found) = {}
  /\ listed' = [listed EXCEPT ![e.to] = (@ \ e.found) \union e.added]
  /\ row' = IF e.holds THEN ConfirmedRow(e.to) ELSE row
  /\ delivery' = [delivery EXCEPT ![d] = NoDelivery]
  /\ UNCHANGED overtaken

\* The app was removed on GitHub.
Uninstall(d) ==
  /\ delivery[d].state = "resolved" /\ delivery[d].kind = "deleted"
  /\ Forget(delivery[d].to)
  /\ delivery' = [delivery EXCEPT ![d] = NoDelivery]

Drop(d) ==
  /\ delivery[d].state # "none" /\ delivery' = [delivery EXCEPT ![d] = NoDelivery]
  /\ UNCHANGED <<row, listed, overtaken>>

InstallationNext ==
  \/ \E w \in Workspaces : Disconnect(w) \/ Grow(w)
  \/ \E w \in Workspaces, i \in Installations :
       \/ Connect(w, i)
       \/ \E R \in SUBSET Repositories[i] :
            \/ ConfirmClaim(w, i, R)
            \/ \E d \in Deliveries, kind \in {"full", "delta"} : ConfirmByDelivery(d, w, i, kind, R)
            \/ \E d \in Deliveries, kind \in Kinds, S \in SUBSET (Repositories[i] \ R) :
                 Resolve(d, w, i, kind, R, S)
  \/ \E d \in Deliveries :
       \/ \E skipped \in BOOLEAN : Name(d, skipped)
       \/ Clear(d) \/ Store(d) \/ Uninstall(d) \/ Drop(d)

InstallationSpec == InstallationInit /\ [][InstallationNext]_installationVars

-----------------------------------------------------------------------------
(* A workspace lists repositories of an installation GitHub has confirmed   *)
(* for it, and no others, but for a delivery that had found the workspace    *)
(* before the workspace let go of the installation: that one may come late,  *)
(* under another installation, or under a claim nobody has confirmed.        *)
ForeignRepositoriesWereInFlight ==
  \A w \in Workspaces : \A r \in listed[w] :
    /\ row[w].state # "none"
    /\ \E i \in Installations : r \in Repositories[i] /\ (Confirmed(w, i) \/ <<w, i>> \in overtaken)
=============================================================================
