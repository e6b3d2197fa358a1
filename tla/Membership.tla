----------------------------- MODULE Membership -----------------------------
(***************************************************************************)
(* Membership of one workspace: who is in it, with which role, and how a   *)
(* role change, a departure and an invitation interleave.                  *)
(*                                                                         *)
(* Every statement of app/repositories/memberships.py and invitations.py   *)
(* is bound to one workspace id, so one workspace is the whole state.  A   *)
(* request is a database transaction on a connection of its own, run under *)
(* PostgreSQL's READ COMMITTED: each statement reads the rows committed    *)
(* when it starts, a locking statement then waits for each row in turn and *)
(* re-evaluates its predicate on the row's newest version, and a row that  *)
(* began to match after the statement started is not visited at all.       *)
(***************************************************************************)
EXTENDS FiniteSets

CONSTANTS
    Users,          \* accounts
    Requests,       \* transactions that may be open at once
    Invitations,    \* invitation rows, each issued at most once
    Free            \* "no transaction holds this row lock"

ASSUME FreeAssumption == Free \notin Requests

VARIABLES
    role,       \* workspace_members.role, "none" where no row exists
    current,    \* the users whose row has removed_at IS NULL
    lock,       \* which transaction holds the row lock of each member row
    invite,     \* the invitation rows
    claim,      \* which transaction holds the row lock of each invitation
    stage,      \* where each request stands
    scope,      \* the role its AuthorizedWorkspaceScope carries
    job,        \* what it was asked to do, and to whom
    seen,       \* the owners its locking statement read when it started
    todo,       \* those of them it has not locked yet
    owners      \* what the locking statement answers with

memberVars == <<role, current>>
inviteVars == <<invite, claim>>
requestVars == <<stage, scope, job, seen, todo, owners>>
vars == <<role, current, lock, invite, claim,
          stage, scope, job, seen, todo, owners>>

-----------------------------------------------------------------------------
Roles == {"member", "admin", "owner"}
AdminRoles == {"admin", "owner"}

\* ("role", u, r): give u the role r.  ("remove", u, r): end u's membership.
\* ("join", u, r): grant u a membership at the role r of a claimed invitation.
Jobs == [op : {"role", "remove", "join"}, target : Users, as : Roles]
NoJob == [op |-> "none"]

\* "unissued" rows do not exist yet, "gone" rows were deleted by a revocation.
Invites == [state : {"unissued", "pending", "accepted", "expired", "gone"},
            as : Roles, inviter : Roles]
Unissued == [state |-> "unissued", as |-> "member", inviter |-> "admin"]

\* "locking": the locking statement runs.  "unheld": shared_holdings answered
\* that nothing is held.  "claimed": an invitation row is claimed, uncommitted.
Stages == {"idle", "scoped", "locking", "unheld", "claimed"}

IsOwner(u) == u \in current /\ role[u] = "owner"
Owners == {u \in Users : IsOwner(u)}

\* The workspace exists once create_workspace has committed: its membership row
\* arrives with it and no member row is ever deleted.
Exists == \E u \in Users : role[u] # "none"

TypeOK ==
    /\ role \in [Users -> Roles \cup {"none"}]
    /\ current \in SUBSET Users
    /\ lock \in [Users -> Requests \cup {Free}]
    /\ invite \in [Invitations -> Invites]
    /\ claim \in [Invitations -> Requests \cup {Free}]
    /\ stage \in [Requests -> Stages]
    /\ scope \in [Requests -> Roles]
    /\ job \in [Requests -> Jobs \cup {NoJob}]
    /\ seen \in [Requests -> SUBSET Users]
    /\ todo \in [Requests -> SUBSET Users]
    /\ owners \in [Requests -> SUBSET Users]

Init ==
    /\ role = [u \in Users |-> "none"]
    /\ current = {}
    /\ lock = [u \in Users |-> Free]
    /\ invite = [i \in Invitations |-> Unissued]
    /\ claim = [i \in Invitations |-> Free]
    /\ stage = [t \in Requests |-> "idle"]
    /\ scope = [t \in Requests |-> "member"]
    /\ job = [t \in Requests |-> NoJob]
    /\ seen = [t \in Requests |-> {}]
    /\ todo = [t \in Requests |-> {}]
    /\ owners = [t \in Requests |-> {}]

-----------------------------------------------------------------------------
(***************************************************************************)
(* Transactions                                                            *)
(***************************************************************************)

\* A row can be written, or locked, by t unless another transaction holds it.
Available(t, u) == lock[u] \in {Free, t}

\* COMMIT or ROLLBACK: every row lock of t is released and t is over.
End(t) ==
    /\ lock' = [u \in Users |-> IF lock[u] = t THEN Free ELSE lock[u]]
    /\ claim' = [i \in Invitations |-> IF claim[i] = t THEN Free ELSE claim[i]]
    /\ stage' = [stage EXCEPT ![t] = "idle"]
    /\ scope' = [scope EXCEPT ![t] = "member"]
    /\ job' = [job EXCEPT ![t] = NoJob]
    /\ seen' = [seen EXCEPT ![t] = {}]
    /\ todo' = [todo EXCEPT ![t] = {}]
    /\ owners' = [owners EXCEPT ![t] = {}]

\* A refusal raised inside the transaction, a statement timeout, a deadlock
\* victim or a lost connection: nothing the transaction wrote survives it.
Rollback(t) ==
    /\ stage[t] # "idle"
    /\ End(t)
    /\ UNCHANGED <<role, current, invite>>

-----------------------------------------------------------------------------
(***************************************************************************)
(* Requests that administer members                                        *)
(***************************************************************************)

\* create_workspace: the workspace and the ownership of it in one transaction.
CreateWorkspace(u) ==
    /\ ~Exists
    /\ role' = [role EXCEPT ![u] = "owner"]
    /\ current' = {u}
    /\ UNCHANGED <<lock, invite, claim, requestVars>>

\* authorized_scope_for_slug in a statement of its own, then
\* require_workspace_admin on the role it read.
Authorize(t, u) ==
    /\ stage[t] = "idle"
    /\ u \in current
    /\ role[u] \in AdminRoles
    /\ stage' = [stage EXCEPT ![t] = "scoped"]
    /\ scope' = [scope EXCEPT ![t] = role[u]]
    /\ UNCHANGED <<memberVars, inviteVars, lock, job, seen, todo, owners>>

\* lock_owner_ids starts, inside the transaction that will write: it will visit
\* exactly the rows that are owners now.
Begin(t, op, u, r) ==
    /\ stage[t] = "scoped"
    /\ stage' = [stage EXCEPT ![t] = "locking"]
    /\ job' = [job EXCEPT ![t] = [op |-> op, target |-> u, as |-> r]]
    /\ seen' = [seen EXCEPT ![t] = Owners]
    /\ todo' = [todo EXCEPT ![t] = Owners]
    /\ owners' = [owners EXCEPT ![t] = {}]
    /\ UNCHANGED <<memberVars, inviteVars, lock, scope>>

\* Mutant: the row is counted as the statement's snapshot had it.
LockOwnerUnread(t, u) ==
    /\ stage[t] = "locking"
    /\ u \in todo[t]
    /\ Available(t, u)
    /\ lock' = [lock EXCEPT ![u] = t]
    /\ todo' = [todo EXCEPT ![t] = @ \ {u}]
    /\ owners' = [owners EXCEPT ![t] = @ \cup {u}]
    /\ UNCHANGED <<memberVars, inviteVars, stage, scope, job, seen>>

\* FOR UPDATE reaches the row of u: it waits for the row, and keeps it in the
\* answer only if the newest version still matches.  There is no ORDER BY.
LockOwner(t, u) ==
    /\ stage[t] = "locking"
    /\ u \in todo[t]
    /\ Available(t, u)
    /\ lock' = [lock EXCEPT ![u] = t]
    /\ todo' = [todo EXCEPT ![t] = @ \ {u}]
    /\ owners' = [owners EXCEPT ![t] = IF IsOwner(u) THEN @ \cup {u} ELSE @]
    /\ UNCHANGED <<memberVars, inviteVars, stage, scope, job, seen>>

\* Mutant: owners are protected, the role of owner is not.
MayTouchOthers(t) == scope[t] = "owner" \/ job[t].target \notin owners[t]

\* _require_owner_to_touch_owners
MayTouch(t) ==
    \/ scope[t] = "owner"
    \/ /\ job[t].target \notin owners[t]
       /\ job[t].op = "role" => job[t].as # "owner"

\* Mutant: the list is compared with empty, not with the one that goes.
LeavesNobody(t) ==
    \/ job[t].op = "role" /\ job[t].as = "owner"
    \/ job[t].target \notin owners[t]
    \/ Cardinality(owners[t]) # 0

\* The LAST_OWNER rule: only a demotion or a departure can empty the list.
LeavesAnOwner(t) ==
    \/ job[t].op = "role" /\ job[t].as = "owner"
    \/ job[t].target \notin owners[t]
    \/ Cardinality(owners[t]) # 1

Permitted(t) == MayTouch(t) /\ LeavesAnOwner(t)

\* update_member_role from the answered lock to the commit.
UpdateRole(t) ==
    LET u == job[t].target IN
    /\ stage[t] = "locking"
    /\ todo[t] = {}
    /\ job[t].op = "role"
    /\ Permitted(t)
    /\ u \in current
    /\ Available(t, u)
    /\ role' = [role EXCEPT ![u] = job[t].as]
    /\ End(t)
    /\ UNCHANGED <<current, invite>>

\* remove_member asks shared_holdings, which found nothing.  Which projects,
\* initiatives, views, templates and installations name the member is
\* abstracted away: a non-empty answer is a Rollback.
FindUnheld(t) ==
    /\ stage[t] = "locking"
    /\ todo[t] = {}
    /\ job[t].op = "remove"
    /\ Permitted(t)
    /\ stage' = [stage EXCEPT ![t] = "unheld"]
    /\ UNCHANGED <<memberVars, inviteVars, lock, scope, job, seen, todo, owners>>

\* Mutant: the departure is recorded in the role column.
RemoveByRole(t) ==
    LET u == job[t].target IN
    /\ stage[t] = "unheld"
    /\ u \in current
    /\ Available(t, u)
    /\ role' = [role EXCEPT ![u] = "removed"]
    /\ current' = current \ {u}
    /\ End(t)
    /\ UNCHANGED invite

\* delete_personal_rows, unassign_issues and the removed_at stamp, committed.
\* The row and its role stay, so that authorship keeps a referent.
RemoveMember(t) ==
    LET u == job[t].target IN
    /\ stage[t] = "unheld"
    /\ u \in current
    /\ Available(t, u)
    /\ current' = current \ {u}
    /\ End(t)
    /\ UNCHANGED <<role, invite>>

-----------------------------------------------------------------------------
(***************************************************************************)
(* Invitations                                                             *)
(***************************************************************************)

\* create_invitation: one INSERT; only an owner invites an owner.
Invite(t, i, r) ==
    /\ stage[t] = "scoped"
    /\ invite[i].state = "unissued"
    /\ r = "owner" => scope[t] = "owner"
    /\ invite' = [invite EXCEPT ![i] = [state |-> "pending", as |-> r,
                                        inviter |-> scope[t]]]
    /\ End(t)
    /\ UNCHANGED memberVars

\* revoke_invitation: a DELETE by id, whatever state the row is in.
Revoke(t, i) ==
    /\ stage[t] = "scoped"
    /\ invite[i].state \notin {"unissued", "gone"}
    /\ claim[i] = Free
    /\ invite' = [invite EXCEPT ![i].state = "gone"]
    /\ End(t)
    /\ UNCHANGED memberVars

\* expires_at passes.  A row already claimed is past the test of expires_at.
Expire(i) ==
    /\ invite[i].state = "pending"
    /\ claim[i] = Free
    /\ invite' = [invite EXCEPT ![i].state = "expired"]
    /\ UNCHANGED <<memberVars, claim, lock, requestVars>>

\* accept_invitation, first statement: claim the row by its token.
Claim(t, i, u) ==
    /\ stage[t] = "idle"
    /\ invite[i].state = "pending"
    /\ claim[i] = Free
    /\ claim' = [claim EXCEPT ![i] = t]
    /\ stage' = [stage EXCEPT ![t] = "claimed"]
    /\ job' = [job EXCEPT ![t] = [op |-> "join", target |-> u,
                                  as |-> invite[i].as]]
    /\ UNCHANGED <<memberVars, lock, invite, scope, seen, todo, owners>>

\* Mutant: the claim locks the row and does not stamp it.
GrantUnstamped(t, i) ==
    LET u == job[t].target IN
    /\ stage[t] = "claimed"
    /\ claim[i] = t
    /\ Available(t, u)
    /\ u \notin current
    /\ role' = [role EXCEPT ![u] = job[t].as]
    /\ current' = current \cup {u}
    /\ End(t)
    /\ UNCHANGED invite

\* Mutant: the upsert has lost its condition on removed_at.
GrantToAnyone(t, i) ==
    LET u == job[t].target IN
    /\ stage[t] = "claimed"
    /\ claim[i] = t
    /\ Available(t, u)
    /\ role' = [role EXCEPT ![u] = job[t].as]
    /\ current' = current \cup {u}
    /\ invite' = [invite EXCEPT ![i].state = "accepted"]
    /\ End(t)

\* accept_invitation, second statement and commit: insert the membership or
\* revive a tombstone.  A current member makes it return nothing: a Rollback.
Grant(t, i) ==
    LET u == job[t].target IN
    /\ stage[t] = "claimed"
    /\ claim[i] = t
    /\ Available(t, u)
    /\ u \notin current
    /\ role' = [role EXCEPT ![u] = job[t].as]
    /\ current' = current \cup {u}
    /\ invite' = [invite EXCEPT ![i].state = "accepted"]
    /\ End(t)

-----------------------------------------------------------------------------
Administer(t) ==
    \/ \E u \in Users : Authorize(t, u) \/ LockOwner(t, u)
    \/ \E u \in Users, r \in Roles : Begin(t, "role", u, r)
    \/ \E u \in Users : Begin(t, "remove", u, "member")
    \/ UpdateRole(t)
    \/ FindUnheld(t)
    \/ RemoveMember(t)

Join(t) ==
    \/ \E i \in Invitations, r \in Roles : Invite(t, i, r)
    \/ \E i \in Invitations : Revoke(t, i) \/ Grant(t, i)
    \/ \E i \in Invitations, u \in Users : Claim(t, i, u)

Next ==
    \/ \E u \in Users : CreateWorkspace(u)
    \/ \E t \in Requests : Administer(t) \/ Join(t) \/ Rollback(t)
    \/ \E i \in Invitations : Expire(i)

Spec == Init /\ [][Next]_vars

-----------------------------------------------------------------------------
(***************************************************************************)
(* Properties                                                              *)
(***************************************************************************)

\* The request that ends in this step: at most one does.
Ends(t) == stage[t] # "idle" /\ stage'[t] = "idle"

\* What a transaction has counted as owners, it still holds and they still are
\* owners, up to its commit; an owner it dropped stays a non-owner as long.
\* This is what lock_owner_ids says FOR UPDATE is for.
CountedOwnersStayOwners ==
    \A t \in Requests : \A u \in seen[t] \ todo[t] :
        /\ lock[u] = t
        /\ u \in owners[t] <=> IsOwner(u)

\* The workspace can lose its last owner in one way only: a transaction demotes
\* or removes somebody who became an owner after its lock_owner_ids started.
LossIsUnseen ==
    Owners # {} /\ Owners' = {}
    => \E t \in Requests : Ends(t) /\ ~(Owners \subseteq seen[t])
LastOwnerLostOnlyUnseen == [][LossIsUnseen]_vars

\* Nobody becomes an owner but by founding the workspace, by the act of a
\* request authorized as owner, or by an invitation such a request issued.
PromotedByOwner ==
    \A u \in Users : ~IsOwner(u) /\ IsOwner(u)' =>
        \/ ~Exists
        \/ \E t \in Requests :
            /\ Ends(t)
            /\ \/ scope[t] = "owner"
               \/ \E i \in Invitations :
                    claim[i] = t /\ invite[i].inviter = "owner"
OwnershipComesFromAnOwner == [][PromotedByOwner]_vars

\* One acceptance, one membership: an invitation is spent in exactly the steps
\* that admit somebody, at its own role, and is never usable again.
Spent(i) == invite[i].state # "accepted" /\ invite'[i].state = "accepted"
Admitted(u) == u \notin current /\ u \in current'
OneForOne ==
    /\ \A i \in Invitations : Spent(i) =>
        /\ invite[i].state = "pending"
        /\ \E u \in Users : Admitted(u) /\ role'[u] = invite[i].as
    /\ Exists => \A u \in Users : Admitted(u) => \E i \in Invitations : Spent(i)
    /\ \A u, v \in Users : Admitted(u) /\ Admitted(v) => u = v
    /\ \A i \in Invitations :
        invite[i].state \in {"accepted", "expired", "gone"}
        => invite'[i].state # "pending"
InvitationBuysOneMembership == [][OneForOne]_vars

\* Accepting an invitation never changes the role of somebody who is already a
\* current member: only update_member_role does.
ChangedByRoleRequest ==
    \A u \in current \cap current' : role'[u] # role[u] =>
        \E t \in Requests :
            Ends(t) /\ job[t].op = "role" /\ job[t].target = u
JoiningNeverChangesARole == [][ChangedByRoleRequest]_vars

\* "A workspace must always have at least one owner", the LAST_OWNER message.
AlwaysAnOwner == Exists => Owners # {}

\* "Only an owner may create an owner or act on one", the docstring of
\* _require_owner_to_touch_owners.
OnlyOwnersActOnOwners ==
    [][\A u \in Users : IsOwner(u) /\ ~IsOwner(u)' =>
        \E t \in Requests : Ends(t) /\ scope[t] = "owner"]_vars
=============================================================================
