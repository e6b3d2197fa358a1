---------------------------- MODULE Reads_proofs ----------------------------
(***************************************************************************)
(* Proofs about Membership, and about the reads that stand beside it, for  *)
(* every set of accounts, transactions, invitations, rows and keys.        *)
(*                                                                         *)
(* Membership: a row lock freezes the ownership of its row for everybody   *)
(* but its holder, so what lock_owner_ids has counted stays true until the *)
(* commit, and the only owners a decision can be wrong about are those the *)
(* statement never visited.                                                *)
(*                                                                         *)
(* The reads: a row that stands still is on the side of the cursor that    *)
(* its having been returned says; a panel differs from what its condition  *)
(* counts now by issues touched since; and what a key would have been      *)
(* answered now is among what it would have been since it was asked for.   *)
(***************************************************************************)
EXTENDS Reads, Sequences, FiniteSetTheorems, WellFoundedInduction, TLAPS

-----------------------------------------------------------------------------
(* Membership.                                                             *)
\* Where a request stands determines what it has seen and what it may do.
StageInv ==
    \A t \in Requests :
        /\ stage[t] \notin {"locking", "unheld"} => seen[t] = {}
        /\ todo[t] \subseteq seen[t]
        /\ owners[t] \subseteq seen[t] \ todo[t]
        /\ \A u \in seen[t] : role[u] # "none"
        /\ stage[t] = "unheld" =>
            todo[t] = {} /\ job[t].op = "remove" /\ Permitted(t)
        /\ stage[t] \in {"locking", "unheld", "claimed"} => job[t] \in Jobs

\* A claimed invitation is pending and its claimant joins at its role; an
\* invitation to ownership was issued by an owner.
InviteInv ==
    \A i \in Invitations :
        /\ claim[i] # Free =>
            /\ stage[claim[i]] = "claimed"
            /\ invite[i].state = "pending"
            /\ job[claim[i]].op = "join"
            /\ job[claim[i]].as = invite[i].as
        /\ invite[i].as = "owner" => invite[i].inviter = "owner"

\* A current member has a row.
CurrentInv == \A u \in current : role[u] # "none"

\* The inductive invariant of the memberships.
IInv ==
    /\ TypeOK /\ StageInv /\ InviteInv /\ CurrentInv
    /\ CountedOwnersStayOwners

\* The step of each action, one at a time: what Next offers.
LEMMA NextCases ==
    ASSUME Next
    PROVE  \/ \E u \in Users : CreateWorkspace(u)
           \/ \E t \in Requests :
                \/ \E u \in Users : Authorize(t, u)
                \/ \E u \in Users : LockOwner(t, u)
                \/ \E op \in {"role", "remove"}, u \in Users, r \in Roles :
                      Begin(t, op, u, r)
                \/ UpdateRole(t)
                \/ FindUnheld(t)
                \/ RemoveMember(t)
                \/ Rollback(t)
                \/ \E i \in Invitations, r \in Roles : Invite(t, i, r)
                \/ \E i \in Invitations : Revoke(t, i)
                \/ \E i \in Invitations : Grant(t, i)
                \/ \E i \in Invitations, u \in Users : Claim(t, i, u)
           \/ \E i \in Invitations : Expire(i)
BY DEF Next, Administer, Join, Roles

-----------------------------------------------------------------------------
\* Type correctness: the variables keep the shape their rows and fields have.
LEMMA TypeStep == ASSUME TypeOK, StageInv, [Next]_vars PROVE TypeOK'
<1> USE FreeAssumption DEF TypeOK, Jobs, NoJob, Roles, Stages, Invites,
        memberVars, inviteVars, requestVars
<1>1. ASSUME NEW u \in Users, CreateWorkspace(u) PROVE TypeOK'
  BY <1>1 DEF CreateWorkspace
<1>2. ASSUME NEW t \in Requests, NEW u \in Users, Authorize(t, u) PROVE TypeOK'
  BY <1>2 DEF Authorize, AdminRoles
<1>3. ASSUME NEW t \in Requests, NEW u \in Users, LockOwner(t, u) PROVE TypeOK'
  BY <1>3 DEF LockOwner
<1>4. ASSUME NEW t \in Requests, NEW op \in {"role", "remove"},
             NEW u \in Users, NEW r \in Roles, Begin(t, op, u, r)
      PROVE  TypeOK'
  BY <1>4 DEF Begin, Owners
<1>5. ASSUME NEW t \in Requests, UpdateRole(t) PROVE TypeOK'
  BY <1>5 DEF UpdateRole, End
<1>6. ASSUME NEW t \in Requests, FindUnheld(t) PROVE TypeOK'
  BY <1>6 DEF FindUnheld
<1>7. ASSUME NEW t \in Requests, RemoveMember(t) PROVE TypeOK'
  BY <1>7 DEF RemoveMember, End
<1>8. ASSUME NEW t \in Requests, Rollback(t) PROVE TypeOK'
  BY <1>8 DEF Rollback, End
<1>9. ASSUME NEW t \in Requests, NEW i \in Invitations, NEW r \in Roles,
             Invite(t, i, r)
      PROVE  TypeOK'
  BY <1>9 DEF Invite, End
<1>10. ASSUME NEW t \in Requests, NEW i \in Invitations, Revoke(t, i)
       PROVE  TypeOK'
  <2>1. [invite[i] EXCEPT !.state = "gone"] \in Invites
    OBVIOUS
  <2>2. invite' \in [Invitations -> Invites]
    BY <1>10, <2>1 DEF Revoke
  <2>3. QED
    BY <1>10, <2>2 DEF Revoke, End
<1>11. ASSUME NEW t \in Requests, NEW i \in Invitations, Grant(t, i)
       PROVE  TypeOK'
  <2>1. [invite[i] EXCEPT !.state = "accepted"] \in Invites
    OBVIOUS
  <2>2. invite' \in [Invitations -> Invites]
    BY <1>11, <2>1 DEF Grant
  <2>3. job[t] \in Jobs
    BY <1>11 DEF Grant, StageInv
  <2>4. QED
    BY <1>11, <2>2, <2>3 DEF Grant, End
<1>12. ASSUME NEW t \in Requests, NEW i \in Invitations, NEW u \in Users,
              Claim(t, i, u)
       PROVE  TypeOK'
  BY <1>12 DEF Claim
<1>13. ASSUME NEW i \in Invitations, Expire(i) PROVE TypeOK'
  BY <1>13 DEF Expire
<1>14. CASE UNCHANGED vars
  BY <1>14 DEF vars
<1> HIDE DEF TypeOK
<1>15. QED
  BY <1>1, <1>2, <1>3, <1>4, <1>5, <1>6, <1>7, <1>8, <1>9, <1>10, <1>11,
     <1>12, <1>13, <1>14, NextCases

-----------------------------------------------------------------------------
\* Ending a request resets what it has seen and leaves the others alone.
LEMMA EndEffect ==
    ASSUME TypeOK, NEW t \in Requests, End(t)
    PROVE  /\ stage'[t] = "idle" /\ job'[t] = NoJob
           /\ seen'[t] = {} /\ todo'[t] = {} /\ owners'[t] = {}
           /\ \A s \in Requests \ {t} :
                /\ stage'[s] = stage[s] /\ job'[s] = job[s]
                /\ scope'[s] = scope[s] /\ seen'[s] = seen[s]
                /\ todo'[s] = todo[s] /\ owners'[s] = owners[s]
           /\ \A u \in Users : lock[u] # t => lock'[u] = lock[u]
           /\ \A i \in Invitations : claim[i] # t => claim'[i] = claim[i]
           /\ \A i \in Invitations : claim'[i] # t
           /\ \A i \in Invitations : claim'[i] # Free => claim'[i] = claim[i]
BY FreeAssumption DEF End, TypeOK

\* Every step leaves requests having seen what their stage says.
LEMMA StageStep == ASSUME IInv, [Next]_vars PROVE StageInv'
<1> USE DEF IInv
<1> TypeOK'
  BY TypeStep
<1>1. ASSUME NEW u \in Users, CreateWorkspace(u) PROVE StageInv'
  BY <1>1 DEF CreateWorkspace, StageInv, TypeOK, requestVars, Permitted,
              MayTouch, LeavesAnOwner
<1>2. ASSUME NEW t \in Requests, NEW u \in Users, Authorize(t, u)
      PROVE  StageInv'
  BY <1>2 DEF Authorize, StageInv, TypeOK, memberVars, Permitted, MayTouch,
              LeavesAnOwner
<1>3. ASSUME NEW t \in Requests, NEW u \in Users, LockOwner(t, u)
      PROVE  StageInv'
  <2> SUFFICES ASSUME NEW s \in Requests
               PROVE  StageInv!(s)'
    BY DEF StageInv
  <2>1. stage[t] = "locking" /\ stage' = stage /\ seen' = seen
    BY <1>3 DEF LockOwner
  <2>2. CASE s = t
    <3>1. todo'[t] = todo[t] \ {u} /\ owners'[t] \subseteq owners[t] \cup {u}
      BY <1>3 DEF LockOwner, TypeOK
    <3>2. QED
      BY <1>3, <2>1, <2>2, <3>1 DEF LockOwner, StageInv, memberVars
  <2>3. CASE s # t
    <3>1. todo'[s] = todo[s] /\ owners'[s] = owners[s]
      BY <1>3, <2>3 DEF LockOwner, TypeOK
    <3>2. QED
      BY <1>3, <2>1, <3>1 DEF LockOwner, StageInv, memberVars, Permitted,
                              MayTouch, LeavesAnOwner
  <2>4. QED
    BY <2>2, <2>3
<1>4. ASSUME NEW t \in Requests, NEW op \in {"role", "remove"},
             NEW u \in Users, NEW r \in Roles, Begin(t, op, u, r)
      PROVE  StageInv'
  <2>1. \A v \in Owners : role[v] # "none"
    BY DEF Owners, IsOwner
  <2>2. [op |-> op, target |-> u, as |-> r] \in Jobs
    BY DEF Jobs
  <2>3. QED
    BY <1>4, <2>1, <2>2 DEF Begin, StageInv, TypeOK, memberVars, Permitted,
                            MayTouch, LeavesAnOwner
<1>5. ASSUME NEW t \in Requests, End(t),
             \A v \in Users : role[v] # "none" => role'[v] # "none"
      PROVE  StageInv'
  <2> SUFFICES ASSUME NEW s \in Requests
               PROVE  StageInv!(s)'
    BY DEF StageInv
  <2>1. CASE s = t
    BY <1>5, <2>1, EndEffect DEF StageInv
  <2>2. CASE s # t
    <3>1. s \in Requests \ {t}
      BY <2>2
    <3>2. /\ stage'[s] = stage[s] /\ job'[s] = job[s] /\ scope'[s] = scope[s]
          /\ seen'[s] = seen[s] /\ todo'[s] = todo[s] /\ owners'[s] = owners[s]
      BY <1>5, <3>1, EndEffect
    <3>3. seen[s] \subseteq Users
      BY DEF TypeOK
    <3>4. QED
      BY <1>5, <3>2, <3>3 DEF StageInv, Permitted, MayTouch, LeavesAnOwner
  <2>3. QED
    BY <2>1, <2>2
<1>6. ASSUME NEW t \in Requests, FindUnheld(t) PROVE StageInv'
  BY <1>6 DEF FindUnheld, StageInv, TypeOK, memberVars, Permitted, MayTouch,
              LeavesAnOwner
<1>7. ASSUME NEW t \in Requests, UpdateRole(t) PROVE StageInv'
  <2>1. job[t].as \in Roles
    BY <1>7 DEF UpdateRole, StageInv, Jobs
  <2>2. QED
    BY <1>5, <1>7, <2>1 DEF UpdateRole, TypeOK, Roles
<1>8. ASSUME NEW t \in Requests, RemoveMember(t) PROVE StageInv'
  BY <1>5, <1>8 DEF RemoveMember
<1>9. ASSUME NEW t \in Requests, Rollback(t) PROVE StageInv'
  BY <1>5, <1>9 DEF Rollback
<1>10. ASSUME NEW t \in Requests, NEW i \in Invitations, NEW r \in Roles,
              Invite(t, i, r)
       PROVE  StageInv'
  BY <1>5, <1>10 DEF Invite, memberVars
<1>11. ASSUME NEW t \in Requests, NEW i \in Invitations, Revoke(t, i)
       PROVE  StageInv'
  BY <1>5, <1>11 DEF Revoke, memberVars
<1>12. ASSUME NEW t \in Requests, NEW i \in Invitations, Grant(t, i)
       PROVE  StageInv'
  <2>1. job[t].as \in Roles
    BY <1>12 DEF Grant, StageInv, Jobs
  <2>2. QED
    BY <1>5, <1>12, <2>1 DEF Grant, TypeOK, Roles
<1>13. ASSUME NEW t \in Requests, NEW i \in Invitations, NEW u \in Users,
              Claim(t, i, u)
       PROVE  StageInv'
  <2>1. [op |-> "join", target |-> u, as |-> invite[i].as] \in Jobs
    BY DEF Jobs, TypeOK, Invites
  <2>2. QED
    BY <1>13, <2>1 DEF Claim, StageInv, TypeOK, memberVars, Permitted,
                       MayTouch, LeavesAnOwner
<1>14. ASSUME NEW i \in Invitations, Expire(i) PROVE StageInv'
  BY <1>14 DEF Expire, StageInv, TypeOK, memberVars, requestVars, Permitted,
               MayTouch, LeavesAnOwner
<1>15. CASE UNCHANGED vars
  BY <1>15 DEF vars, StageInv, Permitted, MayTouch, LeavesAnOwner
<1>16. QED
  BY <1>1, <1>2, <1>3, <1>4, <1>6, <1>7, <1>8, <1>9, <1>10, <1>11, <1>12,
     <1>13, <1>14, <1>15, NextCases

-----------------------------------------------------------------------------
\* Every step leaves claims on pending invitations alone.
LEMMA InviteStep == ASSUME IInv, [Next]_vars PROVE InviteInv'
<1> USE FreeAssumption DEF IInv
<1>1. ASSUME NEW u \in Users, CreateWorkspace(u) PROVE InviteInv'
  BY <1>1 DEF CreateWorkspace, InviteInv, requestVars
<1>2. ASSUME NEW t \in Requests, NEW u \in Users, Authorize(t, u)
      PROVE  InviteInv'
  BY <1>2 DEF Authorize, InviteInv, TypeOK, inviteVars
<1>3. ASSUME NEW t \in Requests, NEW u \in Users, LockOwner(t, u)
      PROVE  InviteInv'
  BY <1>3 DEF LockOwner, InviteInv, inviteVars
<1>4. ASSUME NEW t \in Requests, NEW op \in {"role", "remove"},
             NEW u \in Users, NEW r \in Roles, Begin(t, op, u, r)
      PROVE  InviteInv'
  BY <1>4 DEF Begin, InviteInv, TypeOK, inviteVars
<1>5. ASSUME NEW t \in Requests, FindUnheld(t) PROVE InviteInv'
  BY <1>5 DEF FindUnheld, InviteInv, TypeOK, inviteVars
<1>6. ASSUME NEW t \in Requests, End(t),
             \A i \in Invitations :
                /\ claim'[i] # Free => invite'[i] = invite[i]
                /\ invite'[i].as = "owner" => invite'[i].inviter = "owner"
      PROVE  InviteInv'
  <2> SUFFICES ASSUME NEW i \in Invitations
               PROVE  InviteInv!(i)'
    BY DEF InviteInv
  <2>1. CASE claim'[i] = Free
    BY <1>6, <2>1
  <2>2. CASE claim'[i] # Free
    <3>1. claim'[i] = claim[i] /\ claim[i] \in Requests \ {t}
      BY <1>6, <2>2, EndEffect DEF TypeOK
    <3>2. stage'[claim[i]] = stage[claim[i]] /\ job'[claim[i]] = job[claim[i]]
      BY <1>6, <3>1, EndEffect
    <3>3. QED
      BY <1>6, <2>2, <3>1, <3>2 DEF InviteInv
  <2>3. QED
    BY <2>1, <2>2
<1>7. ASSUME NEW t \in Requests, UpdateRole(t) PROVE InviteInv'
  BY <1>6, <1>7 DEF UpdateRole, InviteInv
<1>8. ASSUME NEW t \in Requests, RemoveMember(t) PROVE InviteInv'
  BY <1>6, <1>8 DEF RemoveMember, InviteInv
<1>9. ASSUME NEW t \in Requests, Rollback(t) PROVE InviteInv'
  BY <1>6, <1>9 DEF Rollback, InviteInv
<1>10. ASSUME NEW t \in Requests, NEW i \in Invitations, NEW r \in Roles,
              Invite(t, i, r)
       PROVE  InviteInv'
  <2>1. claim[i] = Free
    BY <1>10 DEF Invite, InviteInv
  <2>2. \A k \in Invitations : claim'[k] # Free => k # i
    BY <1>10, <2>1, EndEffect DEF Invite
  <2>3. \A k \in Invitations : k # i => invite'[k] = invite[k]
    BY <1>10 DEF Invite, TypeOK
  <2>4. invite'[i] = [state |-> "pending", as |-> r, inviter |-> scope[t]]
    BY <1>10 DEF Invite, TypeOK
  <2>5. QED
    BY <1>6, <1>10, <2>2, <2>3, <2>4 DEF Invite, InviteInv
<1>11. ASSUME NEW t \in Requests, NEW i \in Invitations, Revoke(t, i)
       PROVE  InviteInv'
  <2>1. \A k \in Invitations : claim'[k] # Free => k # i
    BY <1>11, EndEffect DEF Revoke
  <2>2. \A k \in Invitations : k # i => invite'[k] = invite[k]
    BY <1>11 DEF Revoke, TypeOK
  <2>3. invite'[i].as = invite[i].as /\ invite'[i].inviter = invite[i].inviter
    BY <1>11 DEF Revoke, TypeOK, Invites
  <2>4. QED
    BY <1>6, <1>11, <2>1, <2>2, <2>3 DEF Revoke, InviteInv
<1>12. ASSUME NEW t \in Requests, NEW i \in Invitations, Grant(t, i)
       PROVE  InviteInv'
  <2>1. \A k \in Invitations : claim'[k] # Free => k # i
    BY <1>12, EndEffect DEF Grant
  <2>2. \A k \in Invitations : k # i => invite'[k] = invite[k]
    BY <1>12 DEF Grant, TypeOK
  <2>3. invite'[i].as = invite[i].as /\ invite'[i].inviter = invite[i].inviter
    BY <1>12 DEF Grant, TypeOK, Invites
  <2>4. QED
    BY <1>6, <1>12, <2>1, <2>2, <2>3 DEF Grant, InviteInv
<1>13. ASSUME NEW t \in Requests, NEW i \in Invitations, NEW u \in Users,
              Claim(t, i, u)
       PROVE  InviteInv'
  <2>1. \A k \in Invitations : claim[k] # t
    BY <1>13 DEF Claim, InviteInv
  <2>2. /\ stage'[t] = "claimed" /\ job'[t].op = "join"
        /\ job'[t].as = invite[i].as
        /\ \A s \in Requests : s # t => stage'[s] = stage[s] /\ job'[s] = job[s]
    BY <1>13 DEF Claim, TypeOK
  <2>3. claim'[i] = t /\ \A k \in Invitations : k # i => claim'[k] = claim[k]
    BY <1>13 DEF Claim, TypeOK
  <2>4. invite' = invite /\ invite[i].state = "pending"
    BY <1>13 DEF Claim
  <2>5. \A k \in Invitations : claim[k] \in Requests \cup {Free}
    BY DEF TypeOK
  <2> SUFFICES ASSUME NEW k \in Invitations
               PROVE  InviteInv!(k)'
    BY DEF InviteInv
  <2>6. CASE k = i
    BY <2>2, <2>3, <2>4, <2>6 DEF InviteInv
  <2>7. CASE k # i
    BY <2>1, <2>2, <2>3, <2>4, <2>5, <2>7 DEF InviteInv
  <2>8. QED
    BY <2>6, <2>7
<1>14. ASSUME NEW i \in Invitations, Expire(i) PROVE InviteInv'
  <2>1. /\ \A k \in Invitations : k # i => invite'[k] = invite[k]
        /\ invite'[i].as = invite[i].as
        /\ invite'[i].inviter = invite[i].inviter
    BY <1>14 DEF Expire, TypeOK, Invites
  <2>2. QED
    BY <1>14, <2>1 DEF Expire, InviteInv, requestVars
<1>15. CASE UNCHANGED vars
  BY <1>15 DEF vars, InviteInv
<1>16. QED
  BY <1>1, <1>2, <1>3, <1>4, <1>5, <1>7, <1>8, <1>9, <1>10, <1>11, <1>12,
     <1>13, <1>14, <1>15, NextCases

-----------------------------------------------------------------------------
\* A row another transaction has locked is not written, so a count of owners
\* made under the locks is still right at the next step.
LEMMA CountedStep == ASSUME IInv, [Next]_vars PROVE CountedOwnersStayOwners'
<1> USE FreeAssumption DEF IInv
<1> DEFINE Same(u) == IsOwner(u)' <=> IsOwner(u)
\* A request that writes the row of w, if any, and is over.
<1>1. ASSUME NEW t \in Requests, End(t), NEW w \in Users, Available(t, w),
             \A v \in Users : v # w => Same(v)
      PROVE  CountedOwnersStayOwners'
  <2> SUFFICES ASSUME NEW s \in Requests, NEW v \in seen'[s] \ todo'[s]
               PROVE  lock'[v] = s /\ (v \in owners'[s] <=> IsOwner(v)')
    BY DEF CountedOwnersStayOwners
  <2>1. s # t
    BY <1>1, EndEffect
  <2>2. s \in Requests \ {t}
    BY <2>1
  <2>3. seen'[s] = seen[s] /\ todo'[s] = todo[s] /\ owners'[s] = owners[s]
    BY <1>1, <2>2, EndEffect
  <2>4. v \in Users /\ lock[v] = s /\ (v \in owners[s] <=> IsOwner(v))
    BY <2>3 DEF CountedOwnersStayOwners, TypeOK
  <2>5. v # w
    BY <1>1, <2>1, <2>4 DEF Available
  <2>6. lock'[v] = lock[v]
    BY <1>1, <2>1, <2>4, EndEffect
  <2>7. QED
    BY <1>1, <2>3, <2>4, <2>5, <2>6
\* A request that writes no member row and is over.
<1>2. ASSUME NEW t \in Requests, End(t), UNCHANGED <<role, current>>
      PROVE  CountedOwnersStayOwners'
  <2> SUFFICES ASSUME NEW s \in Requests, NEW v \in seen'[s] \ todo'[s]
               PROVE  lock'[v] = s /\ (v \in owners'[s] <=> IsOwner(v)')
    BY DEF CountedOwnersStayOwners
  <2>1. s \in Requests \ {t}
    BY <1>2, EndEffect
  <2>2. seen'[s] = seen[s] /\ todo'[s] = todo[s] /\ owners'[s] = owners[s]
    BY <1>2, <2>1, EndEffect
  <2>3. v \in Users /\ lock[v] = s /\ (v \in owners[s] <=> IsOwner(v))
    BY <2>2 DEF CountedOwnersStayOwners, TypeOK
  <2>4. lock'[v] = lock[v]
    BY <1>2, <2>1, <2>3, EndEffect
  <2>5. QED
    BY <1>2, <2>2, <2>3, <2>4 DEF IsOwner
<1>3. ASSUME NEW u \in Users, CreateWorkspace(u)
      PROVE  CountedOwnersStayOwners'
  <2>1. \A s \in Requests : seen[s] = {}
    BY <1>3 DEF CreateWorkspace, Exists, StageInv, TypeOK
  <2>2. QED
    BY <1>3, <2>1 DEF CreateWorkspace, CountedOwnersStayOwners, requestVars
<1>4. ASSUME NEW t \in Requests, NEW u \in Users, Authorize(t, u)
      PROVE  CountedOwnersStayOwners'
  BY <1>4 DEF Authorize, CountedOwnersStayOwners, memberVars, IsOwner
<1>5. ASSUME NEW t \in Requests, NEW u \in Users, LockOwner(t, u)
      PROVE  CountedOwnersStayOwners'
  <2> SUFFICES ASSUME NEW s \in Requests, NEW v \in seen'[s] \ todo'[s]
               PROVE  lock'[v] = s /\ (v \in owners'[s] <=> IsOwner(v)')
    BY DEF CountedOwnersStayOwners
  <2>1. /\ seen' = seen /\ (IsOwner(v)' <=> IsOwner(v))
        /\ todo'[s] = IF s = t THEN todo[t] \ {u} ELSE todo[s]
        /\ owners'[s] = IF s = t /\ IsOwner(u) THEN owners[t] \cup {u}
                                               ELSE owners[s]
    BY <1>5 DEF LockOwner, memberVars, TypeOK, IsOwner
  <2>2. v \in Users
    BY <2>1 DEF TypeOK
  <2>3. lock'[v] = IF v = u THEN t ELSE lock[v]
    BY <1>5, <2>2 DEF LockOwner, TypeOK
  <2>4. CASE s = t /\ v = u
    <3>1. u \notin owners[t]
      BY <1>5 DEF LockOwner, StageInv
    <3>2. QED
      BY <2>1, <2>3, <2>4, <3>1
  <2>5. CASE ~(s = t /\ v = u)
    <3>1. v \in seen[s] \ todo[s]
      BY <2>1, <2>5
    <3>2. lock[v] = s /\ (v \in owners[s] <=> IsOwner(v))
      BY <3>1 DEF CountedOwnersStayOwners
    <3>3. v # u
      BY <1>5, <2>5, <3>2 DEF LockOwner, Available
    <3>4. QED
      BY <2>1, <2>3, <3>2, <3>3
  <2>6. QED
    BY <2>4, <2>5
<1>6. ASSUME NEW t \in Requests, NEW op \in {"role", "remove"},
             NEW u \in Users, NEW r \in Roles, Begin(t, op, u, r)
      PROVE  CountedOwnersStayOwners'
  BY <1>6 DEF Begin, CountedOwnersStayOwners, memberVars, IsOwner, TypeOK
<1>7. ASSUME NEW t \in Requests, UpdateRole(t) PROVE CountedOwnersStayOwners'
  <2>1. job[t].target \in Users
    BY <1>7 DEF UpdateRole, StageInv, Jobs
  <2>2. \A v \in Users : v # job[t].target => Same(v)
    BY <1>7 DEF UpdateRole, IsOwner, TypeOK
  <2>3. QED
    BY <1>1, <1>7, <2>1, <2>2 DEF UpdateRole
<1>8. ASSUME NEW t \in Requests, FindUnheld(t) PROVE CountedOwnersStayOwners'
  BY <1>8 DEF FindUnheld, CountedOwnersStayOwners, memberVars, IsOwner
<1>9. ASSUME NEW t \in Requests, RemoveMember(t)
      PROVE  CountedOwnersStayOwners'
  <2>1. job[t].target \in Users
    BY <1>9 DEF RemoveMember, StageInv, Jobs
  <2>2. \A v \in Users : v # job[t].target => Same(v)
    BY <1>9 DEF RemoveMember, IsOwner
  <2>3. QED
    BY <1>1, <1>9, <2>1, <2>2 DEF RemoveMember
<1>10. ASSUME NEW t \in Requests, Rollback(t) PROVE CountedOwnersStayOwners'
  BY <1>2, <1>10 DEF Rollback
<1>11. ASSUME NEW t \in Requests, NEW i \in Invitations, NEW r \in Roles,
              Invite(t, i, r)
       PROVE  CountedOwnersStayOwners'
  BY <1>2, <1>11 DEF Invite, memberVars
<1>12. ASSUME NEW t \in Requests, NEW i \in Invitations, Revoke(t, i)
       PROVE  CountedOwnersStayOwners'
  BY <1>2, <1>12 DEF Revoke, memberVars
<1>13. ASSUME NEW t \in Requests, NEW i \in Invitations, Grant(t, i)
       PROVE  CountedOwnersStayOwners'
  <2>1. job[t].target \in Users
    BY <1>13 DEF Grant, StageInv, Jobs
  <2>2. \A v \in Users : v # job[t].target => Same(v)
    BY <1>13 DEF Grant, IsOwner, TypeOK
  <2>3. QED
    BY <1>1, <1>13, <2>1, <2>2 DEF Grant
<1>14. ASSUME NEW t \in Requests, NEW i \in Invitations, NEW u \in Users,
              Claim(t, i, u)
       PROVE  CountedOwnersStayOwners'
  BY <1>14 DEF Claim, CountedOwnersStayOwners, memberVars, IsOwner
<1>15. ASSUME NEW i \in Invitations, Expire(i) PROVE CountedOwnersStayOwners'
  BY <1>15 DEF Expire, CountedOwnersStayOwners, memberVars, requestVars,
               IsOwner
<1>16. CASE UNCHANGED vars
  BY <1>16 DEF vars, CountedOwnersStayOwners, IsOwner
<1> HIDE DEF Same
<1>17. QED
  BY <1>3, <1>4, <1>5, <1>6, <1>7, <1>8, <1>9, <1>10, <1>11, <1>12, <1>13,
     <1>14, <1>15, <1>16, NextCases

-----------------------------------------------------------------------------
\* Four actions write a member row; every other step leaves all member rows as they are.
LEMMA RowsKept ==
    ASSUME Next
    PROVE  \/ UNCHANGED <<role, current>>
           \/ \E u \in Users : CreateWorkspace(u)
           \/ \E t \in Requests : UpdateRole(t) \/ RemoveMember(t)
           \/ \E t \in Requests, i \in Invitations : Grant(t, i)
BY NextCases DEF Authorize, LockOwner, Begin, FindUnheld, Rollback, Invite,
                 Revoke, Claim, Expire, memberVars

\* Every step leaves current members their rows.
LEMMA CurrentStep == ASSUME IInv, [Next]_vars PROVE CurrentInv'
<1> USE DEF IInv
<1>1. ASSUME NEW t \in Requests, UpdateRole(t) PROVE CurrentInv'
  <2>1. job[t].as \in Roles
    BY <1>1 DEF UpdateRole, StageInv, Jobs
  <2>2. QED
    BY <1>1, <2>1 DEF UpdateRole, CurrentInv, TypeOK, Roles
<1>2. ASSUME NEW t \in Requests, NEW i \in Invitations, Grant(t, i)
      PROVE  CurrentInv'
  <2>1. job[t].as \in Roles
    BY <1>2 DEF Grant, StageInv, Jobs
  <2>2. /\ role' = [role EXCEPT ![job[t].target] = job[t].as]
        /\ current' = current \cup {job[t].target}
        /\ job[t].target \in Users
    BY <1>2 DEF Grant, StageInv, Jobs
  <2>3. SUFFICES ASSUME NEW v \in current' PROVE role'[v] # "none"
    BY DEF CurrentInv
  <2>4. v \in Users
    BY <2>2, <2>3 DEF TypeOK
  <2>5. CASE v = job[t].target
    BY <2>1, <2>2, <2>5 DEF TypeOK, Roles
  <2>6. CASE v # job[t].target
    BY <2>2, <2>4, <2>6 DEF CurrentInv, TypeOK
  <2>7. QED
    BY <2>5, <2>6
<1>3. ASSUME NEW t \in Requests, RemoveMember(t) PROVE CurrentInv'
  BY <1>3 DEF RemoveMember, CurrentInv
<1>4. ASSUME NEW u \in Users, CreateWorkspace(u) PROVE CurrentInv'
  BY <1>4 DEF CreateWorkspace, CurrentInv, TypeOK
<1>5. CASE UNCHANGED <<role, current>>
  BY <1>5 DEF CurrentInv
<1>6. QED
  BY <1>1, <1>2, <1>3, <1>4, <1>5, RowsKept DEF vars

-----------------------------------------------------------------------------
\* Nobody is a member, or asks for anything, at first.
LEMMA InitIInv == Init => IInv
<1> SUFFICES ASSUME Init PROVE IInv
  OBVIOUS
<1>1. TypeOK
  BY DEF Init, TypeOK, Unissued, Invites, Roles, Stages, NoJob
<1>2. StageInv /\ InviteInv /\ CurrentInv /\ CountedOwnersStayOwners
  BY DEF Init, StageInv, InviteInv, CurrentInv,
         CountedOwnersStayOwners, Unissued
<1>3. QED
  BY <1>1, <1>2 DEF IInv

\* The inductive invariant: types, stages, claimed invitations and counted
\* owners, for any number of accounts, open transactions and invitations.
THEOREM InductiveInvariant == Spec => []IInv
<1>1. IInv /\ [Next]_vars => IInv'
  BY TypeStep, StageStep, InviteStep, CurrentStep, CountedStep DEF IInv
<1>2. QED
  BY InitIInv, <1>1, PTL DEF Spec

\* Every variable keeps the shape of the rows and requests it stands for.
THEOREM TypeCorrect == Spec => []TypeOK
<1>1. IInv => TypeOK
  BY DEF IInv
<1>2. QED
  BY <1>1, InductiveInvariant, PTL

\* What lock_owner_ids answered is still true when the request commits.
THEOREM CountedOwnersCorrect == Spec => []CountedOwnersStayOwners
<1>1. IInv => CountedOwnersStayOwners
  BY DEF IInv
<1>2. QED
  BY <1>1, InductiveInvariant, PTL

-----------------------------------------------------------------------------
\* The owners after each action that writes a member row.
LEMMA OwnersAfter ==
    ASSUME TypeOK, StageInv, NEW t \in Requests
    PROVE  /\ UpdateRole(t) =>
                /\ job[t].target \in Users /\ job[t].as \in Roles
                /\ \A v \in Users \ {job[t].target} : IsOwner(v)' <=> IsOwner(v)
                /\ \A v \in Users : v = job[t].target
                        => (IsOwner(v)' <=> job[t].as = "owner")
           /\ RemoveMember(t) =>
                /\ job[t].target \in Users
                /\ \A v \in Users \ {job[t].target} : IsOwner(v)' <=> IsOwner(v)
           /\ \A i \in Invitations : Grant(t, i) =>
                /\ job[t].target \in Users \ current /\ job[t].as \in Roles
                /\ \A v \in Users \ {job[t].target} : IsOwner(v)' <=> IsOwner(v)
                /\ role'[job[t].target] = job[t].as
                /\ current' = current \cup {job[t].target}
<1>1. ASSUME stage[t] \in {"locking", "unheld", "claimed"}
      PROVE  job[t].target \in Users /\ job[t].as \in Roles
  BY <1>1 DEF StageInv, Jobs
<1>2. ASSUME UpdateRole(t)
      PROVE  /\ job[t].target \in Users /\ job[t].as \in Roles
             /\ \A v \in Users \ {job[t].target} : IsOwner(v)' <=> IsOwner(v)
             /\ \A v \in Users : v = job[t].target
                        => (IsOwner(v)' <=> job[t].as = "owner")
  <2>1. /\ job[t].target \in Users \cap current /\ job[t].as \in Roles
        /\ role' = [role EXCEPT ![job[t].target] = job[t].as]
        /\ current' = current
    BY <1>1, <1>2 DEF UpdateRole
  <2>2. role'[job[t].target] = job[t].as
    BY <2>1 DEF TypeOK
  <2>3. \A v \in Users \ {job[t].target} : role'[v] = role[v]
    BY <2>1 DEF TypeOK
  <2>4. QED
    BY <2>1, <2>2, <2>3 DEF IsOwner
<1>3. ASSUME RemoveMember(t)
      PROVE  /\ job[t].target \in Users
             /\ \A v \in Users \ {job[t].target} : IsOwner(v)' <=> IsOwner(v)
  BY <1>1, <1>3 DEF RemoveMember, IsOwner
<1>4. ASSUME NEW i \in Invitations, Grant(t, i)
      PROVE  /\ job[t].target \in Users \ current /\ job[t].as \in Roles
             /\ \A v \in Users \ {job[t].target} : IsOwner(v)' <=> IsOwner(v)
             /\ role'[job[t].target] = job[t].as
             /\ current' = current \cup {job[t].target}
  BY <1>1, <1>4 DEF Grant, IsOwner, TypeOK
<1>5. QED
  BY <1>2, <1>3, <1>4

\* The demoted or removed user is the only owner left and the transaction had
\* not counted exactly one owner, so it never visited that user's row.
LEMMA LossStep == ASSUME IInv, Next PROVE LossIsUnseen
<1> USE DEF IInv
<1> SUFFICES ASSUME Owners # {}, Owners' = {}
             PROVE  \E t \in Requests : Ends(t) /\ ~(Owners \subseteq seen[t])
  BY DEF LossIsUnseen
<1>1. PICK w \in Users : IsOwner(w) /\ ~IsOwner(w)'
  BY DEF Owners
\* A request whose locks are all taken and which may write its target's row.
<1>2. ASSUME NEW t \in Requests, Permitted(t), todo[t] = {}, End(t),
             stage[t] # "idle",
             ~(job[t].op = "role" /\ job[t].as = "owner"),
             \A v \in Users \ {job[t].target} : IsOwner(v)' <=> IsOwner(v)
      PROVE  Ends(t) /\ ~(Owners \subseteq seen[t])
  <2>1. Ends(t)
    BY <1>2, EndEffect DEF Ends
  <2>2. SUFFICES ASSUME Owners \subseteq seen[t] PROVE FALSE
    BY <2>1
  <2>3. \A v \in Users : IsOwner(v) <=> v = job[t].target
    BY <1>1, <1>2 DEF Owners
  <2>4. owners[t] = {job[t].target}
    <3>1. \A v \in seen[t] : v \in Users /\ (v \in owners[t] <=> IsOwner(v))
      BY <1>2 DEF CountedOwnersStayOwners, TypeOK
    <3>2. owners[t] \subseteq seen[t]
      BY DEF StageInv
    <3>3. QED
      BY <1>1, <2>2, <2>3, <3>1, <3>2 DEF Owners
  <2>5. Cardinality(owners[t]) = 1
    BY <2>4, FS_Singleton
  <2>6. QED
    BY <1>2, <2>4, <2>5 DEF Permitted, LeavesAnOwner
<1>3. ASSUME NEW u \in Users, CreateWorkspace(u) PROVE FALSE
  BY <1>1, <1>3 DEF CreateWorkspace, Exists, IsOwner
<1>4. ASSUME NEW t \in Requests, UpdateRole(t)
      PROVE  Ends(t) /\ ~(Owners \subseteq seen[t])
  <2>1. job[t].as # "owner"
    <3>1. job[t].target \in Users /\ \A v \in Users : ~IsOwner(v)'
      BY <1>4, OwnersAfter DEF Owners
    <3>2. QED
      BY <1>4, <3>1, OwnersAfter
  <2>2. QED
    BY <1>2, <1>4, <2>1, OwnersAfter DEF UpdateRole
<1>5. ASSUME NEW t \in Requests, RemoveMember(t)
      PROVE  Ends(t) /\ ~(Owners \subseteq seen[t])
  <2>1. Permitted(t) /\ todo[t] = {} /\ job[t].op = "remove"
    BY <1>5 DEF RemoveMember, StageInv
  <2>2. QED
    BY <1>2, <1>5, <2>1, OwnersAfter DEF RemoveMember
<1>6. ASSUME NEW t \in Requests, NEW i \in Invitations, Grant(t, i)
      PROVE  FALSE
  BY <1>1, <1>6, OwnersAfter DEF IsOwner
<1>7. CASE UNCHANGED <<role, current>>
  BY <1>1, <1>7 DEF IsOwner
<1>8. QED
  BY <1>3, <1>4, <1>5, <1>6, <1>7, RowsKept

\* The last owner is lost only by a transaction that never visited that owner's
\* row, because the role was granted after its locking statement began.
THEOREM LastOwnerTheorem == Spec => LastOwnerLostOnlyUnseen
<1>1. IInv /\ [Next]_vars => [LossIsUnseen]_vars
  BY LossStep
<1>2. QED
  BY <1>1, InductiveInvariant, PTL DEF Spec, LastOwnerLostOnlyUnseen

-----------------------------------------------------------------------------
\* The claimed invitation carries the role and the authority of the grant.
LEMMA GrantFacts ==
    ASSUME IInv, NEW t \in Requests, NEW i \in Invitations, Grant(t, i)
    PROVE  /\ Ends(t)
           /\ claim[i] = t /\ invite[i].state = "pending"
           /\ job[t].op = "join" /\ job[t].as = invite[i].as
           /\ invite'[i].state = "accepted"
           /\ \A k \in Invitations : k # i => invite'[k] = invite[k]
<1> USE FreeAssumption DEF IInv
<1>1. claim[i] = t /\ claim[i] # Free
  BY DEF Grant
<1>2. /\ invite[i].state = "pending"
      /\ job[t].op = "join" /\ job[t].as = invite[i].as
  BY <1>1 DEF InviteInv
<1>3. /\ invite'[i].state = "accepted"
      /\ \A k \in Invitations : k # i => invite'[k] = invite[k]
  BY DEF Grant, TypeOK, Invites
<1>4. Ends(t)
  BY EndEffect DEF Grant, Ends
<1>5. QED
  BY <1>1, <1>2, <1>3, <1>4

\* Whoever becomes an owner in a step was made one by an owner.
LEMMA PromotionStep == ASSUME IInv, Next PROVE PromotedByOwner
<1> USE DEF IInv
<1> SUFFICES ASSUME NEW w \in Users, ~IsOwner(w), IsOwner(w)', Exists
             PROVE  \E t \in Requests :
                      /\ Ends(t)
                      /\ \/ scope[t] = "owner"
                         \/ \E i \in Invitations :
                              claim[i] = t /\ invite[i].inviter = "owner"
  BY DEF PromotedByOwner
<1>1. ASSUME NEW u \in Users, CreateWorkspace(u) PROVE FALSE
  BY <1>1 DEF CreateWorkspace
<1>2. ASSUME NEW t \in Requests, UpdateRole(t)
      PROVE  Ends(t) /\ scope[t] = "owner"
  <2>1. job[t].as = "owner"
    BY <1>2, OwnersAfter
  <2>2. job[t].op = "role" /\ Permitted(t) /\ End(t) /\ stage[t] # "idle"
    BY <1>2 DEF UpdateRole
  <2>3. QED
    BY <2>1, <2>2, EndEffect DEF Permitted, MayTouch, Ends
<1>3. ASSUME NEW t \in Requests, RemoveMember(t) PROVE FALSE
  BY <1>3, OwnersAfter DEF RemoveMember, IsOwner
<1>4. ASSUME NEW t \in Requests, NEW i \in Invitations, Grant(t, i)
      PROVE  Ends(t) /\ claim[i] = t /\ invite[i].inviter = "owner"
  <2>1. w = job[t].target
    BY <1>4, OwnersAfter
  <2>2. invite[i].as = "owner"
    BY <1>4, <2>1, OwnersAfter, GrantFacts DEF IsOwner
  <2>3. QED
    BY <1>4, <2>2, GrantFacts DEF InviteInv
<1>5. CASE UNCHANGED <<role, current>>
  BY <1>5 DEF IsOwner
<1>6. QED
  BY <1>1, <1>2, <1>3, <1>4, <1>5, RowsKept

\* Ownership is only ever given by an owner: no sequence of requests by
\* admins and members ends with one of them owning the workspace.
THEOREM OwnershipTheorem == Spec => OwnershipComesFromAnOwner
<1>1. IInv /\ [Next]_vars => [PromotedByOwner]_vars
  BY PromotionStep
<1>2. QED
  BY <1>1, InductiveInvariant, PTL DEF Spec, OwnershipComesFromAnOwner

\* A member changes roles only by the request that names them.
LEMMA JoinStep == ASSUME IInv, Next PROVE ChangedByRoleRequest
<1> USE DEF IInv
<1> SUFFICES ASSUME NEW w \in current \cap current', role'[w] # role[w]
             PROVE  \E t \in Requests : Ends(t) /\ job[t].op = "role"
                                        /\ job[t].target = w
  BY DEF ChangedByRoleRequest
<1>0. w \in Users /\ w \in current
  BY DEF TypeOK
<1>1. ASSUME NEW u \in Users, CreateWorkspace(u) PROVE FALSE
  <2>1. w = u
    BY <1>1 DEF CreateWorkspace
  <2>2. role[w] = "none"
    BY <1>0, <1>1 DEF CreateWorkspace, Exists
  <2>3. QED
    BY <1>0, <2>2 DEF CurrentInv
<1>2. ASSUME NEW t \in Requests, UpdateRole(t)
      PROVE  Ends(t) /\ job[t].op = "role" /\ job[t].target = w
  BY <1>0, <1>2, EndEffect DEF UpdateRole, Ends, TypeOK
<1>3. ASSUME NEW t \in Requests, RemoveMember(t) PROVE FALSE
  BY <1>3 DEF RemoveMember
<1>4. ASSUME NEW t \in Requests, NEW i \in Invitations, Grant(t, i)
      PROVE  FALSE
  BY <1>0, <1>4, OwnersAfter DEF Grant, TypeOK
<1>5. CASE UNCHANGED <<role, current>>
  BY <1>5
<1>6. QED
  BY <1>1, <1>2, <1>3, <1>4, <1>5, RowsKept

\* Redeeming an invitation leaves the role of every current member alone.
THEOREM JoiningTheorem == Spec => JoiningNeverChangesARole
<1>1. IInv /\ [Next]_vars => [ChangedByRoleRequest]_vars
  BY JoinStep
<1>2. QED
  BY <1>1, InductiveInvariant, PTL DEF Spec, JoiningNeverChangesARole

-----------------------------------------------------------------------------
\* A step that admits nobody spends no invitation, and only an invitation that
\* was never issued becomes pending.
LEMMA OnlyGrantsSpend ==
    ASSUME TypeOK, Next,
           ~ \E t \in Requests, i \in Invitations : Grant(t, i)
    PROVE  \A k \in Invitations :
             /\ ~Spent(k)
             /\ invite[k].state \in {"accepted", "expired", "gone"}
                  => invite'[k].state # "pending"
<1> SUFFICES ASSUME NEW k \in Invitations
             PROVE  /\ ~Spent(k)
                    /\ invite[k].state \in {"accepted", "expired", "gone"}
                         => invite'[k].state # "pending"
  OBVIOUS
<1>1. ASSUME NEW t \in Requests, NEW i \in Invitations, NEW r \in Roles,
             Invite(t, i, r)
      PROVE  \/ invite'[k] = invite[k]
             \/ invite[k].state = "unissued" /\ invite'[k].state = "pending"
  BY <1>1 DEF Invite, TypeOK
<1>2. ASSUME NEW t \in Requests, NEW i \in Invitations, Revoke(t, i)
      PROVE  invite'[k] = invite[k] \/ invite'[k].state = "gone"
  BY <1>2 DEF Revoke, TypeOK, Invites
<1>3. ASSUME NEW i \in Invitations, Expire(i)
      PROVE  invite'[k] = invite[k] \/ invite'[k].state = "expired"
  BY <1>3 DEF Expire, TypeOK, Invites
<1>4. \/ invite'[k] = invite[k]
      \/ invite[k].state = "unissued" /\ invite'[k].state = "pending"
      \/ invite'[k].state \in {"gone", "expired"}
  <2>1. \/ invite' = invite
        \/ \E t \in Requests, i \in Invitations, r \in Roles : Invite(t, i, r)
        \/ \E t \in Requests, i \in Invitations : Revoke(t, i)
        \/ \E i \in Invitations : Expire(i)
    BY NextCases DEF CreateWorkspace, Authorize, LockOwner, Begin, UpdateRole,
       FindUnheld, RemoveMember, Rollback, Claim, inviteVars
  <2>2. QED
    BY <1>1, <1>2, <1>3, <2>1
<1>5. QED
  BY <1>4 DEF Spent

\* Whoever joins in a step spends an invitation of their own.
LEMMA SpendingStep == ASSUME IInv, Next PROVE OneForOne
<1> USE DEF IInv
\* A grant spends its own invitation, no other, and admits its own user alone.
<1>1. ASSUME NEW t \in Requests, NEW i \in Invitations, Grant(t, i)
      PROVE  OneForOne
  <2>1. /\ invite[i].state = "pending" /\ invite'[i].state = "accepted"
        /\ job[t].as = invite[i].as
        /\ \A k \in Invitations : k # i => invite'[k] = invite[k]
    BY <1>1, GrantFacts
  <2>2. /\ job[t].target \in Users \ current
        /\ role'[job[t].target] = job[t].as
        /\ current' = current \cup {job[t].target}
    BY <1>1, OwnersAfter
  <2>3. \A u \in Users : Admitted(u) <=> u = job[t].target
    BY <2>2 DEF Admitted
  <2>4. \A k \in Invitations : Spent(k) <=> k = i
    BY <2>1 DEF Spent
  <2>5. ASSUME NEW k \in Invitations, Spent(k)
        PROVE  /\ invite[k].state = "pending"
               /\ \E u \in Users : Admitted(u) /\ role'[u] = invite[k].as
    BY <2>1, <2>2, <2>3, <2>4, <2>5
  <2>6. ASSUME NEW k \in Invitations,
               invite[k].state \in {"accepted", "expired", "gone"}
        PROVE  invite'[k].state # "pending"
    BY <2>1, <2>6
  <2>7. QED
    BY <2>3, <2>4, <2>5, <2>6 DEF OneForOne
<1>2. CASE ~ \E t \in Requests, i \in Invitations : Grant(t, i)
  <2>1. /\ \A k \in Invitations : ~Spent(k)
        /\ \A k \in Invitations :
             invite[k].state \in {"accepted", "expired", "gone"}
               => invite'[k].state # "pending"
    BY <1>2, OnlyGrantsSpend
  <2>2. /\ Exists => \A u \in Users : ~Admitted(u)
        /\ \A u, v \in Users : Admitted(u) /\ Admitted(v) => u = v
    <3>1. ASSUME NEW w \in Users, CreateWorkspace(w)
          PROVE  ~Exists /\ \A u \in Users : Admitted(u) => u = w
      BY <3>1 DEF CreateWorkspace, Admitted
    <3>2. ASSUME NEW t \in Requests, UpdateRole(t) \/ RemoveMember(t)
          PROVE  current' \subseteq current
      BY <3>2 DEF UpdateRole, RemoveMember
    <3>3. QED
      BY <1>2, <3>1, <3>2, RowsKept DEF Admitted
  <2>3. QED
    BY <2>1, <2>2 DEF OneForOne
<1>3. QED
  BY <1>1, <1>2

\* However acceptances, revocations and expiries race, one invitation admits one
\* account, at the role it names, and what was spent is never usable again.
THEOREM InvitationTheorem == Spec => InvitationBuysOneMembership
<1>1. IInv /\ [Next]_vars => [OneForOne]_vars
  BY SpendingStep
<1>2. QED
  BY <1>1, InductiveInvariant, PTL DEF Spec, InvitationBuysOneMembership

-----------------------------------------------------------------------------
(* Orders.  A statement with an ORDER BY and a LIMIT returns the rows that   *)
(* fewer than so many others precede.  R is the order, as a set of pairs.   *)
Linear(R, S) ==
    /\ \A i \in S : <<i, i>> \notin R
    /\ \A i, j, k \in S : <<i, j>> \in R /\ <<j, k>> \in R => <<i, k>> \in R
    /\ \A i, j \in S : i = j \/ <<i, j>> \in R \/ <<j, i>> \in R
\* Those that precede i, and the first n of the order.
Below(R, S, i) == {j \in S : <<j, i>> \in R}
First(R, S, n) == {i \in S : Cardinality(Below(R, S, i)) < n}

\* An element's rank is a number, and greater than that of all below it.
LEMMA RankIsStrict ==
    ASSUME NEW S, IsFiniteSet(S), NEW R, Linear(R, S), NEW i \in S
    PROVE  /\ IsFiniteSet(Below(R, S, i)) /\ Cardinality(Below(R, S, i)) \in Nat
           /\ \A j \in Below(R, S, i) :
                Cardinality(Below(R, S, j)) < Cardinality(Below(R, S, i))
<1>1. IsFiniteSet(Below(R, S, i)) /\ Cardinality(Below(R, S, i)) \in Nat
  <2>1. Below(R, S, i) \subseteq S
    BY DEF Below
  <2>. QED  BY <2>1, FS_Subset, FS_CardinalityType
<1>2. ASSUME NEW j \in Below(R, S, i)
      PROVE  Cardinality(Below(R, S, j)) < Cardinality(Below(R, S, i))
  <2>1. j \in S /\ <<j, i>> \in R
    BY DEF Below
  <2>2. Below(R, S, j) \subseteq Below(R, S, i)
    BY <2>1 DEF Below, Linear
  <2>3. j \notin Below(R, S, j)
    BY <2>1 DEF Below, Linear
  <2>4. Below(R, S, j) # Below(R, S, i)
    BY <2>3, <1>2
  <2>. QED  BY <1>1, <2>2, <2>4, FS_Subset, FS_CardinalityType
<1>. QED  BY <1>1, <1>2

\* Two elements have two ranks.
LEMMA RanksDiffer ==
    ASSUME NEW S, IsFiniteSet(S), NEW R, Linear(R, S), NEW i \in S, NEW j \in S, i # j
    PROVE  Cardinality(Below(R, S, i)) # Cardinality(Below(R, S, j))
<1>1. \/ i \in Below(R, S, j)
      \/ j \in Below(R, S, i)
  BY DEF Below, Linear
<1>2. CASE i \in Below(R, S, j)
  BY <1>2, RankIsStrict
<1>3. CASE j \in Below(R, S, i)
  BY <1>3, RankIsStrict
<1>. QED  BY <1>1, <1>2, <1>3

\* Elements of rank less than n are at most n.
LEMMA FewOfLowRank ==
    ASSUME NEW S, IsFiniteSet(S), NEW R, Linear(R, S), NEW n \in Nat,
           NEW T \in SUBSET S, \A i \in T : Cardinality(Below(R, S, i)) < n
    PROVE  IsFiniteSet(T) /\ Cardinality(T) <= n
<1>1. IsFiniteSet(T) /\ Cardinality(T) \in Nat
  BY FS_Subset, FS_CardinalityType
<1>2. SUFFICES ASSUME Cardinality(T) > n  PROVE FALSE
  BY <1>1
<1> DEFINE f == [i \in T |-> Cardinality(Below(R, S, i)) + 1]
<1>3. f \in [T -> 1..n]
  <2>1. ASSUME NEW i \in T  PROVE Cardinality(Below(R, S, i)) + 1 \in 1..n
    BY RankIsStrict
  <2>. QED  BY <2>1
<1>4. IsFiniteSet(1..n) /\ Cardinality(1..n) = n
  <2>1. /\ IsFiniteSet(1..n)
        /\ Cardinality(1..n) = IF 1 > n THEN 0 ELSE n - 1 + 1
    BY FS_Interval
  <2>. QED  BY <2>1
<1>5. \E x, y \in T : x # y /\ f[x] = f[y]
  <2> HIDE DEF f
  <2>. QED  BY <1>1, <1>2, <1>3, <1>4, FS_PigeonHole
<1>6. PICK x \in T, y \in T : x # y /\ f[x] = f[y]
  BY <1>5
<1>7. Cardinality(Below(R, S, x)) = Cardinality(Below(R, S, y))
  BY <1>6, RankIsStrict
<1>. QED  BY <1>6, <1>7, RanksDiffer

\* No rank is left out below one that is taken.
LEMMA RanksAreDense ==
    ASSUME NEW S, IsFiniteSet(S), NEW R, Linear(R, S), NEW n \in Nat,
           NEW i \in S, Cardinality(Below(R, S, i)) >= n
    PROVE  \E j \in S : Cardinality(Below(R, S, j)) = n
<1> DEFINE X == {j \in S : Cardinality(Below(R, S, j)) >= n}
           D == {Below(R, S, j) : j \in X}
<1>1. D \subseteq FiniteSubsetsOf(S) /\ D # {}
  <2>1. i \in X
    OBVIOUS
  <2>2. ASSUME NEW j \in S  PROVE Below(R, S, j) \in FiniteSubsetsOf(S)
    <3>1. Below(R, S, j) \subseteq S
      BY DEF Below
    <3>. QED  BY <3>1, RankIsStrict DEF FiniteSubsetsOf
  <2>. QED  BY <2>1, <2>2
<1>2. PICK B \in D : \A C \in D : ~(<<C, B>> \in StrictSubsetOrdering(S))
  <2> HIDE DEF D
  <2>. QED  BY <1>1, WFMin, FS_StrictSubsetOrderingWellFounded
<1>3. PICK j \in X : B = Below(R, S, j)
  BY <1>2
<1>4. SUFFICES ASSUME Cardinality(Below(R, S, j)) # n  PROVE FALSE
  BY <1>3
<1>5. Cardinality(Below(R, S, j)) > n
  BY <1>3, <1>4, RankIsStrict
<1>6. ASSUME NEW k \in Below(R, S, j)  PROVE Cardinality(Below(R, S, k)) < n
  <2>1. k \in S /\ <<k, j>> \in R /\ Cardinality(Below(R, S, k)) \in Nat
    <3>1. k \in S /\ <<k, j>> \in R
      BY DEF Below
    <3>. QED  BY <3>1, RankIsStrict
  <2>2. Below(R, S, k) \subseteq Below(R, S, j) /\ k \notin Below(R, S, k)
    BY <1>3, <2>1 DEF Below, Linear
  <2>3. <<Below(R, S, k), B>> \in StrictSubsetOrdering(S)
    BY <1>3, <2>2 DEF StrictSubsetOrdering, Below
  <2>4. Below(R, S, k) \notin D
    BY <1>2, <2>3
  <2>. QED  BY <2>1, <2>4
<1>7. Below(R, S, j) \in SUBSET S
  BY DEF Below
<1>8. Cardinality(Below(R, S, j)) <= n
  BY <1>6, <1>7, FewOfLowRank
<1>9. Cardinality(Below(R, S, j)) \in Nat
  BY <1>3, RankIsStrict
<1>. QED  BY <1>5, <1>8, <1>9

\* The first n, when there are so many, end with the one of rank n - 1.
LEMMA FirstEndsAt ==
    ASSUME NEW S, IsFiniteSet(S), NEW R, Linear(R, S), NEW n \in Nat \ {0},
           NEW l \in S, Cardinality(Below(R, S, l)) = n - 1
    PROVE  First(R, S, n) = {i \in S : i = l \/ <<i, l>> \in R}
<1>1. ASSUME NEW i \in S
      PROVE  Cardinality(Below(R, S, i)) < n <=> i = l \/ <<i, l>> \in R
  <2>1. CASE i = l
    BY <2>1
  <2>2. CASE <<i, l>> \in R
    <3>1. i \in Below(R, S, l)
      BY <2>2 DEF Below
    <3>. QED  BY <3>1, <2>2, RankIsStrict
  <2>3. CASE i # l /\ <<i, l>> \notin R
    <3>1. l \in Below(R, S, i)
      BY <2>3 DEF Below, Linear
    <3>2. n - 1 < Cardinality(Below(R, S, i)) /\ Cardinality(Below(R, S, i)) \in Nat
      BY <3>1, RankIsStrict
    <3>. QED  BY <2>3, <3>2
  <2>. QED  BY <2>1, <2>2, <2>3
<1>. QED  BY <1>1 DEF First

\* What precedes one of the first n is one of them.
LEMMA FirstIsClosed ==
    ASSUME NEW S, IsFiniteSet(S), NEW R, Linear(R, S), NEW n \in Nat,
           NEW i \in First(R, S, n)
    PROVE  Below(R, First(R, S, n), i) = Below(R, S, i)
<1>1. i \in S /\ Cardinality(Below(R, S, i)) < n
  BY DEF First
<1>2. ASSUME NEW j \in Below(R, S, i)  PROVE j \in First(R, S, n)
  <2>1. j \in S
    BY DEF Below
  <2>. QED  BY <1>1, <2>1, RankIsStrict DEF First
<1>. QED  BY <1>2 DEF Below, First

\* How many they are.
LEMMA FirstHolds ==
    ASSUME NEW S, IsFiniteSet(S), NEW R, Linear(R, S), NEW n \in Nat \ {0}
    PROVE  /\ First(R, S, n) \subseteq S
           /\ Cardinality(S) < n => First(R, S, n) = S
           /\ Cardinality(S) >= n =>
                /\ Cardinality(First(R, S, n)) = n
                /\ \E l \in S : Cardinality(Below(R, S, l)) = n - 1
<1>0. First(R, S, n) \subseteq S /\ Cardinality(S) \in Nat
  BY FS_CardinalityType DEF First
<1>1. ASSUME Cardinality(S) < n  PROVE First(R, S, n) = S
  <2>1. ASSUME NEW i \in S  PROVE Cardinality(Below(R, S, i)) < n
    <3>1. Below(R, S, i) \subseteq S
      BY DEF Below
    <3>. QED  BY <1>0, <1>1, <3>1, FS_Subset, RankIsStrict
  <2>. QED  BY <2>1 DEF First
<1>2. ASSUME Cardinality(S) >= n
      PROVE  /\ Cardinality(First(R, S, n)) = n
             /\ \E l \in S : Cardinality(Below(R, S, l)) = n - 1
  <2>1. PICK i \in S : ~(Cardinality(Below(R, S, i)) < n - 1)
    <3>1. SUFFICES ASSUME \A i \in S : Cardinality(Below(R, S, i)) < n - 1  PROVE FALSE
      OBVIOUS
    <3>2. n - 1 \in Nat /\ S \in SUBSET S
      OBVIOUS
    <3>3. Cardinality(S) <= n - 1
      BY <3>1, <3>2, FewOfLowRank
    <3>. QED  BY <3>3, <1>0, <1>2
  <2>2. n - 1 \in Nat /\ Cardinality(Below(R, S, i)) >= n - 1
    BY <2>1, RankIsStrict
  <2>3. PICK l \in S : Cardinality(Below(R, S, l)) = n - 1
    BY <2>2, RanksAreDense
  <2>4. First(R, S, n) = Below(R, S, l) \union {l}
    <3>1. First(R, S, n) = {j \in S : j = l \/ <<j, l>> \in R}
      BY <2>3, FirstEndsAt
    <3>. QED  BY <3>1 DEF Below
  <2>5. l \notin Below(R, S, l)
    BY DEF Below, Linear
  <2>6. IsFiniteSet(Below(R, S, l))
    BY RankIsStrict
  <2>7. Cardinality(Below(R, S, l) \union {l}) = Cardinality(Below(R, S, l)) + 1
    BY <2>5, <2>6, FS_AddElement
  <2>8. Cardinality(First(R, S, n)) = (n - 1) + 1
    BY <2>3, <2>4, <2>7
  <2>. QED  BY <2>3, <2>8
<1>. QED  BY <1>0, <1>1, <1>2

\* A page: of the first n + 1 rows the first n are returned.  When there are
\* no more they are all, and otherwise they end with their last.
LEMMA PageFacts ==
    ASSUME NEW S, IsFiniteSet(S), NEW R, Linear(R, S), NEW n \in Nat \ {0},
           NEW W, W = First(R, S, n + 1), NEW M, M = First(R, W, n)
    PROVE  /\ M \subseteq S
           /\ ~(Cardinality(W) > n) => M = S
           /\ Cardinality(W) > n =>
                /\ \E l \in M : Cardinality(Below(R, M, l)) = n - 1
                /\ \A l \in M : Cardinality(Below(R, M, l)) = n - 1 =>
                     M = {i \in S : i = l \/ <<i, l>> \in R}
<1>0. /\ W \subseteq S /\ n + 1 \in Nat \ {0} /\ n + 1 \in Nat /\ n \in Nat
      /\ IsFiniteSet(W) /\ Cardinality(W) \in Nat /\ Cardinality(S) \in Nat
  BY FirstHolds, FS_Subset, FS_CardinalityType
<1>1. ASSUME NEW i \in W  PROVE Below(R, W, i) = Below(R, S, i)
  BY <1>0, FirstIsClosed
<1>2. M = First(R, S, n)
  BY <1>1, RankIsStrict DEF First
<1>3. ASSUME NEW l \in M  PROVE Below(R, M, l) = Below(R, S, l) /\ l \in S
  BY <1>0, <1>2, FirstIsClosed DEF First
<1>4. Cardinality(W) > n <=> Cardinality(S) > n
  <2>1. Cardinality(S) < n + 1 => W = S
    BY <1>0, FirstHolds
  <2>2. Cardinality(S) >= n + 1 => Cardinality(W) = n + 1
    BY <1>0, FirstHolds
  <2>. QED  BY <1>0, <2>1, <2>2
<1>5. CASE ~(Cardinality(W) > n)
  <2>1. M = S
    <3>1. CASE Cardinality(S) < n
      BY <1>2, <3>1, FirstHolds
    <3>2. CASE Cardinality(S) = n
      <4>1. Cardinality(M) = n /\ M \subseteq S
        BY <1>2, <3>2, FirstHolds
      <4>. QED  BY <4>1, <3>2, <1>0, FS_Subset
    <3>. QED  BY <3>1, <3>2, <1>4, <1>5, <1>0
  <2>. QED  BY <2>1, <1>5
<1>6. CASE Cardinality(W) > n
  <2>1. PICK l \in S : Cardinality(Below(R, S, l)) = n - 1
    BY <1>4, <1>6, <1>0, FirstHolds
  <2>2. l \in M
    BY <2>1, <1>2 DEF First
  <2>3. Cardinality(Below(R, M, l)) = n - 1
    BY <2>1, <2>2, <1>3
  <2>4. ASSUME NEW k \in M, Cardinality(Below(R, M, k)) = n - 1
        PROVE  M = {i \in S : i = k \/ <<i, k>> \in R}
    BY <2>4, <1>2, <1>3, FirstEndsAt
  <2>5. M \subseteq S
    BY <1>2 DEF First
  <2>. QED  BY <2>2, <2>3, <2>4, <2>5, <1>6
<1>. QED  BY <1>5, <1>6

-----------------------------------------------------------------------------
(* Pages of issues.  What stands still is behind the cursor when it has been *)
(* returned, and ahead of it when it has not.                               *)
PageInv ==
    /\ Pages!PageTypeOK
    /\ steady \subseteq listed /\ repeated \intersect steady = {}
    /\ cursor = Pages!Start => shown = {}
    /\ cursor \in Pages!Cursors => \A i \in steady : i \in shown <=> ~Pages!PastCursor(i, cursor)
    /\ cursor = Pages!End => steady \subseteq shown

PageOrder(S) == {p \in S \X S : Pages!Precedes(p[1], p[2])}

\* What the pages assume of their constants.
LEMMA PageConstants ==
    /\ Pages!LegalPageConstants /\ IsFiniteSet(Listing)
    /\ \A S : Pages!Cardinality(S) = Cardinality(S)
BY LegalReadConstants DEF Pages!LegalPageConstants, Pages!IsFiniteSet, IsFiniteSet, Pages!Cardinality, Cardinality

\* Ids and keys are numbers, where they are not NULL.
LEMMA RowValues ==
    ASSUME Pages!PageTypeOK, NEW i \in Listing
    PROVE  i \in Nat /\ (key[i] # None => key[i] \in Nat) /\ descending \in BOOLEAN
BY PageConstants DEF Pages!LegalPageConstants, Pages!PageTypeOK

\* ORDER BY (key, id) orders any rows, NULLs included.
LEMMA PageOrderIsLinear ==
    ASSUME Pages!PageTypeOK, NEW S \in SUBSET Listing
    PROVE  Linear(PageOrder(S), S) /\ IsFiniteSet(S)
<1>1. ASSUME NEW i \in Listing  PROVE ~Pages!Precedes(i, i)
  BY RowValues DEF Pages!Precedes
<1>2. ASSUME NEW i \in Listing, NEW j \in Listing, NEW k \in Listing,
             Pages!Precedes(i, j), Pages!Precedes(j, k)
      PROVE  Pages!Precedes(i, k)
  <2>1. /\ i \in Nat /\ (key[i] # None => key[i] \in Nat)
        /\ j \in Nat /\ (key[j] # None => key[j] \in Nat)
        /\ k \in Nat /\ (key[k] # None => key[k] \in Nat)
    BY RowValues
  <2>2. CASE descending
    BY <1>2, <2>1, <2>2 DEF Pages!Precedes
  <2>3. CASE ~descending
    BY <1>2, <2>1, <2>3 DEF Pages!Precedes
  <2>. QED  BY <2>2, <2>3
<1>3. ASSUME NEW i \in Listing, NEW j \in Listing, i # j
      PROVE  Pages!Precedes(i, j) \/ Pages!Precedes(j, i)
  BY <1>3, RowValues DEF Pages!Precedes
<1>4. IsFiniteSet(S)
  BY PageConstants, FS_Subset
<1>5. \A i, j \in S : <<i, j>> \in PageOrder(S) <=> Pages!Precedes(i, j)
  BY DEF PageOrder
<1>. QED  BY <1>1, <1>2, <1>3, <1>4, <1>5 DEF Linear, PageOrder

\* The rows past the cursor of a row are those that come after it.
LEMMA PastARow ==
    ASSUME Pages!PageTypeOK, NEW i \in Listing, NEW l \in Listing
    PROVE  Pages!PastCursor(i, [at |-> "row", key |-> key[l], id |-> l]) <=> Pages!Precedes(l, i)
<1>1. /\ i \in Nat /\ (key[i] # None => key[i] \in Nat)
      /\ l \in Nat /\ (key[l] # None => key[l] \in Nat)
  BY RowValues
<1> DEFINE c == [at |-> "row", key |-> key[l], id |-> l]
<1>2. c.key = key[l] /\ c.id = l
  OBVIOUS
<1> SUFFICES Pages!PastCursor(i, c) <=> Pages!Precedes(l, i)
  OBVIOUS
<1> HIDE DEF c
<1>3. CASE descending
  BY <1>1, <1>2, <1>3 DEF Pages!Precedes, Pages!PastCursor, Pages!RowPast, Pages!IdPast
<1>4. CASE ~descending
  BY <1>1, <1>2, <1>4 DEF Pages!Precedes, Pages!PastCursor, Pages!RowPast, Pages!IdPast
<1>. QED  BY <1>3, <1>4

\* What comes after a row that is past a cursor is past it too.
LEMMA PastStaysPast ==
    ASSUME Pages!PageTypeOK, NEW i \in Listing, NEW l \in Listing, NEW c \in Pages!Cursors,
           Pages!PastCursor(l, c), Pages!Precedes(l, i)
    PROVE  Pages!PastCursor(i, c)
<1>1. /\ i \in Nat /\ (key[i] # None => key[i] \in Nat)
      /\ l \in Nat /\ (key[l] # None => key[l] \in Nat)
      /\ c.id \in Nat /\ (c.key # None => c.key \in Nat)
  BY RowValues, PageConstants DEF Pages!LegalPageConstants, Pages!Cursors
<1>2. CASE descending
  BY <1>1, <1>2 DEF Pages!Precedes, Pages!PastCursor, Pages!RowPast, Pages!IdPast
<1>3. CASE ~descending
  BY <1>1, <1>3 DEF Pages!Precedes, Pages!PastCursor, Pages!RowPast, Pages!IdPast
<1>. QED  BY <1>2, <1>3

\* A cursor is at the start, at the end or at a row, and only one of these.
LEMMA CursorsDiffer ==
    ASSUME NEW c \in Pages!Cursors
    PROVE  c # Pages!Start /\ c # Pages!End /\ Pages!Start # Pages!End
BY DEF Pages!Cursors, Pages!Start, Pages!End

\* A walk that has ended has begun.
LEMMA EndsDiffer == Pages!Start # Pages!End
BY DEF Pages!Start, Pages!End

\* A page returns of what stands still what comes next, all of it at the end.
LEMMA NextPageStep ==
    ASSUME PageInv, NEW first \in PageSizes, Pages!NextPage(first)
    PROVE  PageInv'
<1> DEFINE S == Pages!Matching
           R == PageOrder(S)
           W == {i \in S : Pages!Rank(i, S) < first + 1}
           M == {i \in W : Pages!Rank(i, W) < first}
           last == CHOOSE i \in M : Pages!Rank(i, M) = first - 1
<1>1. /\ cursor # Pages!End
      /\ shown' = shown \union M /\ repeated' = repeated \union (shown \intersect M)
      /\ cursor' = IF Cardinality(W) > first
                   THEN [at |-> "row", key |-> key[last], id |-> last] ELSE Pages!End
      /\ UNCHANGED <<key, listed, descending, steady>>
  BY PageConstants DEF Pages!NextPage
<1>2. first \in Nat \ {0} /\ S \subseteq Listing /\ S \subseteq listed /\ Pages!PageTypeOK
  BY PageConstants DEF PageInv, Pages!LegalPageConstants, Pages!PageTypeOK, Pages!Matching
<1>3. Linear(R, S) /\ IsFiniteSet(S)
  BY <1>2, PageOrderIsLinear
<1>4. ASSUME NEW T \in SUBSET S, NEW i \in T
      PROVE  Pages!Rank(i, T) = Cardinality(Below(R, T, i))
  <2>1. {j \in T : Pages!Precedes(j, i)} = Below(R, T, i)
    BY DEF Below, PageOrder
  <2>. QED  BY <2>1, PageConstants DEF Pages!Rank
<1>5. W = First(R, S, first + 1) /\ M = First(R, W, first) /\ M \in SUBSET S
  BY <1>4 DEF First
<1> HIDE DEF R, W, M
<1>6. /\ M \subseteq S
      /\ ~(Cardinality(W) > first) => M = S
      /\ Cardinality(W) > first =>
           /\ \E l \in M : Cardinality(Below(R, M, l)) = first - 1
           /\ \A l \in M : Cardinality(Below(R, M, l)) = first - 1 =>
                M = {i \in S : i = l \/ <<i, l>> \in R}
  BY <1>2, <1>3, <1>5, PageFacts
<1>7. cursor = Pages!Start \/ cursor \in Pages!Cursors
  BY <1>1 DEF PageInv, Pages!PageTypeOK
<1>8. \A i \in S : cursor = Pages!Start \/ Pages!PastCursor(i, cursor)
  BY DEF Pages!Matching
<1>9. ASSUME NEW i \in steady  PROVE i \in Listing /\ (i \in shown <=> i \notin S)
  <2>1. i \in Listing /\ i \in listed
    BY DEF PageInv, Pages!PageTypeOK
  <2>2. CASE cursor = Pages!Start
    BY <2>1, <2>2 DEF PageInv, Pages!Matching
  <2>3. CASE cursor \in Pages!Cursors
    <3>1. cursor # Pages!Start
      BY <2>3, CursorsDiffer
    <3>. QED  BY <2>1, <2>3, <3>1 DEF PageInv, Pages!Matching
  <2>. QED  BY <1>7, <2>1, <2>2, <2>3
<1>10. repeated' \intersect steady' = {}
  BY <1>1, <1>6, <1>9 DEF PageInv
<1>11. steady' \subseteq listed' /\ steady' = steady /\ key' = key /\ descending' = descending
  BY <1>1 DEF PageInv
<1>12. CASE Cardinality(W) > first
  <2>1. last \in M /\ Cardinality(Below(R, M, last)) = first - 1
    <3>1. \E l \in M : Pages!Rank(l, M) = first - 1
      BY <1>4, <1>5, <1>6, <1>12
    <3>2. last \in M /\ Pages!Rank(last, M) = first - 1
      BY <3>1
    <3>. QED  BY <1>4, <1>5, <3>2
  <2> DEFINE c == [at |-> "row", key |-> key[last], id |-> last]
  <2> HIDE DEF last
  <2>2. last \in Listing /\ last \in S
    BY <1>2, <1>6, <2>1
  <2>3. c \in Pages!Cursors /\ cursor' = c
    BY <1>1, <1>2, <1>12, <2>2 DEF Pages!Cursors, Pages!PageTypeOK
  <2>4. ASSUME NEW i \in steady
        PROVE  i \in shown \union M <=> ~Pages!PastCursor(i, c)
    <3>1. i \in Listing
      BY <1>9
    <3>2. Pages!PastCursor(i, c) <=> Pages!Precedes(last, i)
      BY <1>2, <2>2, <3>1, PastARow
    <3>3. CASE i \in shown
      <4>1. i \notin S /\ cursor \in Pages!Cursors /\ ~Pages!PastCursor(i, cursor)
        <5>1. cursor # Pages!Start
          BY <3>3 DEF PageInv
        <5>. QED  BY <1>7, <1>9, <3>3, <5>1 DEF PageInv
      <4>2. Pages!PastCursor(last, cursor)
        BY <1>8, <2>2, <4>1, CursorsDiffer
      <4>3. ~Pages!Precedes(last, i)
        BY <1>2, <2>2, <3>1, <4>1, <4>2, PastStaysPast
      <4>. QED  BY <3>2, <3>3, <4>3
    <3>4. CASE i \notin shown
      <4>1. i \in S
        BY <1>9, <3>4
      <4>2. i \in M <=> i = last \/ <<i, last>> \in R
        BY <1>6, <1>12, <2>1, <4>1
      <4>3. i = last \/ <<i, last>> \in R <=> <<last, i>> \notin R
        BY <1>3, <2>2, <4>1 DEF Linear
      <4>4. <<last, i>> \in R <=> Pages!Precedes(last, i)
        BY <2>2, <4>1 DEF R, PageOrder
      <4>. QED  BY <3>2, <3>4, <4>2, <4>3, <4>4
    <3>. QED  BY <3>3, <3>4
  <2>5. \A i \in steady' : i \in shown' <=> ~Pages!PastCursor(i, cursor)'
    <3>1. ASSUME NEW i \in Listing
          PROVE  Pages!PastCursor(i, cursor)' <=> Pages!PastCursor(i, c)
      BY <1>11, <2>3 DEF Pages!PastCursor, Pages!RowPast, Pages!IdPast
    <3>. QED  BY <1>1, <1>9, <1>11, <2>4, <3>1
  <2>6. cursor' # Pages!Start /\ cursor' # Pages!End
    BY <2>3, CursorsDiffer
  <2>7. Pages!PageTypeOK'
    BY <1>1, <1>2, <1>6, <2>3 DEF Pages!PageTypeOK, Pages!Cursors, Pages!Start, Pages!End
  <2>. QED  BY <1>10, <1>11, <2>5, <2>6, <2>7 DEF PageInv, Pages!Start, Pages!End, Pages!Cursors
<1>13. CASE ~(Cardinality(W) > first)
  <2>1. M = S /\ cursor' = Pages!End
    BY <1>1, <1>6, <1>13
  <2>2. steady' \subseteq shown'
    BY <1>1, <1>9, <1>11, <2>1
  <2>3. cursor' # Pages!Start /\ cursor' \notin Pages!Cursors
    BY <2>1, CursorsDiffer, EndsDiffer
  <2>4. Pages!PageTypeOK'
    BY <1>1, <1>2, <2>1 DEF Pages!PageTypeOK, Pages!Cursors, Pages!Start, Pages!End
  <2>. QED  BY <1>10, <1>11, <2>2, <2>3, <2>4 DEF PageInv, Pages!Start, Pages!End, Pages!Cursors
<1>. QED  BY <1>12, <1>13

\* What changes its key or leaves the filter no longer stands still.
LEMMA PageChangeStep ==
    ASSUME PageInv, NEW i \in Listing,
           \/ \E k \in SortKeys \union {None} : Pages!Reorder(i, k)
           \/ Pages!Refilter(i)
    PROVE  PageInv'
<1>1. /\ steady' = steady \ {i} /\ UNCHANGED <<descending, cursor, shown, repeated>>
      /\ key' \in [Listing -> SortKeys \union {None}] /\ listed' \subseteq Listing
      /\ \A j \in Listing \ {i} : key'[j] = key[j] /\ (j \in listed' <=> j \in listed)
  BY DEF PageInv, Pages!PageTypeOK, Pages!Reorder, Pages!Refilter
<1>2. ASSUME NEW j \in Listing \ {i}
      PROVE  Pages!PastCursor(j, cursor)' <=> Pages!PastCursor(j, cursor)
  BY <1>1 DEF Pages!PastCursor, Pages!RowPast, Pages!IdPast
<1>3. Pages!PageTypeOK' /\ steady \subseteq Listing
  BY <1>1 DEF PageInv, Pages!PageTypeOK, Pages!Cursors, Pages!Start, Pages!End
<1>. QED  BY <1>1, <1>2, <1>3 DEF PageInv, Pages!Start, Pages!End, Pages!Cursors

\* The walk of the issues keeps what it promises.
LEMMA PageStep == ASSUME PageInv, [Pages!PageNext]_pageVars PROVE PageInv'
<1>1. CASE UNCHANGED pageVars
  BY <1>1 DEF pageVars, PageInv, Pages!PageTypeOK, Pages!PastCursor, Pages!RowPast, Pages!IdPast,
     Pages!Start, Pages!End, Pages!Cursors
<1>2. CASE Pages!PageNext
  BY <1>2, NextPageStep, PageChangeStep DEF Pages!PageNext
<1>. QED  BY <1>1, <1>2

\* And begins with it.
LEMMA PageInitInv == ASSUME Pages!PageInit PROVE PageInv
BY CursorsDiffer, EndsDiffer DEF Pages!PageInit, PageInv, Pages!PageTypeOK

-----------------------------------------------------------------------------
(* The other lists.  As of pages of issues; and what was returned with a    *)
(* key it still has is behind the cursor, so it is not returned again.      *)
ListInv ==
    /\ Walking!ListTypeOK
    /\ twice \subseteq replaced
    /\ resume = Walking!Start => got = {}
    /\ resume \in Walking!Cursors =>
        /\ \A i \in stable \intersect Walking!Passing :
             i \in got <=> ~Walking!Before(resume.key, resume.id, rec[i].key, i)
        /\ \A i \in got \ replaced :
             rec[i] # None /\ ~Walking!Before(resume.key, resume.id, rec[i].key, i)
    /\ resume = Walking!End => stable \intersect Walking!Passing \subseteq got

ListOrder(S) == {p \in S \X S : Walking!Precedes(p[1], p[2])}

\* What the lists assume of their constants.
LEMMA ListConstants ==
    /\ Walking!LegalListConstants /\ IsFiniteSet(Records)
    /\ \A S : Walking!Cardinality(S) = Cardinality(S)
BY LegalReadConstants DEF Walking!LegalListConstants, Walking!IsFiniteSet, IsFiniteSet, Walking!Cardinality, Cardinality

\* The rows of a list are there, with ids and keys that are numbers.
LEMMA PassingRows ==
    ASSUME Walking!ListTypeOK, NEW i \in Walking!Passing
    PROVE  i \in Records /\ rec[i] # None /\ i \in Nat /\ rec[i].key \in Keys /\ rec[i].key \in Nat
<1>1. Walking!Passing \subseteq Walking!Present
  BY DEF Walking!Passing, Walking!ListTypeOK, Walking!Lists, Walking!Services, Walking!ActivityService,
     Walking!CommentService, Walking!DocumentService, Walking!InitiativeService, Walking!ProjectService,
     Walking!ReleaseService, Walking!LabelService, Walking!SavedViewService, Walking!TriageService,
     Walking!RelationService, Walking!Hanging, Walking!Flagged, Walking!activity, Walking!comments,
     Walking!notifications, Walking!documents, Walking!revisions, Walking!document_comments,
     Walking!initiatives, Walking!projects, Walking!releases, Walking!labels, Walking!saved_views,
     Walking!queue, Walking!children, Walking!relations
<1>2. i \in Records /\ rec[i] # None
  BY <1>1 DEF Walking!Present
<1>3. rec[i] \in Walking!Row
  BY <1>2 DEF Walking!ListTypeOK
<1>. QED  BY <1>2, <1>3, ListConstants DEF Walking!Row, Walking!LegalListConstants

\* A row that stays as it was passes as it did.
LEMMA PassingKept ==
    ASSUME Walking!ListTypeOK, NEW i \in Records, UNCHANGED <<list, asked>>, rec'[i] = rec[i]
    PROVE  i \in Walking!Passing' <=> i \in Walking!Passing
<1>1. /\ i \in Walking!Present' <=> i \in Walking!Present
      /\ i \in Walking!Hanging' <=> i \in Walking!Hanging
      /\ i \in Walking!Flagged' <=> i \in Walking!Flagged
  BY DEF Walking!Present, Walking!Hanging, Walking!Flagged
<1>2. i \in Walking!notifications' <=> i \in Walking!notifications
  BY <1>1 DEF Walking!notifications
<1>3. i \in Walking!documents' <=> i \in Walking!documents
  BY <1>1 DEF Walking!documents
<1>4. i \in Walking!relations' <=> i \in Walking!relations
  BY <1>1 DEF Walking!relations
<1>5. list \in {"activity", "comments", "notifications", "documents", "revisions", "document_comments",
               "initiatives", "projects", "releases", "labels", "saved_views", "queue", "children", "relations"}
  BY DEF Walking!ListTypeOK, Walking!Lists, Walking!Services, Walking!ActivityService,
     Walking!CommentService, Walking!DocumentService, Walking!InitiativeService, Walking!ProjectService,
     Walking!ReleaseService, Walking!LabelService, Walking!SavedViewService, Walking!TriageService,
     Walking!RelationService
<1>. QED
  BY <1>1, <1>2, <1>3, <1>4, <1>5 DEF Walking!Passing, Walking!activity, Walking!comments, Walking!revisions,
     Walking!document_comments, Walking!initiatives, Walking!projects, Walking!releases, Walking!labels,
     Walking!saved_views, Walking!queue, Walking!children

\* Each service has one codec for its lists.
LEMMA CodecKnown ==
    ASSUME Walking!ListTypeOK
    PROVE  Walking!codec \in {"name", "created_at"}
<1> DEFINE s == CHOOSE s \in Walking!Services : list \in DOMAIN s
<1>1. \E q \in Walking!Services : list \in DOMAIN q
  BY DEF Walking!ListTypeOK, Walking!Lists
<1>2. s \in Walking!Services /\ list \in DOMAIN s
  BY <1>1
<1>3. Walking!codec = s[list]
  BY DEF Walking!codec
<1> HIDE DEF s
<1>4. \A q \in Walking!Services : \A l \in DOMAIN q : q[l] \in {"name", "created_at"}
  BY DEF Walking!Services, Walking!ActivityService,
     Walking!CommentService, Walking!DocumentService, Walking!InitiativeService, Walking!ProjectService,
     Walking!ReleaseService, Walking!LabelService, Walking!SavedViewService, Walking!TriageService,
     Walking!RelationService
<1>. QED  BY <1>2, <1>3, <1>4

\* (key, id), in either direction, is an order.
LEMMA BeforeIsLinear ==
    ASSUME NEW k \in Nat, NEW i \in Nat, NEW l \in Nat, NEW j \in Nat
    PROVE  /\ ~Walking!Before(k, i, k, i)
           /\ i = j \/ Walking!Before(k, i, l, j) \/ Walking!Before(l, j, k, i)
<1>1. CASE list \in Walking!OldestFirst
  BY <1>1 DEF Walking!Before
<1>2. CASE list \notin Walking!OldestFirst
  BY <1>2 DEF Walking!Before
<1>. QED  BY <1>1, <1>2

\* What precedes what precedes precedes.
LEMMA BeforeIsTransitive ==
    ASSUME NEW k \in Nat, NEW i \in Nat, NEW l \in Nat, NEW j \in Nat, NEW m \in Nat, NEW n \in Nat,
           Walking!Before(k, i, l, j), Walking!Before(l, j, m, n)
    PROVE  Walking!Before(k, i, m, n)
<1>1. CASE list \in Walking!OldestFirst
  BY <1>1 DEF Walking!Before
<1>2. CASE list \notin Walking!OldestFirst
  BY <1>2 DEF Walking!Before
<1>. QED  BY <1>1, <1>2

\* ORDER BY (key, id) orders the rows of a list.
LEMMA ListOrderIsLinear ==
    ASSUME Walking!ListTypeOK, NEW S \in SUBSET Walking!Passing
    PROVE  Linear(ListOrder(S), S) /\ IsFiniteSet(S)
<1>1. S \subseteq Records /\ IsFiniteSet(S)
  BY PassingRows, ListConstants, FS_Subset
<1>2. \A i \in S : i \in Nat /\ rec[i].key \in Nat
  BY PassingRows
<1>3. \A i, j \in S : <<i, j>> \in ListOrder(S) <=> Walking!Before(rec[i].key, i, rec[j].key, j)
  BY DEF ListOrder, Walking!Precedes
<1>4. \A i \in S : <<i, i>> \notin ListOrder(S)
  BY <1>2, <1>3, BeforeIsLinear
<1>5. ASSUME NEW i \in S, NEW j \in S, NEW k \in S, <<i, j>> \in ListOrder(S), <<j, k>> \in ListOrder(S)
      PROVE  <<i, k>> \in ListOrder(S)
  <2>1. Walking!Before(rec[i].key, i, rec[k].key, k)
    BY <1>2, <1>3, <1>5, BeforeIsTransitive
  <2>. QED  BY <1>3, <2>1
<1>6. ASSUME NEW i \in S, NEW j \in S
      PROVE  i = j \/ <<i, j>> \in ListOrder(S) \/ <<j, i>> \in ListOrder(S)
  BY <1>2, <1>3, BeforeIsLinear
<1>. QED  BY <1>1, <1>4, <1>5, <1>6 DEF Linear

\* A cursor is at the start, at the end or at a row, and only one of these.
LEMMA ListCursors ==
    /\ Walking!Start # Walking!End
    /\ \A c \in Walking!Cursors : c # Walking!Start /\ c # Walking!End
BY DEF Walking!Cursors, Walking!Start, Walking!End

\* A page returns what comes next of what passes, all of it at the end.
LEMMA ListPageStep ==
    ASSUME ListInv, NEW first \in Firsts, Walking!Page(first)
    PROVE  ListInv'
<1> DEFINE S == Walking!After(resume)
           R == ListOrder(S)
           W == {i \in S : Walking!Nth(i, S) < first + 1}
           M == {i \in W : Walking!Nth(i, W) < first}
           last == CHOOSE i \in M : Walking!Nth(i, M) = first - 1
<1>1. /\ Walking!decodes(resume)
      /\ got' = got \union M /\ twice' = twice \union (got \intersect M)
      /\ resume' = IF Cardinality(W) > first THEN Walking!encode(last) ELSE Walking!End
      /\ UNCHANGED <<list, rec, asked, replaced, stable>>
  BY ListConstants DEF Walking!Page
<1>2. /\ first \in Nat \ {0} /\ S \subseteq Walking!Passing /\ S \subseteq Records /\ Walking!ListTypeOK
      /\ \A i \in S : i \in Nat /\ rec[i].key \in Keys /\ rec[i].key \in Nat /\ rec[i] # None
  BY ListConstants, PassingRows DEF ListInv, Walking!LegalListConstants, Walking!After
<1>3. Linear(R, S) /\ IsFiniteSet(S)
  BY <1>2, ListOrderIsLinear
<1>4. ASSUME NEW T \in SUBSET S, NEW i \in T
      PROVE  Walking!Nth(i, T) = Cardinality(Below(R, T, i))
  <2>1. {j \in T : Walking!Precedes(j, i)} = Below(R, T, i)
    BY DEF Below, ListOrder
  <2>. QED  BY <2>1, ListConstants DEF Walking!Nth
<1>5. W = First(R, S, first + 1) /\ M = First(R, W, first) /\ M \in SUBSET S
  BY <1>4 DEF First
<1> HIDE DEF R, W, M
<1>6. /\ M \subseteq S
      /\ ~(Cardinality(W) > first) => M = S
      /\ Cardinality(W) > first =>
           /\ \E l \in M : Cardinality(Below(R, M, l)) = first - 1
           /\ \A l \in M : Cardinality(Below(R, M, l)) = first - 1 =>
                M = {i \in S : i = l \/ <<i, l>> \in R}
  BY <1>2, <1>3, <1>5, PageFacts
<1>7. resume = Walking!Start \/ resume \in Walking!Cursors
  BY <1>1 DEF Walking!decodes
<1>8. \A i \in S : resume = Walking!Start \/ Walking!Before(resume.key, resume.id, rec[i].key, i)
  BY DEF Walking!After
<1>9. ASSUME NEW i \in stable \intersect Walking!Passing  PROVE i \in got <=> i \notin S
  <2>1. CASE resume = Walking!Start
    BY <2>1 DEF ListInv, Walking!After
  <2>2. CASE resume \in Walking!Cursors
    <3>1. resume # Walking!Start
      BY <2>2, ListCursors
    <3>. QED  BY <2>2, <3>1 DEF ListInv, Walking!After
  <2>. QED  BY <1>7, <2>1, <2>2
<1>10. ASSUME NEW i \in got \ replaced
       PROVE  /\ i \notin S /\ rec[i] # None /\ resume \in Walking!Cursors
              /\ ~Walking!Before(resume.key, resume.id, rec[i].key, i)
  <2>1. resume # Walking!Start
    BY DEF ListInv
  <2>. QED  BY <1>7, <1>8, <2>1 DEF ListInv
<1>11. Walking!Passing' = Walking!Passing /\ Walking!codec' = Walking!codec
  BY <1>1 DEF Walking!Passing, Walking!Present, Walking!Hanging, Walking!Flagged, Walking!activity, Walking!comments,
     Walking!notifications, Walking!documents, Walking!revisions, Walking!document_comments,
     Walking!initiatives, Walking!projects, Walking!releases, Walking!labels, Walking!saved_views,
     Walking!queue, Walking!children, Walking!relations, Walking!codec
<1>12. twice' \subseteq replaced' /\ twice' \subseteq got' /\ got' \subseteq Records
  BY <1>1, <1>2, <1>6, <1>10 DEF ListInv, Walking!ListTypeOK
<1>13. ASSUME resume' \in {Walking!Start, Walking!End} \union {c \in Walking!Cursors : c.at = Walking!codec}
       PROVE  Walking!ListTypeOK'
  BY <1>1, <1>2, <1>11, <1>12, <1>13 DEF Walking!ListTypeOK, Walking!Start, Walking!End, Walking!Cursors
<1>14. CASE Cardinality(W) > first
  <2>1. last \in M /\ Cardinality(Below(R, M, last)) = first - 1
    <3>1. \E l \in M : Walking!Nth(l, M) = first - 1
      BY <1>4, <1>5, <1>6, <1>14
    <3>2. last \in M /\ Walking!Nth(last, M) = first - 1
      BY <3>1
    <3>. QED  BY <1>4, <1>5, <3>2
  <2> HIDE DEF last
  <2>2. last \in S
    BY <1>6, <2>1
  <2> DEFINE c == [at |-> Walking!codec, key |-> rec[last].key, id |-> last]
  <2>3. resume' = c /\ c \in Walking!Cursors /\ c.at = Walking!codec /\ c.key = rec[last].key /\ c.id = last
    BY <1>1, <1>2, <1>14, <2>2, CodecKnown DEF Walking!Cursors, Walking!encode
  <2> HIDE DEF c
  <2>4. ASSUME NEW i \in Records, rec[i] # None, i \notin S, resume \in Walking!Cursors,
               ~Walking!Before(resume.key, resume.id, rec[i].key, i)
        PROVE  ~Walking!Before(c.key, c.id, rec[i].key, i)
    <3>1. i \in Nat /\ rec[i].key \in Nat
      BY <1>2, <2>4, ListConstants DEF Walking!LegalListConstants, Walking!ListTypeOK, Walking!Row
    <3>2. Walking!Before(resume.key, resume.id, rec[last].key, last)
      BY <1>8, <2>2, <2>4, ListCursors
    <3>3. resume.key \in Nat /\ resume.id \in Nat
      BY <2>4, ListConstants DEF Walking!LegalListConstants, Walking!Cursors
    <3>4. rec[last].key \in Nat /\ last \in Nat
      BY <1>2, <2>2
    <3>5. ASSUME Walking!Before(rec[last].key, last, rec[i].key, i)
          PROVE  Walking!Before(resume.key, resume.id, rec[i].key, i)
      BY <3>1, <3>2, <3>3, <3>4, <3>5, BeforeIsTransitive
    <3>. QED  BY <2>3, <2>4, <3>5
  <2>5. ASSUME NEW i \in stable \intersect Walking!Passing
        PROVE  i \in got \union M <=> ~Walking!Before(c.key, c.id, rec[i].key, i)
    <3>1. i \in Records /\ rec[i] # None
      BY <1>2, PassingRows
    <3>2. CASE i \in got
      <4>1. i \notin replaced
        BY <1>2 DEF Walking!ListTypeOK
      <4>. QED  BY <1>10, <2>4, <3>1, <3>2, <4>1
    <3>3. CASE i \notin got
      <4>1. i \in S
        BY <1>9, <3>3
      <4>2. i \in M <=> i = last \/ <<i, last>> \in R
        BY <1>6, <1>14, <2>1, <4>1
      <4>3. i = last \/ <<i, last>> \in R <=> <<last, i>> \notin R
        BY <1>3, <2>2, <4>1 DEF Linear
      <4>4. <<last, i>> \in R <=> Walking!Before(rec[last].key, last, rec[i].key, i)
        BY <2>2, <4>1 DEF R, ListOrder, Walking!Precedes
      <4>. QED  BY <2>3, <3>3, <4>2, <4>3, <4>4
    <3>. QED  BY <3>2, <3>3
  <2>6. ASSUME NEW i \in (got \union M) \ replaced
        PROVE  rec[i] # None /\ ~Walking!Before(c.key, c.id, rec[i].key, i)
    <3>1. CASE i \in got
      <4>1. i \in Records
        BY <1>2, <3>1 DEF Walking!ListTypeOK
      <4>. QED  BY <1>10, <2>4, <3>1, <4>1
    <3>2. CASE i \in M
      <4>1. i \in S
        BY <1>6, <3>2
      <4>2. i = last \/ <<i, last>> \in R
        BY <1>6, <1>14, <2>1, <3>2
      <4>3. <<last, i>> \notin R
        BY <1>3, <2>2, <4>1, <4>2 DEF Linear
      <4>4. <<last, i>> \in R <=> Walking!Before(rec[last].key, last, rec[i].key, i)
        BY <2>2, <4>1 DEF R, ListOrder, Walking!Precedes
      <4>. QED  BY <1>2, <2>3, <4>1, <4>3, <4>4
    <3>. QED  BY <3>1, <3>2
  <2>7. Walking!ListTypeOK'
    BY <1>13, <2>3
  <2>8. ASSUME NEW i \in Records
        PROVE  Walking!Before(resume.key, resume.id, rec[i].key, i)' <=> Walking!Before(c.key, c.id, rec[i].key, i)
    BY <1>1, <2>3 DEF Walking!Before, Walking!OldestFirst, Walking!ByName
  <2>9. /\ \A i \in stable' \intersect Walking!Passing' :
             i \in got' <=> ~Walking!Before(resume.key, resume.id, rec[i].key, i)'
        /\ \A i \in got' \ replaced' :
             rec'[i] # None /\ ~Walking!Before(resume.key, resume.id, rec[i].key, i)'
    <3>1. Walking!Passing \subseteq Records /\ got \union M \subseteq Records
      BY <1>2, <1>6, PassingRows DEF Walking!ListTypeOK
    <3>. QED  BY <1>1, <1>11, <2>5, <2>6, <2>8, <3>1
  <2>10. resume' # Walking!Start /\ resume' # Walking!End
    BY <2>3, ListCursors
  <2>. QED  BY <1>12, <2>7, <2>9, <2>10 DEF ListInv, Walking!Start, Walking!End, Walking!Cursors
<1>15. CASE ~(Cardinality(W) > first)
  <2>1. M = S /\ resume' = Walking!End
    BY <1>1, <1>6, <1>15
  <2>2. stable' \intersect Walking!Passing' \subseteq got'
    BY <1>1, <1>9, <1>11, <2>1
  <2>3. resume' # Walking!Start /\ resume' \notin Walking!Cursors
    BY <2>1, ListCursors
  <2>4. Walking!ListTypeOK'
    BY <1>13, <2>1
  <2>. QED  BY <1>12, <2>2, <2>3, <2>4 DEF ListInv, Walking!Start, Walking!End, Walking!Cursors
<1>. QED  BY <1>14, <1>15

\* What is written of a row is a row, or that it is gone.
LEMMA WriteStep ==
    ASSUME ListInv, NEW r \in Records, NEW w \in Walking!Row \union {None}, Walking!Write(r, w),
           r \notin got \/ rec[r] # None
    PROVE  ListInv'
<1>1. /\ resume \in Walking!Cursors /\ resume # Walking!Start /\ resume # Walking!End
      /\ rec' = [rec EXCEPT ![r] = w] /\ stable' = stable \ {r}
      /\ replaced' = IF rec[r] # None /\ w # None /\ rec[r].key = w.key THEN replaced ELSE replaced \union {r}
      /\ UNCHANGED <<list, asked, resume, got, twice>>
  BY DEF Walking!Write, ListInv, Walking!ListTypeOK
<1>2. Walking!codec' = Walking!codec
  BY <1>1 DEF Walking!codec
<1>3. Walking!ListTypeOK'
  BY <1>1, <1>2 DEF ListInv, Walking!ListTypeOK, Walking!Start, Walking!End, Walking!Cursors
<1>4. ASSUME NEW i \in Records, i # r
      PROVE  /\ rec'[i] = rec[i] /\ (i \in Walking!Passing' <=> i \in Walking!Passing)
             /\ Walking!Before(resume.key, resume.id, rec[i].key, i)'
                  <=> Walking!Before(resume.key, resume.id, rec[i].key, i)
  <2>1. rec'[i] = rec[i] /\ Walking!ListTypeOK
    BY <1>1, <1>4 DEF ListInv, Walking!ListTypeOK
  <2>. QED  BY <1>1, <2>1, PassingKept DEF Walking!Before, Walking!OldestFirst, Walking!ByName
<1>5. ASSUME NEW i \in stable' \intersect Walking!Passing'
      PROVE  i \in got' <=> ~Walking!Before(resume.key, resume.id, rec[i].key, i)'
  <2>1. i \in Records /\ i # r /\ i \in stable
    BY <1>1 DEF ListInv, Walking!ListTypeOK
  <2>. QED  BY <1>1, <1>4, <2>1 DEF ListInv
<1>6. ASSUME NEW i \in got' \ replaced'
      PROVE  rec'[i] # None /\ ~Walking!Before(resume.key, resume.id, rec[i].key, i)'
  <2>1. i \in Records /\ i \in got \ replaced
    BY <1>1 DEF ListInv, Walking!ListTypeOK
  <2>2. CASE i # r
    BY <1>1, <1>4, <2>1, <2>2 DEF ListInv
  <2>3. CASE i = r
    <3>1. w # None /\ rec[r].key = w.key /\ rec'[r] = w
      BY <1>1, <2>3 DEF ListInv, Walking!ListTypeOK
    <3>. QED  BY <1>1, <2>1, <2>3, <3>1 DEF ListInv, Walking!Before, Walking!OldestFirst, Walking!ByName
  <2>. QED  BY <2>2, <2>3
<1>. QED  BY <1>1, <1>3, <1>5, <1>6 DEF ListInv, Walking!Start, Walking!End, Walking!Cursors

\* The walks of the other lists keep what they promise.
LEMMA ListStep == ASSUME ListInv, [Walking!ListNext]_listVars PROVE ListInv'
<1> SUFFICES ASSUME Walking!ListNext \/ UNCHANGED listVars  PROVE ListInv'
  OBVIOUS
<1>1. CASE UNCHANGED listVars
  <2>1. UNCHANGED <<list, rec, asked, resume, got, twice, replaced, stable>>
    BY <1>1 DEF listVars
  <2>2. Walking!Passing' = Walking!Passing /\ Walking!codec' = Walking!codec
    BY <2>1 DEF Walking!Passing, Walking!Present, Walking!Hanging, Walking!Flagged, Walking!activity,
       Walking!comments, Walking!notifications, Walking!documents, Walking!revisions, Walking!document_comments,
       Walking!initiatives, Walking!projects, Walking!releases, Walking!labels, Walking!saved_views,
       Walking!queue, Walking!children, Walking!relations, Walking!codec
  <2>. QED  BY <2>1, <2>2 DEF ListInv, Walking!ListTypeOK, Walking!Before, Walking!OldestFirst, Walking!ByName,
            Walking!Start, Walking!End, Walking!Cursors
<1>2. ASSUME NEW first \in Firsts, Walking!Page(first)  PROVE ListInv'
  BY <1>2, ListPageStep
<1>3. ASSUME NEW r \in Records,
             \/ Walking!Insert(r) \/ Walking!Rename(r) \/ Walking!Move(r)
             \/ Walking!Enter(r) \/ Walking!Flip(r) \/ Walking!Delete(r)
      PROVE  ListInv'
  <2>1. rec[r] # None => rec[r] \in Walking!Row
    BY DEF ListInv, Walking!ListTypeOK
  <2>2. CASE Walking!Insert(r)
    BY <2>2, WriteStep DEF Walking!Insert, Walking!Rows
  <2>3. CASE Walking!Rename(r)
    <3>1. PICK k \in Keys : Walking!Write(r, [rec[r] EXCEPT !.key = k]) /\ rec[r] # None
      BY <2>3 DEF Walking!Rename
    <3>2. [rec[r] EXCEPT !.key = k] \in Walking!Row
      BY <2>1, <3>1 DEF Walking!Row
    <3>. QED  BY <3>1, <3>2, WriteStep
  <2>4. CASE Walking!Move(r)
    <3>1. PICK p \in {{}, {Place}} : Walking!Write(r, [rec[r] EXCEPT !.of = p]) /\ rec[r] # None
      BY <2>4 DEF Walking!Move
    <3>2. [rec[r] EXCEPT !.of = p] \in Walking!Row
      BY <2>1, <3>1 DEF Walking!Row
    <3>. QED  BY <3>1, <3>2, WriteStep
  <2>5. CASE Walking!Enter(r)
    <3>1. PICK k \in Keys : Walking!Write(r, [rec[r] EXCEPT !.of = {Place}, !.key = k]) /\ rec[r] # None
      BY <2>5 DEF Walking!Enter
    <3>2. [rec[r] EXCEPT !.of = {Place}, !.key = k] \in Walking!Row
      BY <2>1, <3>1 DEF Walking!Row
    <3>. QED  BY <3>1, <3>2, WriteStep
  <2>6. CASE Walking!Flip(r)
    <3>1. Walking!Write(r, [rec[r] EXCEPT !.open = ~@]) /\ rec[r] # None
      BY <2>6 DEF Walking!Flip
    <3>2. [rec[r] EXCEPT !.open = ~@] \in Walking!Row
      BY <2>1, <3>1 DEF Walking!Row
    <3>. QED  BY <3>1, <3>2, WriteStep
  <2>7. CASE Walking!Delete(r)
    BY <2>7, WriteStep DEF Walking!Delete
  <2>. QED  BY <1>3, <2>2, <2>3, <2>4, <2>5, <2>6, <2>7
<1>. QED  BY <1>1, <1>2, <1>3 DEF Walking!ListNext

\* And begin with it.
LEMMA ListInitInv == ASSUME Walking!ListInit PROVE ListInv
<1>1. Walking!ListTypeOK
  BY DEF Walking!ListInit, Walking!ListTypeOK, Walking!Rows, Walking!Asked
<1>. QED  BY <1>1, ListCursors DEF Walking!ListInit, ListInv

-----------------------------------------------------------------------------
(* The analytics page.  A panel that was read differs from what the same    *)
(* condition counts now by issues changed in between.                       *)
Stamped ==
    \A i \in Counted : fact[i] # None /\ fact[i].category \in Drawing!TERMINAL => fact[i].completed_at # None

\* Of the days a row of a series falls on, every one is of the window.
InWindow(rows) == \A r \in rows : r[2] \in 1..MaxDay /\ Drawing!Within(r[2])

\* What p, that statement s has answered, still says.
PanelHolds(s, p) ==
    /\ s = "creation" => InWindow(p)
    /\ s = "completion" => InWindow(p) /\ Drawing!Agree(Drawing!Completed(p), Drawing!lead_time)
    /\ s \in {"lead_time", "cycle_time"} => Drawing!Agree(p, Drawing!lead_time)
    /\ s \in {"issue_age", "priority_mix"} => Drawing!Agree(p, Drawing!Open)
    /\ s = "state_mix" => /\ Drawing!Agree(Drawing!StillOpen(p), Drawing!Open)
                          /\ Drawing!Alive \ {r[1] : r \in p} \subseteq touched
    /\ s = "workload" => /\ p.of \ Drawing!Open \subseteq touched
                         /\ p.total <= Limit => Drawing!Agree(p.of, Drawing!Open)
    /\ s = "teams" => /\ p.of \ Drawing!lead_time \subseteq touched
                      /\ p.total <= Limit => Drawing!Agree(p.of, Drawing!lead_time)
    /\ s = "overdue" => p \ Drawing!Open \subseteq touched
    /\ s \in {"projects", "cycles"} => p.of \ Drawing!Alive \subseteq touched

\* The inductive invariant of the analytics page.
AnalyticsInv ==
    /\ Drawing!AnalyticsTypeOK
    /\ page = None => at = 0 /\ touched = {}
    /\ Stamped
    /\ \A s \in Drawing!Run : PanelHolds(s, panel[s])

\* What the page assumes of its constants.
LEMMA AnalyticsConstants ==
    /\ Drawing!LegalAnalyticsConstants /\ IsFiniteSet(Counted)
    /\ \A S : Drawing!Cardinality(S) = Cardinality(S)
BY LegalReadConstants
   DEF Drawing!LegalAnalyticsConstants, Drawing!IsFiniteSet, IsFiniteSet, Drawing!Cardinality, Cardinality

\* There are twelve statements.
LEMMA TwelveStatements ==
    /\ Len(Drawing!Statements) = 12
    /\ \A n \in 1..12 : Drawing!Statements[n] \in
         {"creation", "completion", "lead_time", "cycle_time", "issue_age", "state_mix", "priority_mix",
          "workload", "overdue", "teams", "projects", "cycles"}
BY DEF Drawing!Statements

\* The statements run by the time the next one has.
LEMMA RunGrows ==
    ASSUME at \in 0..11, at' = at + 1
    PROVE  Drawing!Run' = Drawing!Run \union {Drawing!Statements[at + 1]}
<1>1. 1..at' = (1..at) \union {at + 1}
  OBVIOUS
<1>. QED  BY <1>1 DEF Drawing!Run, Drawing!Statements

\* The conditions the statements share say the same of an issue that stays as it was.
LEMMA CountedAlike ==
    ASSUME NEW i \in Counted, fact'[i] = fact[i], page' = page
    PROVE  /\ i \in Drawing!Alive' <=> i \in Drawing!Alive
           /\ i \in Drawing!Open' <=> i \in Drawing!Open
           /\ i \in Drawing!lead_time' <=> i \in Drawing!lead_time
BY DEF Drawing!Alive, Drawing!Live, Drawing!Open, Drawing!lead_time, Drawing!Stopped, Drawing!Issues,
   Drawing!Within, Drawing!window_bounds

\* What a panel says outlives changes that are noted.
LEMMA PanelKept ==
    ASSUME NEW D \in SUBSET Counted, \A i \in Counted \ D : fact'[i] = fact[i],
           page' = page, touched' = touched \union D, NEW s, NEW p, PanelHolds(s, p)
    PROVE  PanelHolds(s, p)'
<1>1. /\ Drawing!Alive \subseteq Counted /\ Drawing!Open \subseteq Counted /\ Drawing!lead_time \subseteq Counted
      /\ Drawing!Alive' \subseteq Counted /\ Drawing!Open' \subseteq Counted /\ Drawing!lead_time' \subseteq Counted
  BY DEF Drawing!Alive, Drawing!Open, Drawing!lead_time, Drawing!Stopped, Drawing!Issues
<1>2. \A i \in Counted \ D : /\ i \in Drawing!Alive' <=> i \in Drawing!Alive
                             /\ i \in Drawing!Open' <=> i \in Drawing!Open
                             /\ i \in Drawing!lead_time' <=> i \in Drawing!lead_time
  BY CountedAlike
<1>3. ASSUME NEW X, Drawing!Agree(X, Drawing!lead_time)
      PROVE  (X \ Drawing!lead_time') \union (Drawing!lead_time' \ X) \subseteq touched'
  BY <1>1, <1>2, <1>3 DEF Drawing!Agree
<1>4. ASSUME NEW X, Drawing!Agree(X, Drawing!Open)
      PROVE  (X \ Drawing!Open') \union (Drawing!Open' \ X) \subseteq touched'
  BY <1>1, <1>2, <1>4 DEF Drawing!Agree
<1>5. ASSUME NEW X, X \ Drawing!Open \subseteq touched
      PROVE  X \ Drawing!Open' \subseteq touched'
  BY <1>1, <1>2, <1>5
<1>6. ASSUME NEW X, X \ Drawing!Alive \subseteq touched
      PROVE  X \ Drawing!Alive' \subseteq touched'
  BY <1>1, <1>2, <1>6
<1>7. ASSUME NEW X, Drawing!Alive \ X \subseteq touched
      PROVE  Drawing!Alive' \ X \subseteq touched'
  BY <1>1, <1>2, <1>7
<1>7a. ASSUME NEW X, X \ Drawing!lead_time \subseteq touched
       PROVE  X \ Drawing!lead_time' \subseteq touched'
  BY <1>1, <1>2, <1>7a
<1>8. ASSUME InWindow(p)  PROVE InWindow(p)'
  BY <1>8 DEF InWindow, Drawing!Within, Drawing!window_bounds
<1>9. /\ s = "creation" => InWindow(p)'
      /\ s = "completion" => /\ InWindow(p)'
                             /\ Drawing!Agree(Drawing!Completed(p), Drawing!lead_time)'
  BY <1>3, <1>8 DEF PanelHolds, Drawing!Agree, Drawing!Completed
<1>10. s \in {"lead_time", "cycle_time"} => Drawing!Agree(p, Drawing!lead_time)'
  BY <1>3 DEF PanelHolds, Drawing!Agree
<1>11. s \in {"issue_age", "priority_mix"} => Drawing!Agree(p, Drawing!Open)'
  BY <1>4 DEF PanelHolds, Drawing!Agree
<1>12. s = "state_mix" => /\ Drawing!Agree(Drawing!StillOpen(p), Drawing!Open)'
                          /\ Drawing!Alive' \ {r[1] : r \in p} \subseteq touched'
  BY <1>4, <1>7 DEF PanelHolds, Drawing!Agree, Drawing!StillOpen
<1>13. /\ s = "workload" => /\ p.of \ Drawing!Open' \subseteq touched'
                            /\ p.total <= Limit => Drawing!Agree(p.of, Drawing!Open)'
       /\ s = "teams" => /\ p.of \ Drawing!lead_time' \subseteq touched'
                         /\ p.total <= Limit => Drawing!Agree(p.of, Drawing!lead_time)'
  BY <1>3, <1>4, <1>5, <1>7a DEF PanelHolds, Drawing!Agree
<1>14. /\ s = "overdue" => p \ Drawing!Open' \subseteq touched'
       /\ s \in {"projects", "cycles"} => p.of \ Drawing!Alive' \subseteq touched'
  BY <1>5, <1>6 DEF PanelHolds
<1>. QED  BY <1>9, <1>10, <1>11, <1>12, <1>13, <1>14 DEF PanelHolds

\* A limit that is not reached cuts off nothing.
LEMMA NothingIsCut ==
    ASSUME NEW S \in SUBSET Counted, NEW rank, NEW a \in Drawing!Cut(S, rank)
    PROVE  a.of \subseteq S /\ (a.total <= Limit => a.of = S)
<1>1. PICK T \in SUBSET Drawing!Groups(S) :
        /\ Drawing!First(S, rank, T)
        /\ a = [total |-> Cardinality(Drawing!Groups(S)), of |-> {i \in S : fact[i].part \in T}]
  BY AnalyticsConstants DEF Drawing!Cut
<1>2. a.of = {i \in S : fact[i].part \in T} /\ a.total = Cardinality(Drawing!Groups(S))
  BY <1>1
<1>3. IsFiniteSet(Drawing!Groups(S)) /\ Cardinality(Drawing!Groups(S)) \in Nat
  <2>1. IsFiniteSet(S)
    BY AnalyticsConstants, FS_Subset
  <2> DEFINE f == [i \in S |-> fact[i].part]
  <2>2. f \in Surjection(S, Drawing!Groups(S))
    BY DEF Surjection, Drawing!Groups
  <2>3. IsFiniteSet(Drawing!Groups(S))
    BY <2>1, <2>2, FS_Surjection
  <2>. QED  BY <2>3, FS_CardinalityType
<1>4. ASSUME a.total <= Limit  PROVE a.of = S
  <2>1. Cardinality(T) = Cardinality(Drawing!Groups(S))
    BY <1>1, <1>2, <1>3, <1>4, AnalyticsConstants DEF Drawing!First, Drawing!LegalAnalyticsConstants
  <2>2. T = Drawing!Groups(S)
    BY <1>3, <2>1, FS_Subset
  <2>. QED  BY <1>2, <2>2 DEF Drawing!Groups
<1>. QED  BY <1>2, <1>4

\* A statement's answer says what its panel is to say.
LEMMA AnswersHold ==
    ASSUME AnalyticsInv, page # None,
           NEW s \in {"creation", "completion", "lead_time", "cycle_time", "issue_age", "state_mix", "priority_mix",
                      "workload", "overdue", "teams", "projects", "cycles"},
           NEW a \in Drawing!Answers(s)
    PROVE  PanelHolds(s, a)
<1>1. /\ \A i \in Counted : fact[i] # None => fact[i] \in Drawing!FactType
      /\ page.today \in Int /\ None \notin Int /\ Stamped
  BY AnalyticsConstants DEF AnalyticsInv, Drawing!AnalyticsTypeOK, Drawing!LegalAnalyticsConstants
<1>2. /\ Drawing!Alive \subseteq Counted /\ Drawing!Open \subseteq Drawing!Alive
      /\ \A i \in Drawing!Alive : fact[i] # None
  BY DEF Drawing!Alive, Drawing!Live, Drawing!Open
<1>3. CASE s = "creation"
  <2>1. a = Drawing!creation_series
    BY <1>3 DEF Drawing!Answers
  <2>2. InWindow(a)
    BY <1>1, <2>1 DEF InWindow, Drawing!creation_series, Drawing!Issues, Drawing!FactType
  <2>. QED  BY <1>3, <2>2 DEF PanelHolds
<1>4. CASE s = "completion"
  <2>1. a = Drawing!completion_series
    BY <1>4 DEF Drawing!Answers
  <2>2. InWindow(a)
    BY <1>1, <2>1
    DEF InWindow, Drawing!completion_series, Drawing!Stopped, Drawing!Issues, Drawing!FactType, Drawing!Within
  <2>3. Drawing!Completed(a) = Drawing!lead_time
    <3>1. ASSUME NEW i \in Drawing!lead_time  PROVE i \in Drawing!Completed(a)
      <4>1. <<i, fact[i].completed_at, "completed">> \in a
        BY <2>1 DEF Drawing!completion_series, Drawing!lead_time, Drawing!TERMINAL
      <4>. QED  BY <4>1 DEF Drawing!Completed
    <3>2. ASSUME NEW r \in a, r[3] = "completed"  PROVE r[1] \in Drawing!lead_time
      <4>1. PICK c \in Drawing!TERMINAL : r \in {<<i, fact[i].completed_at, c>> : i \in Drawing!Stopped(c)}
        BY <2>1 DEF Drawing!completion_series
      <4>2. PICK i \in Drawing!Stopped(c) : r = <<i, fact[i].completed_at, c>>
        BY <4>1
      <4>. QED  BY <3>2, <4>2 DEF Drawing!lead_time
    <3>. QED  BY <3>1, <3>2 DEF Drawing!Completed
  <2>. QED  BY <1>4, <2>2, <2>3 DEF PanelHolds, Drawing!Agree
<1>5. CASE s \in {"lead_time", "cycle_time"}
  <2>1. a = Drawing!lead_time
    BY <1>5 DEF Drawing!Answers, Drawing!lead_time, Drawing!cycle_time, Drawing!Stopped
  <2>. QED  BY <1>5, <2>1 DEF PanelHolds, Drawing!Agree
<1>6. CASE s \in {"issue_age", "priority_mix"}
  <2>1. Drawing!priority_mix = Drawing!Open
    <3>1. \A i \in Drawing!Open : fact[i].part \in Shares \union {None}
      BY <1>1, <1>2 DEF Drawing!FactType
    <3>. QED  BY <3>1 DEF Drawing!priority_mix
  <2>2. a = Drawing!Open
    BY <1>6, <2>1 DEF Drawing!Answers, Drawing!issue_age
  <2>. QED  BY <1>6, <2>2 DEF PanelHolds, Drawing!Agree
<1>7. CASE s = "state_mix"
  <2>1. a = Drawing!state_mix
    BY <1>7 DEF Drawing!Answers
  <2>2. Drawing!StillOpen(a) = Drawing!Open
    <3>1. ASSUME NEW i \in Drawing!Open  PROVE i \in Drawing!StillOpen(a)
      <4>1. <<i, fact[i].category>> \in a /\ fact[i].category \notin Drawing!TERMINAL
        BY <2>1 DEF Drawing!state_mix, Drawing!Open
      <4>. QED  BY <4>1 DEF Drawing!StillOpen
    <3>2. ASSUME NEW r \in a, r[2] \notin Drawing!TERMINAL  PROVE r[1] \in Drawing!Open
      BY <2>1, <3>2 DEF Drawing!state_mix, Drawing!Open
    <3>. QED  BY <3>1, <3>2 DEF Drawing!StillOpen
  <2>3. Drawing!Alive \subseteq {r[1] : r \in a}
    <3>1. ASSUME NEW i \in Drawing!Alive  PROVE \E r \in a : r[1] = i
      <4>1. <<i, fact[i].category>> \in a
        BY <2>1 DEF Drawing!state_mix
      <4>2. <<i, fact[i].category>>[1] = i
        OBVIOUS
      <4>. QED  BY <4>1, <4>2
    <3>. QED  BY <3>1
  <2>. QED  BY <1>7, <2>2, <2>3 DEF PanelHolds, Drawing!Agree
<1>8. CASE s = "workload"
  <2>1. a \in Drawing!Cut(Drawing!Open, Drawing!BySize(Drawing!Open))
    BY <1>8 DEF Drawing!Answers
  <2>2. a.of \subseteq Drawing!Open /\ (a.total <= Limit => a.of = Drawing!Open)
    BY <1>2, <2>1, NothingIsCut
  <2>. QED  BY <1>8, <2>2 DEF PanelHolds, Drawing!Agree
<1>8a. CASE s = "teams"
  <2>1. Drawing!team_completion = Drawing!lead_time /\ Drawing!lead_time \subseteq Counted
    BY DEF Drawing!lead_time, Drawing!team_completion, Drawing!Stopped, Drawing!Issues
  <2>2. a \in Drawing!Cut(Drawing!lead_time, Drawing!BySize(Drawing!lead_time))
    BY <1>8a, <2>1 DEF Drawing!Answers
  <2>3. a.of \subseteq Drawing!lead_time /\ (a.total <= Limit => a.of = Drawing!lead_time)
    BY <2>1, <2>2, NothingIsCut
  <2>. QED  BY <1>8a, <2>3 DEF PanelHolds, Drawing!Agree
<1>9. CASE s = "overdue"
  <2>1. a = Drawing!overdue(page.today)
    BY <1>9 DEF Drawing!Answers
  <2>2. a \subseteq Drawing!Open
    BY <1>1, <1>2, <2>1 DEF Drawing!overdue, Drawing!Open, Stamped
  <2>. QED  BY <1>9, <2>2 DEF PanelHolds
<1>10. CASE s \in {"projects", "cycles"}
  <2>1. /\ Drawing!project_progress \subseteq Drawing!Alive /\ Drawing!cycle_progress \subseteq Drawing!Alive
        /\ \/ a \in Drawing!Cut(Drawing!project_progress, Drawing!BySize(Drawing!project_progress))
           \/ a \in Drawing!Cut(Drawing!cycle_progress, Drawing!ByStart(Drawing!cycle_progress))
    BY <1>10 DEF Drawing!Answers, Drawing!project_progress, Drawing!cycle_progress
  <2>2. a.of \subseteq Drawing!Alive
    BY <1>2, <2>1, NothingIsCut
  <2>. QED  BY <1>10, <2>2 DEF PanelHolds
<1>. QED  BY <1>3, <1>4, <1>5, <1>6, <1>7, <1>8, <1>8a, <1>9, <1>10

\* A change to an issue, noted once the page is begun.
LEMMA BecomesStep ==
    ASSUME AnalyticsInv, NEW i \in Counted, NEW f \in Drawing!FactType, Drawing!Becomes(i, f),
           f.category \in Drawing!TERMINAL => f.completed_at # None
    PROVE  AnalyticsInv'
<1>1. /\ at < 12 /\ changes < MaxChanges /\ changes' = changes + 1 /\ fact' = [fact EXCEPT ![i] = f]
      /\ touched' = IF page = None THEN {} ELSE touched \union {i}
      /\ UNCHANGED <<day, page, at, panel>>
  BY TwelveStatements DEF Drawing!Becomes
<1>2. Drawing!AnalyticsTypeOK /\ Drawing!Run' = Drawing!Run
  BY <1>1 DEF AnalyticsInv, Drawing!Run, Drawing!Statements
<1>3. changes' \in 0..MaxChanges
  BY <1>1, <1>2, AnalyticsConstants DEF Drawing!AnalyticsTypeOK, Drawing!LegalAnalyticsConstants
<1>4. Drawing!AnalyticsTypeOK'
  BY <1>1, <1>2, <1>3 DEF Drawing!AnalyticsTypeOK, Drawing!Statements
<1>5. Stamped'
  BY <1>1, <1>2 DEF AnalyticsInv, Stamped, Drawing!AnalyticsTypeOK, Drawing!TERMINAL
<1>6. ASSUME NEW s \in Drawing!Run  PROVE PanelHolds(s, panel[s])'
  <2>1. page # None
    BY <1>2 DEF AnalyticsInv, Drawing!Run
  <2>2. \A j \in Counted \ {i} : fact'[j] = fact[j]
    BY <1>1, <1>2 DEF Drawing!AnalyticsTypeOK
  <2>3. PanelHolds(s, panel[s]) /\ touched' = touched \union {i}
    BY <1>1, <2>1 DEF AnalyticsInv
  <2> DEFINE p == panel[s]
  <2>4. p' = p
    BY <1>1
  <2>5. PanelHolds(s, p)
    BY <2>3
  <2> HIDE DEF p
  <2>6. ASSUME NEW q, PanelHolds(s, q)  PROVE PanelHolds(s, q)'
    <3> DEFINE D == {i}
    <3>1. D \in SUBSET Counted /\ touched' = touched \union D /\ \A j \in Counted \ D : fact'[j] = fact[j]
      BY <2>2, <2>3
    <3> HIDE DEF D
    <3>. QED  BY <1>1, <2>6, <3>1, PanelKept
  <2>. QED  BY <2>4, <2>5, <2>6 DEF p
<1>. QED  BY <1>1, <1>2, <1>4, <1>5, <1>6 DEF AnalyticsInv

\* Issues that are filed, moved, shared out and archived.
LEMMA IssueChangeStep ==
    ASSUME AnalyticsInv, NEW i \in Counted,
           \/ \E s \in Shares \union {None} : Drawing!File(i, s) \/ Drawing!Share(i, s) \/ Drawing!ChangeTeam(i, s)
           \/ \E c \in Drawing!Categories : Drawing!Move(i, c)
           \/ Drawing!Archive(i)
    PROVE  AnalyticsInv'
<1>1. /\ day \in 1..MaxDay /\ None \notin Int
      /\ fact[i] # None => fact[i] \in Drawing!FactType
      /\ fact[i] # None /\ fact[i].category \in Drawing!TERMINAL => fact[i].completed_at # None
  BY AnalyticsConstants
  DEF AnalyticsInv, Drawing!AnalyticsTypeOK, Stamped, Drawing!LegalAnalyticsConstants
<1>2. ASSUME NEW s \in Shares \union {None}, Drawing!File(i, s)  PROVE AnalyticsInv'
  <2>1. Drawing!Filed(s) \in Drawing!FactType /\ Drawing!Filed(s).category \notin Drawing!TERMINAL
    BY <1>1 DEF Drawing!Filed, Drawing!FactType, Drawing!Categories, Drawing!TERMINAL
  <2>. QED  BY <1>2, <2>1, BecomesStep DEF Drawing!File
<1>3. ASSUME NEW s \in Shares \union {None}, Drawing!Share(i, s)  PROVE AnalyticsInv'
  <2> DEFINE f == [fact[i] EXCEPT !.part = s]
  <2>1. Drawing!Becomes(i, f) /\ fact[i] # None
    BY <1>3 DEF Drawing!Share, Drawing!Live
  <2>2. /\ f \in Drawing!FactType /\ f.category = fact[i].category /\ f.completed_at = fact[i].completed_at
    BY <1>1, <2>1 DEF Drawing!FactType
  <2> HIDE DEF f
  <2>. QED  BY <1>1, <2>1, <2>2, BecomesStep
<1>4. ASSUME NEW c \in Drawing!Categories, Drawing!Move(i, c)  PROVE AnalyticsInv'
  <2> DEFINE stamp == IF c \notin Drawing!TERMINAL THEN None
                      ELSE IF fact[i].completed_at = None THEN day ELSE fact[i].completed_at
             f == [fact[i] EXCEPT !.category = c, !.completed_at = stamp]
  <2>1. Drawing!Becomes(i, f) /\ fact[i] # None
    BY <1>4 DEF Drawing!Move, Drawing!Live
  <2>2. stamp \in (1..MaxDay) \union {None} /\ (c \in Drawing!TERMINAL => stamp # None)
    BY <1>1, <2>1 DEF Drawing!FactType
  <2> HIDE DEF stamp
  <2>3. f \in Drawing!FactType /\ f.category = c /\ f.completed_at = stamp
    BY <1>1, <2>1, <2>2 DEF Drawing!FactType
  <2> HIDE DEF f
  <2>. QED  BY <2>1, <2>2, <2>3, BecomesStep
<1>5. ASSUME NEW s \in Shares \union {None}, Drawing!ChangeTeam(i, s)  PROVE AnalyticsInv'
  <2> DEFINE f == [fact[i] EXCEPT !.category = "unstarted", !.part = s]
  <2>1. Drawing!Becomes(i, f) /\ fact[i] # None
    BY <1>5 DEF Drawing!ChangeTeam, Drawing!Live
  <2>2. f \in Drawing!FactType /\ f.category \notin Drawing!TERMINAL
    BY <1>1, <2>1 DEF Drawing!FactType, Drawing!Categories, Drawing!TERMINAL
  <2> HIDE DEF f
  <2>. QED  BY <2>1, <2>2, BecomesStep
<1>6. ASSUME Drawing!Archive(i)  PROVE AnalyticsInv'
  <2> DEFINE f == [fact[i] EXCEPT !.archived = TRUE]
  <2>1. Drawing!Becomes(i, f) /\ fact[i] # None
    BY <1>6 DEF Drawing!Archive, Drawing!Live
  <2>2. /\ f \in Drawing!FactType /\ f.category = fact[i].category /\ f.completed_at = fact[i].completed_at
    BY <1>1, <2>1 DEF Drawing!FactType
  <2> HIDE DEF f
  <2>. QED  BY <1>1, <2>1, <2>2, BecomesStep
<1>. QED  BY <1>2, <1>3, <1>4, <1>5, <1>6

\* A statement answers, and the panels read before it stay as they were.
LEMMA OverviewStep == ASSUME AnalyticsInv, Drawing!overview PROVE AnalyticsInv'
<1> DEFINE next == Drawing!Statements[at + 1]
<1>1. /\ page # None /\ at < 12 /\ at' = at + 1
      /\ UNCHANGED <<day, fact, page, touched, changes>>
  BY TwelveStatements DEF Drawing!overview
<1>2. PICK a \in Drawing!Answers(next) :
        panel' = [s \in Drawing!Run \union {next} |-> IF s \in Drawing!Run THEN panel[s] ELSE a]
  BY DEF Drawing!overview
<1>3. Drawing!AnalyticsTypeOK /\ at \in 0..11
  BY <1>1, TwelveStatements DEF AnalyticsInv, Drawing!AnalyticsTypeOK
<1>4. Drawing!Run' = Drawing!Run \union {next}
  BY <1>1, <1>3, RunGrows
<1>5. next \in {"creation", "completion", "lead_time", "cycle_time", "issue_age", "state_mix", "priority_mix",
                "workload", "overdue", "teams", "projects", "cycles"}
  BY <1>3, TwelveStatements
<1> HIDE DEF next
<1>6. at' \in 0..12 /\ Len(Drawing!Statements)' = 12
  BY <1>1, <1>3, TwelveStatements DEF Drawing!Statements
<1>7. DOMAIN panel' = Drawing!Run'
  BY <1>2, <1>4
<1>8. Drawing!AnalyticsTypeOK'
  BY <1>1, <1>3, <1>6, <1>7 DEF Drawing!AnalyticsTypeOK
<1>9. ASSUME NEW s \in Drawing!Run'  PROVE PanelHolds(s, panel[s])'
  <2>1. PICK p : p = panel'[s]
    OBVIOUS
  <2>2. PanelHolds(s, p)
    <3>1. CASE s \in Drawing!Run
      BY <1>2, <1>4, <2>1, <3>1 DEF AnalyticsInv
    <3>2. CASE s \notin Drawing!Run
      <4>1. s = next /\ p = a
        BY <1>2, <1>4, <2>1, <3>2
      <4>. QED  BY <1>1, <1>2, <1>5, <4>1, AnswersHold
    <3>. QED  BY <3>1, <3>2
  <2>3. PanelHolds(s, p)'
    <3> DEFINE D == {}
    <3>1. D \in SUBSET Counted /\ touched' = touched \union D /\ \A i \in Counted \ D : fact'[i] = fact[i]
      BY <1>1
    <3> HIDE DEF D
    <3>. QED  BY <1>1, <2>2, <3>1, PanelKept
  <2>. QED  BY <2>1, <2>3
<1>10. Stamped'
  BY <1>1 DEF AnalyticsInv, Stamped, Drawing!TERMINAL
<1>. QED  BY <1>1, <1>8, <1>9, <1>10 DEF AnalyticsInv

\* The page is begun, or a midnight passes: nothing that was read changes.
LEMMA ClockStep ==
    ASSUME AnalyticsInv, Drawing!Midnight \/ \E n \in Ranges : Drawing!Begin(n)
    PROVE  AnalyticsInv'
<1>1. /\ UNCHANGED <<fact, at, panel, touched, changes>>
      /\ Drawing!Run' = Drawing!Run /\ Drawing!AnalyticsTypeOK
  BY DEF Drawing!Midnight, Drawing!Begin, AnalyticsInv, Drawing!Run, Drawing!Statements
<1>2. Stamped'
  BY <1>1 DEF AnalyticsInv, Stamped, Drawing!TERMINAL
<1>3. CASE Drawing!Midnight
  <2>1. page' = page /\ day' = day + 1 /\ day' \in 1..MaxDay
    BY <1>1, <1>3, AnalyticsConstants
    DEF Drawing!Midnight, Drawing!AnalyticsTypeOK, Drawing!LegalAnalyticsConstants
  <2>2. Drawing!AnalyticsTypeOK'
    BY <1>1, <2>1 DEF Drawing!AnalyticsTypeOK, Drawing!Statements
  <2>3. ASSUME NEW s \in Drawing!Run'  PROVE PanelHolds(s, panel[s])'
    <3>1. PICK p : p = panel[s]
      OBVIOUS
    <3>2. PanelHolds(s, p) /\ p = panel'[s]
      BY <1>1, <3>1 DEF AnalyticsInv
    <3>3. PanelHolds(s, p)'
      <4> DEFINE D == {}
      <4>1. D \in SUBSET Counted /\ touched' = touched \union D /\ \A i \in Counted \ D : fact'[i] = fact[i]
        BY <1>1
      <4> HIDE DEF D
      <4>. QED  BY <2>1, <3>2, <4>1, PanelKept
    <3>. QED  BY <3>2, <3>3
  <2>. QED  BY <1>1, <1>2, <2>1, <2>2, <2>3 DEF AnalyticsInv
<1>4. ASSUME NEW n \in Ranges, Drawing!Begin(n)  PROVE AnalyticsInv'
  <2>1. /\ page = None /\ at = 0 /\ touched = {} /\ day' = day
        /\ page' = [today |-> day, start |-> day - (n - 1), days |-> n]
    BY <1>4 DEF Drawing!Begin, Drawing!analytics_window, AnalyticsInv
  <2>2. n \in Nat \ {0} /\ day \in 1..MaxDay /\ MaxDay \in Nat
    BY <1>1, AnalyticsConstants DEF Drawing!AnalyticsTypeOK, Drawing!LegalAnalyticsConstants
  <2>3. /\ page'.days \in Ranges /\ page'.today \in 1..day' /\ page'.start = page'.today - page'.days + 1
    BY <2>1, <2>2
  <2>4. Drawing!AnalyticsTypeOK'
    BY <1>1, <2>1, <2>3 DEF Drawing!AnalyticsTypeOK, Drawing!Statements
  <2>5. Drawing!Run' = {}
    BY <1>1, <2>1 DEF Drawing!Run
  <2>. QED  BY <1>1, <1>2, <2>1, <2>4, <2>5 DEF AnalyticsInv
<1>. QED  BY <1>3, <1>4

\* The page keeps what it promises.
LEMMA AnalyticsStep == ASSUME AnalyticsInv, [Drawing!AnalyticsNext]_analyticsVars PROVE AnalyticsInv'
<1>1. CASE UNCHANGED analyticsVars
  <2>1. UNCHANGED <<day, fact, page, at, panel, touched, changes>>
    BY <1>1 DEF analyticsVars
  <2>. QED
    BY <2>1 DEF AnalyticsInv, Drawing!AnalyticsTypeOK, Stamped, PanelHolds, InWindow, Drawing!Run,
       Drawing!Agree, Drawing!Completed, Drawing!StillOpen, Drawing!lead_time, Drawing!Stopped,
       Drawing!Issues, Drawing!Within, Drawing!window_bounds, Drawing!Open, Drawing!Alive, Drawing!Live,
       Drawing!TERMINAL, Drawing!Statements
<1>2. CASE Drawing!AnalyticsNext
  BY <1>2, IssueChangeStep, OverviewStep, ClockStep DEF Drawing!AnalyticsNext
<1>. QED  BY <1>1, <1>2

\* And begins with it.
LEMMA AnalyticsInitInv == ASSUME Drawing!AnalyticsInit PROVE AnalyticsInv
<1>1. /\ day = 1 /\ page = None /\ at = 0 /\ touched = {} /\ changes = 0 /\ DOMAIN panel = {}
  BY DEF Drawing!AnalyticsInit
<1>. PICK T \in {{}, Old} : \E s \in [T -> Shares \union {None}] :
        fact = [i \in Counted |-> IF i \in T THEN Drawing!Filed(s[i]) ELSE None]
  BY DEF Drawing!AnalyticsInit
<1>2. PICK s \in [T -> Shares \union {None}] :
        fact = [i \in Counted |-> IF i \in T THEN Drawing!Filed(s[i]) ELSE None]
  OBVIOUS
<1>3. \A i \in T : Drawing!Filed(s[i]).category \notin Drawing!TERMINAL
  BY DEF Drawing!Filed, Drawing!TERMINAL
<1>4. Drawing!Run = {}
  BY <1>1 DEF Drawing!Run
<1>5. MaxDay \in Nat \ {0} /\ MaxChanges \in Nat
  BY AnalyticsConstants DEF Drawing!LegalAnalyticsConstants
<1>6. \A i \in T : Drawing!Filed(s[i]) \in Drawing!FactType
  BY <1>1, <1>5 DEF Drawing!Filed, Drawing!FactType, Drawing!Categories
<1>7. Drawing!AnalyticsTypeOK
  BY <1>1, <1>2, <1>4, <1>5, <1>6, TwelveStatements DEF Drawing!AnalyticsTypeOK
<1>8. Stamped
  BY <1>2, <1>3 DEF Stamped
<1>. QED  BY <1>1, <1>4, <1>7, <1>8 DEF AnalyticsInv

\* When the twelve have run, the panels agree; and the chart holds every row.
LEMMA PanelsPromise == ASSUME AnalyticsInv PROVE Drawing!PanelsAgree /\ Drawing!ChartHoldsEveryRow
<1>1. ASSUME NEW rows, InWindow(rows), page # None  PROVE Drawing!dense_throughput(rows) = rows
  <2>1. page.start \in Int /\ page.days \in Nat \ {0}
    <3>1. page.days \in Nat \ {0} /\ page.today \in 1..day /\ page.start = page.today - page.days + 1
      BY <1>1, AnalyticsConstants DEF AnalyticsInv, Drawing!AnalyticsTypeOK, Drawing!LegalAnalyticsConstants
    <3>. QED  BY <3>1
  <2>2. ASSUME NEW r \in rows  PROVE \E n \in 0..(page.days - 1) : r[2] = page.start + n
    <3>1. r[2] \in Int /\ page.start <= r[2] /\ r[2] < page.start + page.days
      BY <1>1 DEF InWindow, Drawing!Within, Drawing!window_bounds
    <3>2. r[2] - page.start \in 0..(page.days - 1) /\ r[2] = page.start + (r[2] - page.start)
      BY <2>1, <3>1
    <3>. QED  BY <3>2
  <2>. QED  BY <2>2 DEF Drawing!dense_throughput
<1>2. ASSUME NEW s \in Drawing!Run  PROVE page # None /\ PanelHolds(s, panel[s])
  BY DEF AnalyticsInv, Drawing!Run
<1>3. Drawing!ChartHoldsEveryRow
  <2>1. ASSUME NEW s \in Drawing!Run \intersect {"creation", "completion"}
        PROVE  Drawing!dense_throughput(panel[s]) = panel[s]
    BY <1>1, <1>2 DEF PanelHolds
  <2>. QED  BY <2>1 DEF Drawing!ChartHoldsEveryRow
<1>4. ASSUME at = 12
      PROVE  {"creation", "completion", "lead_time", "cycle_time", "issue_age", "state_mix", "priority_mix",
              "workload", "overdue", "teams", "projects", "cycles"} \subseteq Drawing!Run
  <2> DEFINE Ran(s, n) == n \in 1..12 /\ Drawing!Statements[n] = s
  <2>1. /\ Ran("creation", 1) /\ Ran("completion", 2) /\ Ran("lead_time", 3) /\ Ran("cycle_time", 4)
        /\ Ran("issue_age", 5) /\ Ran("state_mix", 6) /\ Ran("priority_mix", 7) /\ Ran("workload", 8)
        /\ Ran("overdue", 9) /\ Ran("teams", 10) /\ Ran("projects", 11) /\ Ran("cycles", 12)
    BY DEF Drawing!Statements
  <2>2. \A s, n : Ran(s, n) => s \in Drawing!Run
    BY <1>4 DEF Drawing!Run
  <2> HIDE DEF Ran
  <2>. QED  BY <2>1, <2>2
<1>5. ASSUME at = 12
      PROVE  /\ Drawing!Agree(Drawing!Completed(Drawing!dense_throughput(panel["completion"])), panel["lead_time"])
             /\ Drawing!Agree(panel["lead_time"], panel["cycle_time"])
             /\ panel["teams"].total <= Limit => Drawing!Agree(panel["teams"].of, panel["cycle_time"])
             /\ panel["teams"].of \subseteq panel["cycle_time"] \union touched
  <2>1. /\ PanelHolds("completion", panel["completion"]) /\ PanelHolds("lead_time", panel["lead_time"])
        /\ PanelHolds("cycle_time", panel["cycle_time"]) /\ PanelHolds("teams", panel["teams"])
        /\ Drawing!dense_throughput(panel["completion"]) = panel["completion"]
    BY <1>2, <1>3, <1>4, <1>5 DEF Drawing!ChartHoldsEveryRow
  <2>2. /\ Drawing!Agree(Drawing!Completed(panel["completion"]), Drawing!lead_time)
        /\ Drawing!Agree(panel["lead_time"], Drawing!lead_time)
        /\ Drawing!Agree(panel["cycle_time"], Drawing!lead_time)
        /\ panel["teams"].total <= Limit => Drawing!Agree(panel["teams"].of, Drawing!lead_time)
        /\ panel["teams"].of \ Drawing!lead_time \subseteq touched
    BY <2>1 DEF PanelHolds
  <2>. QED  BY <2>1, <2>2 DEF Drawing!Agree
<1>6. ASSUME at = 12
      PROVE  /\ Drawing!Agree(panel["issue_age"], panel["priority_mix"])
             /\ Drawing!Agree(panel["issue_age"], Drawing!StillOpen(panel["state_mix"]))
             /\ panel["workload"].total <= Limit => Drawing!Agree(panel["workload"].of, panel["issue_age"])
             /\ panel["workload"].of \subseteq panel["issue_age"] \union touched
             /\ panel["overdue"] \subseteq panel["issue_age"] \union touched
  <2>1. /\ PanelHolds("issue_age", panel["issue_age"]) /\ PanelHolds("priority_mix", panel["priority_mix"])
        /\ PanelHolds("state_mix", panel["state_mix"]) /\ PanelHolds("workload", panel["workload"])
        /\ PanelHolds("overdue", panel["overdue"])
    BY <1>2, <1>4, <1>6
  <2>2. /\ Drawing!Agree(panel["issue_age"], Drawing!Open) /\ Drawing!Agree(panel["priority_mix"], Drawing!Open)
        /\ Drawing!Agree(Drawing!StillOpen(panel["state_mix"]), Drawing!Open)
        /\ panel["workload"].total <= Limit => Drawing!Agree(panel["workload"].of, Drawing!Open)
        /\ panel["workload"].of \ Drawing!Open \subseteq touched
        /\ panel["overdue"] \ Drawing!Open \subseteq touched
    BY <2>1 DEF PanelHolds
  <2>. QED  BY <2>2 DEF Drawing!Agree
<1>7. ASSUME at = 12
      PROVE  panel["projects"].of \union panel["cycles"].of \subseteq {r[1] : r \in panel["state_mix"]} \union touched
  <2>1. /\ PanelHolds("state_mix", panel["state_mix"]) /\ PanelHolds("projects", panel["projects"])
        /\ PanelHolds("cycles", panel["cycles"])
    BY <1>2, <1>4, <1>7
  <2>2. /\ Drawing!Alive \ {r[1] : r \in panel["state_mix"]} \subseteq touched
        /\ panel["projects"].of \ Drawing!Alive \subseteq touched
        /\ panel["cycles"].of \ Drawing!Alive \subseteq touched
    BY <2>1 DEF PanelHolds
  <2> DEFINE A == {r[1] : r \in panel["state_mix"]}
  <2> HIDE DEF A
  <2>3. Drawing!Alive \ A \subseteq touched
    BY <2>2 DEF A
  <2>4. panel["projects"].of \union panel["cycles"].of \subseteq A \union touched
    BY <2>2, <2>3
  <2>. QED  BY <2>4 DEF A
<1>. QED  BY <1>3, <1>5, <1>6, <1>7, TwelveStatements DEF Drawing!PanelsAgree

-----------------------------------------------------------------------------
(* A GraphQL document.  Who it is for is settled before any field is past   *)
(* the viewer; what a key would have been answered now is among what it     *)
(* would have been answered since it was asked for, and so is what a batch  *)
(* has read for it.                                                         *)
FieldStates ==
    [at : {"new", "viewer", "scope", "anonymous", "foreign"}]
      \union [at : {"in"}, ws : Joined] \union [at : {"loading"}, ws : Joined, key : Asking!LoaderKeys]

\* A field that got past the viewer found who the viewer is.
ViewerInv ==
    /\ field \in [Fields -> FieldStates]
    /\ \A f \in Fields : /\ field[f].at = "anonymous" => viewer = "nobody"
                         /\ field[f].at \in {"scope", "in", "loading", "foreign"} => viewer = "known"

\* The answer of a key now is among those it had since it was asked for.
TruthInv == \A k \in DOMAIN cache : Asking!Alone(k) \in truth[k] /\ truth[k] \subseteq Asking!Values

\* What a batch has found for a key is an answer the key had since then.
FlightOK(b) ==
    /\ b = [keys |-> b.keys, left |-> b.left, found |-> b.found]
    /\ DOMAIN b.found \subseteq b.keys
    /\ \A k \in DOMAIN b.found : k[1] \notin b.left
    /\ \A k \in b.keys : k[1] \notin b.left => Asking!Result(b.found, k) \in truth[k]

\* The inductive invariant of a GraphQL request.
RequestInv ==
    /\ Asking!RequestTypeOK /\ Asking!Straight(hang)
    /\ ViewerInv /\ TruthInv /\ (\A b \in flights : FlightOK(b))
    /\ Asking!BatchesAnswerAsAlone /\ Asking!EndsAgree

\* What a document assumes of its constants.
LEMMA RequestConstants ==
    /\ Asking!LegalRequestConstants /\ IsFiniteSet(Keyed)
    /\ \A S : Asking!Cardinality(S) = Cardinality(S)
BY LegalReadConstants
   DEF Asking!LegalRequestConstants, Asking!IsFiniteSet, IsFiniteSet, Asking!Cardinality, Cardinality

\* The first Most of a row's children, as a field alone would have had them.
FirstOf(of) ==
    CHOOSE T \in SUBSET of :
        /\ \A c \in T, d \in of \ T : c < d
        /\ Asking!Cardinality(T) = IF Asking!Cardinality(of) < Most THEN Asking!Cardinality(of) ELSE Most

\* row_number() <= limit returns them.
LEMMA LeastIsFirst ==
    ASSUME NEW of \in SUBSET Keyed
    PROVE  FirstOf(of) = Asking!Least(of) /\ Asking!Least(of) \subseteq of
<1> DEFINE R == {p \in of \X of : p[1] < p[2]}
           L == First(R, of, Most)
<1>1. IsFiniteSet(of) /\ of \subseteq Nat /\ Most \in Nat \ {0}
  BY RequestConstants, FS_Subset DEF Asking!LegalRequestConstants
<1>2. \A c, d \in of : <<c, d>> \in R <=> c < d
  OBVIOUS
<1>3. Linear(R, of)
  BY <1>1, <1>2 DEF Linear
<1>4. Asking!Least(of) = L
  <2>1. ASSUME NEW c \in of  PROVE {d \in of : d < c} = Below(R, of, c)
    BY <1>2 DEF Below
  <2>. QED  BY <2>1, RequestConstants DEF Asking!Least, First
<1> HIDE DEF R
<1>5. L \subseteq of /\ Cardinality(L) = IF Cardinality(of) < Most THEN Cardinality(of) ELSE Most
  <2>1. Cardinality(of) \in Nat
    BY <1>1, FS_CardinalityType
  <2>. QED  BY <1>1, <1>3, <2>1, FirstHolds
<1>6. ASSUME NEW c \in L, NEW d \in of \ L  PROVE <<c, d>> \in R
  <2>1. /\ c \in of /\ c # d /\ Cardinality(Below(R, of, c)) < Most
        /\ ~(Cardinality(Below(R, of, d)) < Most)
    BY <1>6 DEF First
  <2>2. <<c, d>> \in R \/ <<d, c>> \in R
    BY <1>3, <2>1 DEF Linear
  <2>3. CASE <<d, c>> \in R
    <3>1. d \in Below(R, of, c)
      BY <2>3 DEF Below
    <3>2. /\ Cardinality(Below(R, of, d)) < Cardinality(Below(R, of, c))
          /\ Cardinality(Below(R, of, d)) \in Nat /\ Cardinality(Below(R, of, c)) \in Nat
      BY <1>1, <1>3, <2>1, <3>1, RankIsStrict
    <3>. QED  BY <1>1, <2>1, <3>2
  <2>. QED  BY <2>2, <2>3
<1> HIDE DEF L
<1>7. \E T \in SUBSET of :
        /\ \A c \in T, d \in of \ T : c < d
        /\ Asking!Cardinality(T) = IF Asking!Cardinality(of) < Most THEN Asking!Cardinality(of) ELSE Most
  BY <1>2, <1>5, <1>6, RequestConstants
<1>8. /\ FirstOf(of) \in SUBSET of /\ \A c \in FirstOf(of), d \in of \ FirstOf(of) : c < d
      /\ Asking!Cardinality(FirstOf(of)) =
           IF Asking!Cardinality(of) < Most THEN Asking!Cardinality(of) ELSE Most
  BY <1>7 DEF FirstOf
<1>10. Cardinality(FirstOf(of)) = Cardinality(L)
  BY <1>5, <1>8, RequestConstants
<1>9. FirstOf(of) = L
  <2> DEFINE F == FirstOf(of)
  <2>1. /\ F \in SUBSET of /\ L \in SUBSET of /\ Cardinality(F) = Cardinality(L)
        /\ \A c \in F, d \in of \ F : <<c, d>> \in R
        /\ \A c \in L, d \in of \ L : <<c, d>> \in R
    BY <1>2, <1>5, <1>6, <1>8, <1>10
  <2> HIDE DEF F
  <2>2. F \subseteq L \/ L \subseteq F
    <3>1. SUFFICES ASSUME NEW c \in F \ L, NEW d \in L \ F  PROVE FALSE
      OBVIOUS
    <3>. QED  BY <1>3, <2>1 DEF Linear
  <2>3. IsFiniteSet(F) /\ IsFiniteSet(L)
    BY <1>1, <2>1, FS_Subset
  <2>4. F = L
    BY <2>1, <2>2, <2>3, FS_Subset
  <2>. QED  BY <2>4 DEF F
<1>. QED  BY <1>4, <1>5, <1>9

\* What the field alone would have been answered, when l is loaded and h hangs.
AloneOf(l, h, k) ==
    LET of == IF Home[k[2]] = k[1] THEN h[k[2]] ELSE {}
    IN  IF l \in Asking!Rows THEN (IF of = {} THEN None ELSE of)
        ELSE IF l = "labels" THEN of
        ELSE IF l # "dependencies" THEN FirstOf(of)
        ELSE [blocks |-> of, blocked_by |-> {j \in Keyed : Home[j] = k[1] /\ Home[k[2]] = k[1] /\ k[2] \in h[j]}]

\* It is that, before a step and after it.
LEMMA AloneNow ==
    ASSUME NEW k
    PROVE  /\ Asking!Alone(k) = AloneOf(loader, hang, k)
           /\ Asking!Alone(k)' = AloneOf(loader', hang', k)
BY DEF Asking!Alone, AloneOf, FirstOf

\* And a value of what is loaded.
LEMMA AloneIsAValue ==
    ASSUME NEW k \in Asking!LoaderKeys, NEW l \in Asking!Loaders, NEW h \in [Keyed -> SUBSET Keyed]
    PROVE  AloneOf(l, h, k) \in IF l = "dependencies" THEN [blocks : SUBSET Keyed, blocked_by : SUBSET Keyed]
                                ELSE {None} \union SUBSET Keyed
<1> DEFINE of == IF Home[k[2]] = k[1] THEN h[k[2]] ELSE {}
           by == {j \in Keyed : Home[j] = k[1] /\ Home[k[2]] = k[1] /\ k[2] \in h[j]}
<1>1. of \in SUBSET Keyed /\ by \in SUBSET Keyed
  BY DEF Asking!LoaderKeys
<1>2. AloneOf(l, h, k) = IF l \in Asking!Rows THEN (IF of = {} THEN None ELSE of)
                         ELSE IF l = "labels" THEN of
                         ELSE IF l # "dependencies" THEN FirstOf(of)
                         ELSE [blocks |-> of, blocked_by |-> by]
  BY DEF AloneOf
<1> HIDE DEF of, by
<1>3. FirstOf(of) \in SUBSET Keyed
  BY <1>1, LeastIsFirst
<1>4. CASE l = "dependencies"
  <2>1. AloneOf(l, h, k) = [blocks |-> of, blocked_by |-> by]
    BY <1>2, <1>4 DEF Asking!Rows
  <2>. QED  BY <1>1, <1>4, <2>1
<1>5. CASE l # "dependencies"
  <2>1. AloneOf(l, h, k) \in {None, of, FirstOf(of)}
    BY <1>2, <1>5
  <2>. QED  BY <1>1, <1>3, <1>5, <2>1
<1>. QED  BY <1>4, <1>5

\* The rows of a statement, and what it makes of an id without one.
LEMMA StatementRows ==
    ASSUME NEW w, NEW S \in SUBSET Keyed, loader \in Asking!Loaders
    PROVE  /\ loader \in Asking!Rows \union {"labels"} => Asking!Statement(w, S) = Asking!Found(w, S)
           /\ loader \in {"milestones", "updates", "initiative_updates"} =>
                Asking!Statement(w, S) = Asking!Ranked(w, S)
           /\ loader = "dependencies" =>
                Asking!Statement(w, S) = Asking!list_dependencies_for_projects(w, S)
BY DEF Asking!Statement, Asking!Loaders, Asking!Rows, Asking!issues, Asking!cycles, Asking!projects,
   Asking!contents_for_documents, Asking!contents_for_revisions, Asking!list_for_issues,
   Asking!list_milestones_for_projects, Asking!list_updates_for_projects, Asking!list_updates_for_initiatives

\* What a loader makes of a key: its row, or what stands for none.
LEMMA ResultCases ==
    ASSUME NEW found, NEW k, loader \in Asking!Loaders
    PROVE  /\ k \in DOMAIN found => Asking!Result(found, k) = found[k]
           /\ k \notin DOMAIN found =>
                Asking!Result(found, k) = IF loader \in Asking!Rows THEN None
                                          ELSE IF loader = "dependencies" THEN Asking!NoDependencies ELSE {}
BY DEF Asking!Result, Asking!Loaders, Asking!Rows, Asking!OrElse, Asking!issue_loader, Asking!cycle_loader,
   Asking!project_loader, Asking!content_loader, Asking!issue_label_loader, Asking!project_milestones_loader,
   Asking!project_updates_loader, Asking!initiative_updates_loader, Asking!project_dependencies_loader

\* A key that no statement has changed the row of is made the same of.
LEMMA ResultAlike ==
    ASSUME loader \in Asking!Loaders, NEW f, NEW g, NEW k, k \in DOMAIN f <=> k \in DOMAIN g,
           k \in DOMAIN f => f[k] = g[k]
    PROVE  Asking!Result(f, k) = Asking!Result(g, k)
BY ResultCases

\* And it is made without reading the rows again.
LEMMA ResultNext ==
    ASSUME loader' = loader, NEW f, NEW k
    PROVE  Asking!Result(f, k)' = Asking!Result(f, k)
BY DEF Asking!Result

\* The statement of a workspace answers each of its keys as if there were no other.
LEMMA FetchAnswersAlone ==
    ASSUME loader \in Asking!Loaders, hang \in [Keyed -> SUBSET Keyed], Asking!Straight(hang),
           NEW S \in SUBSET Keyed, NEW k \in Asking!LoaderKeys, k[2] \in S, NEW found, NEW rows,
           rows = Asking!Statement(k[1], S),
           k \in DOMAIN found <=> k[2] \in DOMAIN rows,
           k[2] \in DOMAIN rows => found[k] = rows[k[2]]
    PROVE  Asking!Result(found, k) = Asking!Alone(k)
<1> DEFINE w == k[1]
           i == k[2]
           of == IF Home[i] = w THEN hang[i] ELSE {}
           by == {j \in Keyed : Home[j] = w /\ Home[i] = w /\ i \in hang[j]}
<1>1. of \in SUBSET Keyed /\ i \in Keyed /\ i \in S
  OBVIOUS
<1>2. Asking!Alone(k) = IF loader \in Asking!Rows THEN (IF of = {} THEN None ELSE of)
                        ELSE IF loader = "labels" THEN of
                        ELSE IF loader # "dependencies" THEN FirstOf(of)
                        ELSE [blocks |-> of, blocked_by |-> by]
  BY AloneNow DEF AloneOf
<1>3. CASE loader \in Asking!Rows \union {"labels"}
  <2>1. rows = [j \in {j \in Asking!Own(w, S) : hang[j] # {}} |-> hang[j]]
    BY <1>3, StatementRows DEF Asking!Found
  <2>2. i \in DOMAIN rows <=> Home[i] = w /\ hang[i] # {}
    BY <2>1 DEF Asking!Own
  <2>3. i \in DOMAIN rows => rows[i] = of /\ of # {}
    BY <2>1, <2>2
  <2>4. i \notin DOMAIN rows => of = {}
    BY <2>2
  <2> HIDE DEF of, by
  <2>5. loader # "dependencies" /\ (loader = "labels" => loader \notin Asking!Rows)
    BY <1>3 DEF Asking!Rows
  <2>6. CASE i \in DOMAIN rows
    <3>1. Asking!Result(found, k) = of
      BY <2>3, <2>6, ResultCases
    <3>. QED  BY <1>2, <1>3, <2>3, <2>5, <2>6, <3>1
  <2>7. CASE i \notin DOMAIN rows
    <3>1. Asking!Result(found, k) = IF loader \in Asking!Rows THEN None ELSE {}
      BY <2>5, <2>7, ResultCases
    <3>. QED  BY <1>2, <1>3, <2>4, <2>5, <2>7, <3>1
  <2>. QED  BY <2>6, <2>7
<1>4. CASE loader \in {"milestones", "updates", "initiative_updates"}
  <2>1. rows = [j \in Asking!Own(w, S) |-> Asking!Least(hang[j])]
    BY <1>4, StatementRows DEF Asking!Ranked
  <2>2. i \in DOMAIN rows <=> Home[i] = w
    BY <2>1 DEF Asking!Own
  <2>3. i \in DOMAIN rows => rows[i] = FirstOf(of)
    <3>1. FirstOf(of) = Asking!Least(of)
      BY <1>1, LeastIsFirst
    <3>. QED  BY <2>1, <2>2, <3>1
  <2>4. i \notin DOMAIN rows => FirstOf(of) = {}
    <3>1. Asking!Least(of) \subseteq of /\ FirstOf(of) = Asking!Least(of)
      BY <1>1, LeastIsFirst
    <3>. QED  BY <2>2, <3>1
  <2> HIDE DEF of, by
  <2>5. loader # "dependencies" /\ loader # "labels" /\ loader \notin Asking!Rows
    BY <1>4 DEF Asking!Rows
  <2>6. Asking!Result(found, k) = FirstOf(of)
    BY <2>3, <2>4, <2>5, ResultCases
  <2>. QED  BY <1>2, <2>5, <2>6
<1>5. CASE loader = "dependencies"
  <2>1. rows = Asking!list_dependencies_for_projects(w, S)
    BY <1>5, StatementRows
  <2>2. (IF Home[i] = w THEN {l \in hang[i] : Home[l] = w} ELSE {}) = of
    BY <1>1, <1>5 DEF Asking!Straight
  <2>3. i \in DOMAIN rows /\ rows[i] = [blocks |-> of, blocked_by |-> by]
    BY <1>1, <2>1, <2>2 DEF Asking!list_dependencies_for_projects
  <2> HIDE DEF of, by
  <2>4. loader # "labels" /\ loader \notin Asking!Rows
    BY <1>5 DEF Asking!Rows
  <2>5. Asking!Result(found, k) = rows[i]
    BY <2>3, ResultCases
  <2>. QED  BY <1>2, <1>5, <2>3, <2>4, <2>5
<1>. QED  BY <1>3, <1>4, <1>5 DEF Asking!Loaders

\* What a step that leaves the rows and the answers alone leaves of the rest.
RowsKeptStill == UNCHANGED <<loader, hang, cache, flights, truth, writes>>

\* Who the document is for is settled with the rows left alone.
LEMMA ViewerStep ==
    ASSUME RequestInv, RowsKeptStill, alive' \in BOOLEAN, viewer' \in {"none", "asked", "known", "nobody"},
           ViewerInv'
    PROVE  RequestInv'
<1>1. UNCHANGED <<loader, hang, cache, flights, truth, writes>>
  BY DEF RowsKeptStill
<1>2. \A f \in Fields : field'[f].at \in {"new", "viewer", "scope", "in", "loading", "anonymous", "foreign"}
  BY DEF ViewerInv, FieldStates
<1>3. Asking!RequestTypeOK'
  BY <1>1, <1>2 DEF RequestInv, Asking!RequestTypeOK, Asking!Entries, Asking!Values, Asking!LoaderKeys, Asking!Loaders,
     Asking!Rows
<1>4. TruthInv' /\ Asking!Straight(hang)'
  BY <1>1, AloneNow DEF RequestInv, TruthInv, Asking!Straight, Asking!Values
<1>5. ASSUME NEW b \in flights'  PROVE FlightOK(b)'
  <2>1. FlightOK(b) /\ \A k : Asking!Result(b.found, k)' = Asking!Result(b.found, k)
    BY <1>1, ResultNext DEF RequestInv
  <2>. QED  BY <1>1, <2>1 DEF FlightOK
<1>6. Asking!BatchesAnswerAsAlone' /\ Asking!EndsAgree'
  BY <1>1 DEF RequestInv, Asking!BatchesAnswerAsAlone, Asking!EndsAgree
<1>. QED  BY <1>3, <1>4, <1>5, <1>6 DEF RequestInv

\* The fields, while the viewer is asked for and the scope is looked up.
LEMMA FieldStep ==
    ASSUME RequestInv,
           \/ \E f \in Fields : \/ Asking!viewer_user_id(f) \/ Asking!Identified(f)
                                \/ \E w \in Slugs : Asking!authorized_scope(f, w)
           \/ Asking!authenticate \/ Asking!Logout
    PROVE  RequestInv'
<1>1. /\ ViewerInv /\ alive \in BOOLEAN /\ viewer \in {"none", "asked", "known", "nobody"}
  BY DEF RequestInv, Asking!RequestTypeOK
<1>2. ASSUME NEW f \in Fields, Asking!viewer_user_id(f)  PROVE RequestInv'
  <2>1. /\ field' = [field EXCEPT ![f] = [at |-> "viewer"]] /\ alive' = alive /\ RowsKeptStill
        /\ viewer' = IF viewer = "none" THEN "asked" ELSE viewer
    BY <1>2 DEF Asking!viewer_user_id, Asking!Viewer, Asking!Set, RowsKeptStill
  <2>2. [at |-> "viewer"] \in FieldStates
    BY DEF FieldStates
  <2>3. ViewerInv'
    BY <1>1, <2>1, <2>2 DEF ViewerInv
  <2>. QED  BY <1>1, <2>1, <2>3, ViewerStep
<1>3. ASSUME NEW f \in Fields, Asking!Identified(f)  PROVE RequestInv'
  <2> DEFINE v == [field[f] EXCEPT !.at = IF viewer = "known" THEN "scope" ELSE "anonymous"]
  <2>1. /\ field' = [field EXCEPT ![f] = v] /\ alive' = alive /\ viewer' = viewer /\ RowsKeptStill
        /\ field[f].at = "viewer" /\ viewer \in {"known", "nobody"}
    BY <1>3 DEF Asking!Identified, Asking!Set, RowsKeptStill
  <2>2. field[f] \in [at : {"new", "viewer", "scope", "anonymous", "foreign"}]
    BY <1>1, <2>1 DEF ViewerInv, FieldStates
  <2>3. v \in FieldStates /\ v.at = IF viewer = "known" THEN "scope" ELSE "anonymous"
    BY <2>2 DEF FieldStates
  <2> HIDE DEF v
  <2>4. ViewerInv'
    BY <1>1, <2>1, <2>3 DEF ViewerInv
  <2>. QED  BY <1>1, <2>1, <2>4, ViewerStep
<1>4. ASSUME NEW f \in Fields, NEW w \in Slugs, Asking!authorized_scope(f, w)  PROVE RequestInv'
  <2> DEFINE v == IF w \in Joined THEN [at |-> "in", ws |-> w] ELSE [at |-> "foreign"]
  <2>1. /\ field' = [field EXCEPT ![f] = v] /\ alive' = alive /\ viewer' = viewer /\ RowsKeptStill
        /\ field[f].at = "scope"
    BY <1>4 DEF Asking!authorized_scope, Asking!Set, RowsKeptStill
  <2>2. v \in FieldStates /\ v.at \in {"in", "foreign"}
    BY DEF FieldStates
  <2> HIDE DEF v
  <2>3. ViewerInv'
    BY <1>1, <2>1, <2>2 DEF ViewerInv
  <2>. QED  BY <1>1, <2>1, <2>3, ViewerStep
<1>5. ASSUME Asking!authenticate  PROVE RequestInv'
  <2>1. /\ viewer = "asked" /\ viewer' \in {"known", "nobody"} /\ alive' = alive /\ field' = field /\ RowsKeptStill
    BY <1>5 DEF Asking!authenticate, RowsKeptStill
  <2>2. ViewerInv'
    BY <1>1, <2>1 DEF ViewerInv
  <2>. QED  BY <1>1, <2>1, <2>2, ViewerStep
<1>6. ASSUME Asking!Logout  PROVE RequestInv'
  <2>1. alive' = FALSE /\ UNCHANGED <<viewer, field>> /\ RowsKeptStill
    BY <1>6 DEF Asking!Logout, RowsKeptStill
  <2>2. ViewerInv'
    BY <1>1, <2>1 DEF ViewerInv
  <2>. QED  BY <1>1, <2>1, <2>2, ViewerStep
<1>. QED  BY <1>2, <1>3, <1>4, <1>5, <1>6

\* A key not asked for before is queued, and what it would be answered noted.
LEMMA LoadStep ==
    ASSUME RequestInv, NEW f \in Fields, NEW i \in Keyed, Asking!Load(f, i)
    PROVE  RequestInv'
<1> DEFINE k == <<field[f].ws, i>>
           v == [at |-> "loading", ws |-> field[f].ws, key |-> k]
<1>1. /\ field[f].at = "in" /\ field' = [field EXCEPT ![f] = v]
      /\ UNCHANGED <<loader, hang, alive, viewer, flights, writes>>
      /\ IF k \in DOMAIN cache THEN UNCHANGED <<cache, truth>>
         ELSE cache' = Asking!With(cache, k, [is |-> "queued"]) /\ truth' = Asking!With(truth, k, {Asking!Alone(k)})
  BY DEF Asking!Load, Asking!Set
<1>2. ViewerInv /\ TruthInv /\ Asking!RequestTypeOK /\ alive \in BOOLEAN /\ viewer \in {"none", "asked", "known", "nobody"}
  BY DEF RequestInv, Asking!RequestTypeOK
<1>3. field[f] \in [at : {"in"}, ws : Joined]
  BY <1>1, <1>2 DEF ViewerInv, FieldStates
<1>4. k \in Asking!LoaderKeys /\ v \in FieldStates /\ v.at = "loading"
  BY <1>3 DEF Asking!LoaderKeys, FieldStates
<1> HIDE DEF k, v
<1>5. ViewerInv'
  BY <1>1, <1>2, <1>4 DEF ViewerInv
<1>6. CASE k \in DOMAIN cache
  BY <1>1, <1>2, <1>5, <1>6, ViewerStep DEF RowsKeptStill
<1>7. CASE k \notin DOMAIN cache
  <2>1. /\ DOMAIN cache' = DOMAIN cache \union {k} /\ DOMAIN truth' = DOMAIN truth \union {k}
        /\ DOMAIN truth = DOMAIN cache
        /\ \A l \in DOMAIN cache : cache'[l] = cache[l] /\ truth'[l] = truth[l]
        /\ cache'[k] = [is |-> "queued"] /\ truth'[k] = {Asking!Alone(k)}
    BY <1>1, <1>2, <1>7 DEF Asking!With, Asking!RequestTypeOK
  <2>2. Asking!Values' = Asking!Values /\ Asking!Alone(k) \in Asking!Values
    BY <1>1, <1>2, <1>4, AloneNow, AloneIsAValue DEF Asking!Values, Asking!RequestTypeOK
  <2>3. \A l \in DOMAIN cache' : Asking!Alone(l)' = Asking!Alone(l)
    BY <1>1, AloneNow
  <2>4. TruthInv'
    BY <1>2, <2>1, <2>2, <2>3 DEF TruthInv
  <2>5. Asking!Entries' = Asking!Entries /\ [is |-> "queued"] \in Asking!Entries
    BY <2>2 DEF Asking!Entries
  <2>6. \A g \in Fields : field'[g].at \in {"new", "viewer", "scope", "in", "loading", "anonymous", "foreign"}
    BY <1>5 DEF ViewerInv, FieldStates
  <2>7. Asking!RequestTypeOK'
    BY <1>1, <1>2, <1>4, <2>1, <2>5, <2>6 DEF Asking!RequestTypeOK, Asking!LoaderKeys, Asking!Loaders, Asking!Rows
  <2>8. ASSUME NEW b \in flights'  PROVE FlightOK(b)'
    <3>1. FlightOK(b) /\ b.keys \subseteq DOMAIN cache
      BY <1>1, <1>2 DEF RequestInv, Asking!RequestTypeOK
    <3>2. \A l : Asking!Result(b.found, l)' = Asking!Result(b.found, l)
      BY <1>1, ResultNext
    <3>. QED  BY <2>1, <3>1, <3>2 DEF FlightOK
  <2>9. Asking!BatchesAnswerAsAlone'
    BY <2>1 DEF RequestInv, Asking!BatchesAnswerAsAlone
  <2>10. Asking!EndsAgree' /\ Asking!Straight(hang)'
    BY <1>1 DEF RequestInv, Asking!EndsAgree, Asking!Straight
  <2>. QED  BY <1>5, <2>4, <2>7, <2>8, <2>9, <2>10 DEF RequestInv
<1>. QED  BY <1>6, <1>7

\* What a step that leaves the rows and what they would answer alone leaves.
LEMMA BatchStep ==
    ASSUME RequestInv, UNCHANGED <<loader, hang, alive, viewer, field, truth, writes>>,
           DOMAIN cache' = DOMAIN cache, \A k \in DOMAIN cache : cache'[k] \in Asking!Entries,
           \A b \in flights' : b.keys \subseteq DOMAIN cache /\ b.left \subseteq Joined /\ FlightOK(b),
           \A k \in DOMAIN cache : cache'[k].is = "answered" => cache'[k].value \in truth[k],
           loader = "dependencies" => \A b \in flights' : \A k, l \in DOMAIN b.found :
             k[1] = l[1] => (l[2] \in b.found[k].blocks <=> k[2] \in b.found[l].blocked_by)
    PROVE  RequestInv'
<1>1. /\ Asking!RequestTypeOK /\ Asking!Straight(hang) /\ ViewerInv /\ TruthInv
      /\ Asking!Values' = Asking!Values /\ Asking!Entries' = Asking!Entries
  BY DEF RequestInv, Asking!Values, Asking!Entries
<1>2. Asking!RequestTypeOK'
  BY <1>1 DEF Asking!RequestTypeOK, Asking!LoaderKeys, Asking!Loaders, Asking!Rows
<1>3. ViewerInv' /\ Asking!Straight(hang)'
  BY <1>1 DEF ViewerInv, Asking!Straight
<1>4. TruthInv'
  <2>1. \A k : Asking!Alone(k)' = Asking!Alone(k)
    BY AloneNow
  <2>. QED  BY <1>1, <2>1 DEF TruthInv
<1>5. ASSUME NEW b \in flights'  PROVE FlightOK(b)'
  <2>1. FlightOK(b) /\ \A k : Asking!Result(b.found, k)' = Asking!Result(b.found, k)
    BY ResultNext
  <2>. QED  BY <2>1 DEF FlightOK
<1>6. Asking!BatchesAnswerAsAlone' /\ Asking!EndsAgree'
  BY DEF Asking!BatchesAnswerAsAlone, Asking!EndsAgree
<1>. QED  BY <1>2, <1>3, <1>4, <1>5, <1>6 DEF RequestInv

\* The keys queued leave together.
LEMMA DispatchStep == ASSUME RequestInv, Asking!Dispatch PROVE RequestInv'
<1> DEFINE S == {k \in DOMAIN cache : cache[k].is = "queued"}
           new == [keys |-> S, left |-> {k[1] : k \in S}, found |-> [k \in {} |-> None]]
<1>1. /\ cache' = [k \in DOMAIN cache |-> IF k \in S THEN [is |-> "flying"] ELSE cache[k]]
      /\ flights' = flights \union {new} /\ UNCHANGED <<loader, hang, alive, viewer, field, truth, writes>>
  BY DEF Asking!Dispatch, Asking!Mark
<1>2. /\ DOMAIN cache \subseteq Joined \X Keyed /\ \A k \in DOMAIN cache : cache[k] \in Asking!Entries
      /\ Asking!BatchesAnswerAsAlone /\ Asking!EndsAgree
      /\ \A b \in flights : b.keys \subseteq DOMAIN cache /\ b.left \subseteq Joined /\ FlightOK(b)
  BY DEF RequestInv, Asking!RequestTypeOK, Asking!LoaderKeys
<1>3. /\ new.keys = S /\ new.left = {k[1] : k \in S} /\ DOMAIN new.found = {}
      /\ new = [keys |-> new.keys, left |-> new.left, found |-> new.found]
  OBVIOUS
<1>4. S \subseteq DOMAIN cache
  OBVIOUS
<1> HIDE DEF S, new
<1>5. new.keys \subseteq DOMAIN cache /\ new.left \subseteq Joined /\ FlightOK(new)
  BY <1>2, <1>3, <1>4 DEF FlightOK
<1>6. [is |-> "flying"] \in Asking!Entries
  BY DEF Asking!Entries
<1>7. /\ DOMAIN cache' = DOMAIN cache /\ \A k \in DOMAIN cache : cache'[k] \in Asking!Entries
      /\ \A k \in DOMAIN cache : cache'[k].is = "answered" => cache'[k].value \in truth[k]
  BY <1>1, <1>2, <1>6 DEF Asking!BatchesAnswerAsAlone
<1>8. loader = "dependencies" => \A b \in flights' : \A k, l \in DOMAIN b.found :
        k[1] = l[1] => (l[2] \in b.found[k].blocks <=> k[2] \in b.found[l].blocked_by)
  BY <1>1, <1>2, <1>3 DEF Asking!EndsAgree
<1>. QED  BY <1>1, <1>2, <1>5, <1>7, <1>8, BatchStep

\* A batch's keys are answered, or all fail.
LEMMA ResolveStep ==
    ASSUME RequestInv, NEW b \in flights, Asking!Resolve(b) \/ Asking!Raise(b)
    PROVE  RequestInv'
<1>1. /\ DOMAIN cache \subseteq Asking!LoaderKeys /\ \A k \in DOMAIN cache : cache[k] \in Asking!Entries
      /\ Asking!BatchesAnswerAsAlone /\ Asking!EndsAgree /\ TruthInv
      /\ \A c \in flights : c.keys \subseteq DOMAIN cache /\ c.left \subseteq Joined /\ FlightOK(c)
  BY DEF RequestInv, Asking!RequestTypeOK
<1>2. /\ flights' \subseteq flights /\ UNCHANGED <<loader, hang, alive, viewer, field, truth, writes>>
      /\ DOMAIN cache' = DOMAIN cache /\ \A k \in DOMAIN cache \ b.keys : cache'[k] = cache[k]
  BY DEF Asking!Resolve, Asking!Raise, Asking!Mark
<1>3. ASSUME NEW k \in b.keys
      PROVE  cache'[k] \in Asking!Entries /\ (cache'[k].is = "answered" => cache'[k].value \in truth[k])
  <2>0. k \in DOMAIN cache
    BY <1>1
  <2>1. CASE Asking!Resolve(b)
    <3>1. cache'[k] = [is |-> "answered", value |-> Asking!Result(b.found, k)] /\ b.left = {}
      BY <2>0, <2>1 DEF Asking!Resolve
    <3>2. Asking!Result(b.found, k) \in truth[k] /\ truth[k] \subseteq Asking!Values
      BY <1>1, <2>0, <3>1 DEF FlightOK, TruthInv
    <3>. QED  BY <3>1, <3>2 DEF Asking!Entries
  <2>2. CASE Asking!Raise(b)
    <3>1. cache'[k] = [is |-> "failed"]
      BY <2>0, <2>2 DEF Asking!Raise, Asking!Mark
    <3>. QED  BY <3>1 DEF Asking!Entries
  <2>. QED  BY <2>1, <2>2
<1>4. /\ \A k \in DOMAIN cache : cache'[k] \in Asking!Entries
      /\ \A k \in DOMAIN cache : cache'[k].is = "answered" => cache'[k].value \in truth[k]
  BY <1>1, <1>2, <1>3 DEF Asking!BatchesAnswerAsAlone
<1>5. loader = "dependencies" => \A c \in flights' : \A k, l \in DOMAIN c.found :
        k[1] = l[1] => (l[2] \in c.found[k].blocks <=> k[2] \in c.found[l].blocked_by)
  BY <1>1, <1>2 DEF Asking!EndsAgree
<1>. QED  BY <1>1, <1>2, <1>4, <1>5, BatchStep

\* A batch is its three fields.
LEMMA BatchIsItsParts ==
    ASSUME NEW d, NEW x, NEW u, NEW v, d \in [keys : {x}, left : {u}, found : {v}]
    PROVE  d = [keys |-> x, left |-> u, found |-> v]
OBVIOUS

\* A statement reads a workspace's keys of a batch.
LEMMA FetchStep ==
    ASSUME RequestInv, NEW b \in flights, NEW w \in Slugs, Asking!Fetch(b, w)
    PROVE  RequestInv'
<1> DEFINE S == {k[2] : k \in {k \in b.keys : k[1] = w}}
           rows == Asking!Statement(w, S)
           New == {<<w, i>> : i \in DOMAIN rows}
           found == [k \in DOMAIN b.found \union New |-> IF k \in New THEN rows[k[2]] ELSE b.found[k]]
           c == [b EXCEPT !.left = @ \ {w}, !.found = found]
<1>1. /\ w \in b.left /\ flights' = (flights \ {b}) \union {c}
      /\ UNCHANGED <<loader, hang, alive, viewer, field, cache, truth, writes>>
  BY DEF Asking!Fetch
<1>2. /\ DOMAIN cache \subseteq Asking!LoaderKeys /\ \A k \in DOMAIN cache : cache[k] \in Asking!Entries
      /\ loader \in Asking!Loaders /\ hang \in [Keyed -> SUBSET Keyed] /\ Asking!Straight(hang)
      /\ Asking!BatchesAnswerAsAlone /\ Asking!EndsAgree /\ TruthInv
      /\ \A d \in flights : d.keys \subseteq DOMAIN cache /\ d.left \subseteq Joined /\ FlightOK(d)
  BY DEF RequestInv, Asking!RequestTypeOK
<1>3. /\ b = [keys |-> b.keys, left |-> b.left, found |-> b.found] /\ DOMAIN b.found \subseteq b.keys
      /\ b.keys \subseteq Asking!LoaderKeys /\ w \in Joined
      /\ \A k \in DOMAIN b.found : k[1] \notin b.left
      /\ \A k \in b.keys : k[1] \notin b.left => Asking!Result(b.found, k) \in truth[k]
  BY <1>1, <1>2 DEF FlightOK
<1>4. c = [keys |-> b.keys, left |-> b.left \ {w}, found |-> found]
  <2> HIDE DEF found
  <2>1. b \in [keys : {b.keys}, left : {b.left}, found : {b.found}]
    BY <1>3
  <2>2. c \in [keys : {b.keys}, left : {b.left \ {w}}, found : {found}]
    BY <2>1
  <2> HIDE DEF c
  <2>. QED  BY <2>2, BatchIsItsParts
<1>5. /\ c.keys = b.keys /\ c.left = b.left \ {w} /\ c.found = found
      /\ c = [keys |-> c.keys, left |-> c.left, found |-> c.found]
  BY <1>4
<1> HIDE DEF c
<1>6. S \subseteq Keyed
  BY <1>3 DEF Asking!LoaderKeys
<1>7. DOMAIN rows \subseteq S
  <2> HIDE DEF S
  <2>1. rows \in {Asking!Found(w, S), Asking!Ranked(w, S), Asking!list_dependencies_for_projects(w, S)}
    BY <1>2, <1>6, StatementRows DEF Asking!Loaders
  <2> HIDE DEF rows
  <2>2. DOMAIN Asking!Found(w, S) \subseteq S /\ DOMAIN Asking!Ranked(w, S) \subseteq S
    BY DEF Asking!Found, Asking!Ranked, Asking!Own
  <2>3. DOMAIN Asking!list_dependencies_for_projects(w, S) \subseteq S
    BY DEF Asking!list_dependencies_for_projects
  <2>. QED  BY <2>1, <2>2, <2>3
<1>8. ASSUME NEW i \in S  PROVE <<w, i>> \in b.keys
  <2>1. PICK k \in b.keys : k[1] = w /\ k[2] = i
    OBVIOUS
  <2>2. k = <<w, i>>
    BY <1>3, <2>1 DEF Asking!LoaderKeys
  <2>. QED  BY <2>1, <2>2
<1>9. ASSUME NEW k \in b.keys, k[1] = w
      PROVE  /\ k[2] \in S /\ k \notin DOMAIN b.found
             /\ k \in New <=> k[2] \in DOMAIN rows
  <2>1. k = <<w, k[2]>>
    BY <1>3, <1>9 DEF Asking!LoaderKeys
  <2>2. k[2] \in S
    BY <1>9
  <2> HIDE DEF S, rows
  <2>. QED  BY <1>1, <1>3, <1>9, <2>1, <2>2
<1>10. \A k \in New : k[1] = w /\ k \in b.keys
  <2> HIDE DEF S, rows
  <2>. QED  BY <1>7, <1>8
<1> HIDE DEF S, rows, New
<1>11. /\ DOMAIN found = DOMAIN b.found \union New
       /\ \A k \in New : found[k] = rows[k[2]]
       /\ \A k \in DOMAIN b.found \ New : found[k] = b.found[k]
  OBVIOUS
<1> HIDE DEF found
<1>12. ASSUME NEW k \in b.keys, k[1] \notin c.left  PROVE Asking!Result(c.found, k) \in truth[k]
  <2>1. CASE k[1] = w
    <3>1. k \in Asking!LoaderKeys /\ k \in DOMAIN cache /\ rows = Asking!Statement(k[1], S) /\ k[2] \in S
      BY <1>2, <1>3, <1>9, <2>1 DEF rows
    <3>2. /\ k \in DOMAIN found <=> k[2] \in DOMAIN rows
          /\ k[2] \in DOMAIN rows => found[k] = rows[k[2]]
      BY <1>9, <1>11, <2>1
    <3>3. Asking!Result(found, k) = Asking!Alone(k)
      BY <1>2, <1>6, <3>1, <3>2, FetchAnswersAlone
    <3>. QED  BY <1>2, <1>5, <3>1, <3>3 DEF TruthInv
  <2>2. CASE k[1] # w
    <3>1. Asking!Result(b.found, k) \in truth[k]
      BY <1>3, <1>5, <1>12, <2>2
    <3>2. k \in DOMAIN found <=> k \in DOMAIN b.found
      BY <1>10, <1>11, <2>2
    <3>3. k \in DOMAIN found => found[k] = b.found[k]
      BY <1>10, <1>11, <2>2, <3>2
    <3>. QED  BY <1>2, <1>5, <3>1, <3>2, <3>3, ResultAlike
  <2>. QED  BY <2>1, <2>2
<1>13. FlightOK(c) /\ c.keys \subseteq DOMAIN cache /\ c.left \subseteq Joined
  <2>1. DOMAIN c.found \subseteq c.keys /\ \A k \in DOMAIN c.found : k[1] \notin c.left
    BY <1>3, <1>5, <1>10, <1>11
  <2>. QED  BY <1>2, <1>5, <1>12, <2>1 DEF FlightOK
<1>14. ASSUME loader = "dependencies", NEW k \in DOMAIN c.found, NEW l \in DOMAIN c.found, k[1] = l[1]
       PROVE  l[2] \in c.found[k].blocks <=> k[2] \in c.found[l].blocked_by
  <2>1. CASE k[1] = w
    <3>1. k \in New /\ l \in New /\ k[2] \in S /\ l[2] \in S
      BY <1>1, <1>3, <1>5, <1>9, <1>10, <1>11, <1>14, <2>1
    <3>2. c.found[k] = rows[k[2]] /\ c.found[l] = rows[l[2]]
      BY <1>5, <1>11, <3>1
    <3>3. rows = Asking!list_dependencies_for_projects(w, S)
      BY <1>2, <1>6, <1>14, StatementRows DEF rows
    <3>4. /\ rows[k[2]].blocks = IF Home[k[2]] = w THEN {j \in hang[k[2]] : Home[j] = w} ELSE {}
          /\ rows[l[2]].blocked_by = {j \in Keyed : Home[j] = w /\ Home[l[2]] = w /\ l[2] \in hang[j]}
      BY <3>1, <3>3 DEF Asking!list_dependencies_for_projects
    <3>5. k[2] \in Keyed /\ l[2] \in Keyed
      BY <1>6, <3>1
    <3>. QED  BY <3>2, <3>4, <3>5
  <2>2. CASE k[1] # w
    <3>1. k \in DOMAIN b.found \ New /\ l \in DOMAIN b.found \ New
      BY <1>5, <1>10, <1>11, <1>14, <2>2
    <3>. QED  BY <1>2, <1>5, <1>11, <1>14, <3>1 DEF Asking!EndsAgree
  <2>. QED  BY <2>1, <2>2
<1>15. loader = "dependencies" => \A d \in flights' : \A k, l \in DOMAIN d.found :
         k[1] = l[1] => (l[2] \in d.found[k].blocks <=> k[2] \in d.found[l].blocked_by)
  BY <1>1, <1>2, <1>14 DEF Asking!EndsAgree
<1>16. \A d \in flights' : d.keys \subseteq DOMAIN cache /\ d.left \subseteq Joined /\ FlightOK(d)
  BY <1>1, <1>2, <1>13
<1>17. /\ DOMAIN cache' = DOMAIN cache /\ \A k \in DOMAIN cache : cache'[k] \in Asking!Entries
       /\ \A k \in DOMAIN cache : cache'[k].is = "answered" => cache'[k].value \in truth[k]
  BY <1>1, <1>2 DEF Asking!BatchesAnswerAsAlone
<1>. QED  BY <1>1, <1>15, <1>16, <1>17, BatchStep

\* Another request writes: what each key would be answered from now on is noted.
LEMMA ChangeStep ==
    ASSUME RequestInv, NEW i \in Keyed, NEW j \in Keyed, Asking!Change(i, j)
    PROVE  RequestInv'
<1>1. /\ hang' = [hang EXCEPT ![i] = IF j \in @ THEN @ \ {j} ELSE @ \union {j}] /\ Asking!Straight(hang')
      /\ writes < MaxWrites /\ writes' = writes + 1
      /\ UNCHANGED <<loader, alive, viewer, field, cache, flights>>
      /\ truth' = [k \in DOMAIN truth |-> truth[k] \union {Asking!Alone(k)'}]
  BY DEF Asking!Change
<1>2. /\ Asking!RequestTypeOK /\ ViewerInv /\ TruthInv /\ \A b \in flights : FlightOK(b)
      /\ Asking!BatchesAnswerAsAlone /\ Asking!EndsAgree /\ DOMAIN truth = DOMAIN cache
      /\ loader \in Asking!Loaders /\ hang \in [Keyed -> SUBSET Keyed] /\ DOMAIN cache \subseteq Asking!LoaderKeys
      /\ writes \in 0..MaxWrites /\ MaxWrites \in Nat
  BY RequestConstants DEF RequestInv, Asking!RequestTypeOK, Asking!LegalRequestConstants
<1>3. hang' \in [Keyed -> SUBSET Keyed] /\ writes' \in 0..MaxWrites
  BY <1>1, <1>2
<1>4. Asking!Values' = Asking!Values /\ Asking!Entries' = Asking!Entries
  BY <1>1 DEF Asking!Values, Asking!Entries
<1>5. ASSUME NEW k \in DOMAIN cache
      PROVE  /\ truth'[k] = truth[k] \union {Asking!Alone(k)'} /\ Asking!Alone(k)' \in Asking!Values
  <2>1. k \in Asking!LoaderKeys /\ loader' = loader
    BY <1>1, <1>2
  <2>2. AloneOf(loader, hang', k) \in IF loader = "dependencies" THEN [blocks : SUBSET Keyed, blocked_by : SUBSET Keyed]
                                      ELSE {None} \union SUBSET Keyed
    BY <1>2, <1>3, <2>1, AloneIsAValue
  <2>. QED  BY <1>1, <1>2, <2>1, <2>2, AloneNow DEF Asking!Values
<1>6. DOMAIN truth' = DOMAIN cache
  BY <1>1, <1>2
<1>7. Asking!RequestTypeOK'
  BY <1>1, <1>2, <1>3, <1>4, <1>6 DEF Asking!RequestTypeOK, Asking!LoaderKeys, Asking!Loaders, Asking!Rows
<1>8. TruthInv'
  BY <1>1, <1>2, <1>4, <1>5 DEF TruthInv
<1>9. ASSUME NEW b \in flights'  PROVE FlightOK(b)'
  <2>1. FlightOK(b) /\ b.keys \subseteq DOMAIN cache
    BY <1>1, <1>2 DEF Asking!RequestTypeOK
  <2>2. \A k : Asking!Result(b.found, k)' = Asking!Result(b.found, k)
    BY <1>1, ResultNext
  <2>. QED  BY <1>5, <2>1, <2>2 DEF FlightOK
<1>10. ViewerInv' /\ Asking!EndsAgree' /\ Asking!Straight(hang)'
  BY <1>1, <1>2 DEF ViewerInv, Asking!EndsAgree, Asking!Straight
<1>11. Asking!BatchesAnswerAsAlone'
  BY <1>1, <1>2, <1>5 DEF Asking!BatchesAnswerAsAlone
<1>. QED  BY <1>7, <1>8, <1>9, <1>10, <1>11 DEF RequestInv

\* A document keeps what it promises.
LEMMA RequestStep == ASSUME RequestInv, [Asking!RequestNext]_graphqlVars PROVE RequestInv'
<1>1. CASE UNCHANGED graphqlVars
  <2>1. /\ RowsKeptStill /\ UNCHANGED <<alive, viewer, field>> /\ ViewerInv
        /\ alive \in BOOLEAN /\ viewer \in {"none", "asked", "known", "nobody"}
    BY <1>1 DEF graphqlVars, RowsKeptStill, RequestInv, Asking!RequestTypeOK
  <2>2. ViewerInv'
    BY <2>1 DEF ViewerInv
  <2>. QED  BY <2>1, <2>2, ViewerStep
<1>2. CASE Asking!RequestNext
  BY <1>2, FieldStep, LoadStep, DispatchStep, ResolveStep, FetchStep, ChangeStep DEF Asking!RequestNext
<1>. QED  BY <1>1, <1>2

\* And begins with it.
LEMMA RequestInitInv == ASSUME Asking!RequestInit PROVE RequestInv
<1>1. /\ loader \in Asking!Loaders /\ hang \in [Keyed -> SUBSET Keyed] /\ Asking!Straight(hang)
  BY DEF Asking!RequestInit
<1>2. /\ alive = TRUE /\ viewer = "none" /\ field = [f \in Fields |-> [at |-> "new"]]
      /\ DOMAIN cache = {} /\ flights = {} /\ DOMAIN truth = {} /\ writes = 0
  BY DEF Asking!RequestInit
<1>3. [at |-> "new"] \in FieldStates
  BY DEF FieldStates
<1>4. ViewerInv
  BY <1>2, <1>3 DEF ViewerInv
<1>5. Asking!RequestTypeOK
  BY <1>1, <1>2, RequestConstants DEF Asking!RequestTypeOK, Asking!LegalRequestConstants
<1>. QED
  BY <1>1, <1>2, <1>4, <1>5 DEF RequestInv, TruthInv, Asking!BatchesAnswerAsAlone, Asking!EndsAgree

\* Nobody's fields and somebody's are not of one document.
LEMMA ViewerPromise == ASSUME RequestInv PROVE Asking!OneViewer
BY DEF RequestInv, ViewerInv, Asking!OneViewer

-----------------------------------------------------------------------------
(* All of them, one to a behaviour.                                        *)
ReadInv ==
    /\ part = "pages" => PageInv
    /\ part = "lists" => ListInv
    /\ part = "analytics" => AnalyticsInv
    /\ part = "requests" => RequestInv

\* Whichever moves begins with what it keeps.
LEMMA ReadInitInv == ReadInit => ReadInv
BY PageInitInv, ListInitInv, AnalyticsInitInv, RequestInitInv DEF ReadInit, ReadInv

\* The one that moves takes its own steps.
LEMMA ReadStep == ASSUME ReadInv, [ReadNext]_readVars PROVE ReadInv'
<1>1. /\ part' = part
      /\ part = "pages" => [Pages!PageNext]_pageVars
      /\ part = "lists" => [Walking!ListNext]_listVars
      /\ part = "analytics" => [Drawing!AnalyticsNext]_analyticsVars
      /\ part = "requests" => [Asking!RequestNext]_graphqlVars
  BY DEF ReadNext, readVars
<1>2. CASE part = "pages"
  BY <1>1, <1>2, PageStep DEF ReadInv
<1>3. CASE part = "lists"
  BY <1>1, <1>3, ListStep DEF ReadInv
<1>4. CASE part = "analytics"
  BY <1>1, <1>4, AnalyticsStep DEF ReadInv
<1>5. CASE part = "requests"
  BY <1>1, <1>5, RequestStep DEF ReadInv
<1>. QED  BY <1>1, <1>2, <1>3, <1>4, <1>5 DEF ReadInv

\* What is kept is what is promised.
LEMMA ReadInvSuffices == ReadInv => ReadsAreComplete
<1>1. PageInv => Pages!PageTypeOK /\ Pages!WalkIsComplete
  BY DEF PageInv, Pages!WalkIsComplete
<1>2. ListInv => Walking!ListTypeOK /\ Walking!ListsAreComplete
  BY DEF ListInv, Walking!ListsAreComplete
<1>3. AnalyticsInv => Drawing!AnalyticsTypeOK /\ Drawing!PanelsAgree /\ Drawing!ChartHoldsEveryRow
  BY PanelsPromise DEF AnalyticsInv
<1>4. RequestInv => /\ Asking!RequestTypeOK /\ Asking!BatchesAnswerAsAlone
                    /\ Asking!EndsAgree /\ Asking!OneViewer
  BY ViewerPromise DEF RequestInv
<1>. QED  BY <1>1, <1>2, <1>3, <1>4 DEF ReadInv, ReadsAreComplete

\* For every set of rows, keys and page sizes, and whatever is committed between
\* two statements: a walk over a keyset page or any other list returns what stayed
\* in the list, once (services/issues.py, services/lists.py and the rest); the
\* analytics page's panels, where no limit cuts them, differ by the issues changed
\* while it was read; and a GraphQL batch answers each key as a statement of its own would, for one viewer.
THEOREM ReadsTheorem == ReadSpec => []ReadsAreComplete
<1>1. ReadInv /\ [ReadNext]_readVars => ReadInv'
  BY ReadStep
<1>. QED  BY ReadInitInv, <1>1, ReadInvSuffices, PTL DEF ReadSpec
=============================================================================
