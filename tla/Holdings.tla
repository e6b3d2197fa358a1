------------------------------ MODULE Holdings ------------------------------
(***************************************************************************)
(* What a member holds for the workspace: the lead of a project, an         *)
(* initiative, a template's assignment, a shared view, a connection to      *)
(* GitHub or Slack.  A departure asks for all of it in one statement and is *)
(* refused while there is any; the membership it ends keeps its row, so the *)
(* foreign keys of these tables refuse nobody who was ever a member.        *)
(***************************************************************************)
CONSTANTS
  Colleagues,
  Shares, \* the tables tried, of SHARED_HOLDINGS
  None

VARIABLES
  member,  \* removed_at IS NULL
  holder,  \* whom a row of each table names
  acting,  \* members whose scope a request under way has resolved
  probed,  \* who has been asked about and found to hold nothing
  later    \* history: who was named since they were asked about, or gone

holdingVars == <<member, holder, acting, probed, later>>

SHARED_HOLDINGS ==
  {"projects_lead_fk", "initiatives_owner_fk", "saved_views_creator_fk", "issue_templates_assignee_fk",
   "github_installations_connected_by_fk", "slack_installations_connected_by_fk"}
\* A client names whom it likes; the others name the author.
Handed == {"projects_lead_fk", "initiatives_owner_fk", "issue_templates_assignee_fk"}

LegalHoldingConstants == Shares \subseteq SHARED_HOLDINGS /\ None \notin Colleagues

HoldingTypeOK ==
  /\ member \subseteq Colleagues /\ holder \in [Shares -> Colleagues \union {None}]
  /\ acting \subseteq Colleagues /\ probed \subseteq Colleagues /\ later \subseteq Colleagues

HoldingInit ==
  /\ member = Colleagues /\ holder = [h \in Shares |-> None]
  /\ acting = {} /\ probed = {} /\ later = {}

Admit(p) ==
  /\ p \in member /\ p \notin acting /\ acting' = acting \union {p}
  /\ UNCHANGED <<member, holder, probed, later>>
Finish(p) ==
  /\ p \in acting /\ acting' = acting \ {p} /\ UNCHANGED <<member, holder, probed, later>>

\* A statement of a request by p puts q in charge, or nobody.
Name(h, p, q) ==
  /\ p \in acting /\ holder' = [holder EXCEPT ![h] = q]
  /\ later' = IF q \in probed \/ q \notin member THEN later \union ({q} \ {None}) ELSE later
  /\ UNCHANGED <<member, acting, probed>>
Hand(h, p, q) == h \in Handed /\ Name(h, p, q)
\* A project deleted, a view made personal, a connection taken away.
Release(h, p) == Name(h, p, None)
\* Sharing a view, connecting: a connection is another's to replace.
Take(h, p) == h \notin Handed /\ (h = "saved_views_creator_fk" => holder[h] = None) /\ Name(h, p, p)

\* Mutant: a table added later gets no refusal until its probe is added there.
HeldInThree(p) == {h \in Shares \intersect Handed : holder[h] = p}
shared_holdings(p) == {h \in Shares : holder[h] = p}

Probe(p) ==
  /\ p \in member \ probed /\ shared_holdings(p) = {}
  /\ probed' = probed \union {p} /\ UNCHANGED <<member, holder, acting, later>>
mark_removed(p) ==
  /\ p \in probed /\ member' = member \ {p} /\ probed' = probed \ {p}
  /\ UNCHANGED <<holder, acting, later>>
\* The departure is refused or dies: what was named in between is what is there.
Keep(p) ==
  /\ p \in probed /\ probed' = probed \ {p} /\ later' = later \ {p}
  /\ UNCHANGED <<member, holder, acting>>
Rejoin(p) ==
  /\ p \notin member /\ member' = member \union {p} /\ later' = later \ {p}
  /\ UNCHANGED <<holder, acting, probed>>

HoldingNext ==
  \E p \in Colleagues :
    \/ Admit(p) \/ Finish(p) \/ Probe(p) \/ mark_removed(p) \/ Keep(p) \/ Rejoin(p)
    \/ \E h \in Shares : Release(h, p) \/ Take(h, p) \/ \E q \in Colleagues : Hand(h, p, q)

HoldingSpec == HoldingInit /\ [][HoldingNext]_holdingVars

-----------------------------------------------------------------------------
(* Nothing shared is left to somebody who went, unless they were put in     *)
(* charge after their departure had asked.                                  *)
LeaversHoldNothing == \A h \in Shares : holder[h] = None \/ holder[h] \in member \union later
=============================================================================
