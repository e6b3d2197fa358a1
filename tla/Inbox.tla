-------------------------------- MODULE Inbox --------------------------------
(***************************************************************************)
(* Who watches an issue and what reaches their inbox: comments, hand-overs  *)
(* and moves write subscriptions and notifications in the transaction that  *)
(* makes the change, while members leave, which takes what is theirs away,  *)
(* and come back.  A membership that ended keeps its row, so foreign keys   *)
(* go on accepting somebody who left.                                       *)
(***************************************************************************)
EXTENDS Naturals

CONSTANTS
  People,
  Creator,   \* of the issue
  Writers,   \* requests at work at once
  MaxNews,   \* bound: the changes there are to hear of
  None

VARIABLES
  here,      \* workspace_members.removed_at IS NULL
  assignee,  \* issues.assignee_id
  watching,  \* issue_subscribers
  inbox,     \* notifications of each, by the change they tell of
  unread,    \* those with read_at IS NULL
  writing,   \* the transaction of each request
  leaving,   \* the departure under way, with what it deletes
  sent,      \* the number of the last change
  told,      \* history: who was a member when a change was told
  since      \* history: of whom something was written after the deletes of their departure

inboxVars == <<here, assignee, watching, inbox, unread, writing, leaving, sent, told, since>>

News == 1..MaxNews
LegalInboxConstants == Creator \in People /\ None \notin People /\ MaxNews \in Nat

Idle == [at |-> "idle"]
Change == [at : {"admitted", "written"}, by : People, to : People \union {None}, locks : BOOLEAN,
           watch : SUBSET People, news : News \union {None}, reach : SUBSET People]
Departure == [who : People, inbox : SUBSET News, watches : BOOLEAN, holds : BOOLEAN]

InboxTypeOK ==
  /\ here \subseteq People /\ assignee \in People \union {None} /\ watching \subseteq People
  /\ inbox \in [People -> SUBSET News] /\ \A p \in People : unread[p] \subseteq inbox[p]
  /\ \A w \in Writers : writing[w] = Idle \/ writing[w] \in Change
  /\ leaving = Idle \/ leaving \in Departure
  /\ sent \in 0..MaxNews /\ told \in [News -> SUBSET People] /\ since \subseteq People

InboxInit ==
  /\ here = People /\ assignee = None /\ watching = {}
  /\ inbox = [p \in People |-> {}] /\ unread = inbox
  /\ writing = [w \in Writers |-> Idle] /\ leaving = Idle
  /\ sent = 0 /\ told = [n \in News |-> {}] /\ since = {}

\* The scope is resolved, once: the request goes on whatever becomes of its author.
Admit(w, p) ==
  /\ writing[w] = Idle /\ p \in here
  /\ writing' = [writing EXCEPT ![w] = [at |-> "admitted", by |-> p, to |-> None, locks |-> FALSE,
                                        watch |-> {}, news |-> None, reach |-> {}]]
  /\ UNCHANGED <<here, assignee, watching, inbox, unread, leaving, sent, told, since>>

-----------------------------------------------------------------------------
\* Mutant: the join on the memberships takes those that ended.
AnyMember(S, by) == S \ {by}
\* notify_about_issue: the candidates who are members now, but for the actor.
Recipients(S, by) == (S \intersect here) \ {by}

\* A subscription that a departure is deleting is waited for.
Subscribable(S) == leaving # Idle => ~(leaving.watches /\ leaving.who \in S)

\* The issue's row is locked by a change of it, and by a departure that takes it back.
Lockable ==
  /\ \A w \in Writers : writing[w] # Idle => ~writing[w].locks
  /\ leaving # Idle => ~leaving.holds

\* The change, its subscriptions and the fan-out, which sees the transaction's own rows.
Tell(w, to, locks, watch, creator) ==
  /\ writing[w] # Idle /\ writing[w].at = "admitted" /\ sent < MaxNews
  /\ locks => Lockable
  /\ Subscribable(watch)
  /\ LET by == writing[w].by
         holder == IF to = None THEN assignee ELSE to
         audience == watching \union watch \union ({holder} \ {None}) \union (IF creator THEN {Creator} ELSE {})
     IN writing' = [writing EXCEPT ![w] =
          [at |-> "written", by |-> by, to |-> to, locks |-> locks, watch |-> watch,
           news |-> sent + 1, reach |-> Recipients(audience, by)]]
  /\ sent' = sent + 1 /\ told' = [told EXCEPT ![sent + 1] = here]
  /\ UNCHANGED <<here, assignee, watching, inbox, unread, leaving, since>>

\* The author follows from now on, and the creator hears of it too.
Comment(w) == Tell(w, None, FALSE, {writing[w].by}, TRUE)

\* An assignee need only have been a member once.
Assign(w, p) == p # assignee /\ Tell(w, p, TRUE, {p}, FALSE)

MoveState(w) == Tell(w, None, TRUE, {}, FALSE)

Subscribe(w) ==
  /\ writing[w] # Idle /\ writing[w].at = "admitted"
  /\ Subscribable({writing[w].by})
  /\ writing' = [writing EXCEPT ![w] = [@ EXCEPT !.at = "written", !.watch = {writing[w].by}]]
  /\ UNCHANGED <<here, assignee, watching, inbox, unread, leaving, sent, told, since>>

Commit(w) ==
  /\ writing[w] # Idle /\ writing[w].at = "written"
  /\ LET t == writing[w]
     IN /\ assignee' = IF t.to = None THEN assignee ELSE t.to
        /\ watching' = watching \union t.watch
        /\ inbox' = [p \in People |-> IF p \in t.reach THEN inbox[p] \union {t.news} ELSE inbox[p]]
        /\ unread' = [p \in People |-> IF p \in t.reach THEN unread[p] \union {t.news} ELSE unread[p]]
        /\ since' = since \union t.watch \union t.reach \union ({t.to} \ {None})
  /\ writing' = [writing EXCEPT ![w] = Idle]
  /\ UNCHANGED <<here, leaving, sent, told>>

Abandon(w) ==
  /\ writing[w] # Idle /\ writing' = [writing EXCEPT ![w] = Idle]
  /\ UNCHANGED <<here, assignee, watching, inbox, unread, leaving, sent, told, since>>

-----------------------------------------------------------------------------
Unsubscribe(p) ==
  /\ p \in here \intersect watching /\ leaving = Idle
  /\ watching' = watching \ {p}
  /\ UNCHANGED <<here, assignee, inbox, unread, writing, leaving, sent, told, since>>

MarkRead(p, n) ==
  /\ p \in here /\ n \in unread[p]
  /\ unread' = [unread EXCEPT ![p] = @ \ {n}]
  /\ UNCHANGED <<here, assignee, watching, inbox, writing, leaving, sent, told, since>>

MarkAllRead(p) ==
  /\ p \in here /\ unread[p] # {}
  /\ unread' = [unread EXCEPT ![p] = {}]
  /\ UNCHANGED <<here, assignee, watching, inbox, writing, leaving, sent, told, since>>

\* delete_personal_rows and unassign_issues find what is committed when they run.
Clear(p) ==
  /\ leaving = Idle /\ p \in here
  /\ assignee = p => Lockable
  /\ leaving' = [who |-> p, inbox |-> inbox[p], watches |-> p \in watching, holds |-> assignee = p]
  /\ since' = since \ {p}
  /\ UNCHANGED <<here, assignee, watching, inbox, unread, writing, sent, told>>

\* mark_removed, and the commit; another departure has waited for the owners' rows.
Leave ==
  /\ leaving # Idle
  /\ LET p == leaving.who
     IN /\ here' = here \ {p}
        /\ assignee' = IF leaving.holds THEN None ELSE assignee
        /\ watching' = IF leaving.watches THEN watching \ {p} ELSE watching
        /\ inbox' = [inbox EXCEPT ![p] = @ \ leaving.inbox]
        /\ unread' = [unread EXCEPT ![p] = @ \ leaving.inbox]
  /\ leaving' = Idle
  /\ UNCHANGED <<writing, sent, told, since>>

Stay ==
  /\ leaving # Idle /\ leaving' = Idle
  /\ UNCHANGED <<here, assignee, watching, inbox, unread, writing, sent, told, since>>

\* An invitation is accepted; the row of the membership is revived.
Return(p) ==
  /\ p \notin here /\ here' = here \union {p}
  /\ UNCHANGED <<assignee, watching, inbox, unread, writing, leaving, sent, told, since>>

InboxNext ==
  \/ \E w \in Writers, p \in People : Admit(w, p) \/ Assign(w, p)
  \/ \E w \in Writers : Comment(w) \/ MoveState(w) \/ Subscribe(w) \/ Commit(w) \/ Abandon(w)
  \/ \E p \in People : Unsubscribe(p) \/ MarkAllRead(p) \/ Clear(p) \/ Return(p)
  \/ \E p \in People, n \in News : MarkRead(p, n)
  \/ Leave \/ Stay

InboxSpec == InboxInit /\ [][InboxNext]_inboxVars

-----------------------------------------------------------------------------
(* Somebody who has left holds no notification of a change that was told    *)
(* after they left; and nothing at all, neither a notification nor a        *)
(* subscription nor the issue, unless a write was committed after the       *)
(* deletes of their departure had run.                                      *)
LeaversHearNothing == \A p \in People \ here :
  /\ \A n \in inbox[p] : p \in told[n]
  /\ p \notin since => inbox[p] = {} /\ p \notin watching /\ assignee # p
=============================================================================
