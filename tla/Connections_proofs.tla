------------------------- MODULE Connections_proofs -------------------------
(***************************************************************************)
(* Proofs about who is connected to a workspace, for any number of them:    *)
(* its members and what they keep when they go; GitHub and Slack, and what  *)
(* their deliveries and handshakes may leave behind; and who may sign in.   *)
(***************************************************************************)
EXTENDS Tracker, Sequences, TLAPS

-----------------------------------------------------------------------------
(* What a leaver has heard and holds.                                       *)

\* What a request will commit was told to those who were here, and what is in an inbox was told to its owner.
NewsInv ==
  /\ writing = [w \in Writers |-> writing[w]] /\ unread = [p \in People |-> unread[p]]
  /\ \A w \in Writers : writing[w] # Hearing!Idle => \A p \in writing[w].reach : writing[w].news \in 1..sent /\ p \in heard[writing[w].news]
  /\ \A p \in People : \A n \in inbox[p] : n \in 1..sent /\ p \in heard[n]

\* A member who is leaving will lose what they have, but for what is written while they go; one who left has lost it.
GoingInv ==
  /\ leaving # Hearing!Idle => LET p == leaving.who IN
       /\ p \in here
       /\ p \notin since =>
            /\ inbox[p] \subseteq leaving.inbox /\ (p \in watching => leaving.watches) /\ (assignee = p => leaving.holds)
  /\ \A p \in People : p \notin here /\ p \notin since => inbox[p] = {} /\ p \notin watching /\ assignee # p

\* The inductive invariant of the inbox.
InboxInv == Hearing!InboxTypeOK /\ NewsInv /\ GoingInv

\* What the inbox assumes of its constants.
LEMMA InboxConstants == Creator \in People /\ None \notin People /\ MaxNews \in Nat
BY LegalConstants DEF Hearing!LegalInboxConstants

\* There is no news at first.
LEMMA InboxStart == Hearing!InboxInit => InboxInv
<1> SUFFICES ASSUME Hearing!InboxInit PROVE InboxInv
  OBVIOUS
<1>1. Hearing!InboxTypeOK
  BY InboxConstants DEF Hearing!InboxInit, Hearing!InboxTypeOK, Hearing!News
<1>2. NewsInv /\ GoingInv
  BY DEF Hearing!InboxInit, NewsInv, GoingInv
<1> QED BY <1>1, <1>2 DEF InboxInv

\* The property follows.
LEMMA InboxProperties == InboxInv => Hearing!LeaversHearNothing
BY DEF InboxInv, NewsInv, GoingInv, Hearing!LeaversHearNothing

\* One request's transaction moves on and nothing else does.
LEMMA WritingMoves ==
  ASSUME InboxInv, NEW w \in Writers, NEW r, writing' = [writing EXCEPT ![w] = r], r = Hearing!Idle \/ r \in Hearing!Change,
         UNCHANGED <<here, assignee, watching, inbox, unread, leaving, sent, heard, since>>,
         r # Hearing!Idle => \A p \in r.reach : r.news \in 1..sent /\ p \in heard[r.news]
  PROVE  InboxInv'
<1>1. /\ writing' = [v \in Writers |-> writing'[v]] /\ writing'[w] = r /\ \A v \in Writers \ {w} : writing'[v] = writing[v]
  BY DEF InboxInv, NewsInv
<1>2. Hearing!InboxTypeOK'
  BY <1>1 DEF InboxInv, Hearing!InboxTypeOK
<1>3. NewsInv'
  BY <1>1 DEF InboxInv, NewsInv
<1>4. GoingInv'
  BY DEF InboxInv, GoingInv
<1> QED BY <1>2, <1>3, <1>4 DEF InboxInv

\* What a request holds while it writes, and after.
LEMMA WritingRows ==
  ASSUME InboxInv, NEW w \in Writers, writing[w] # Hearing!Idle
  PROVE  /\ writing[w] \in Hearing!Change /\ writing[w].by \in People /\ writing[w].to \in People \union {None}
         /\ writing[w].watch \subseteq People /\ writing[w].reach \subseteq People
         /\ \A S \in SUBSET People :
              LET r == [writing[w] EXCEPT !.at = "written", !.watch = S] IN
              r \in Hearing!Change /\ r.reach = writing[w].reach /\ r.news = writing[w].news
<1>1. writing[w] \in [at : {"admitted", "written"}, by : People, to : People \union {None}, locks : BOOLEAN,
                      watch : SUBSET People, news : Hearing!News \union {None}, reach : SUBSET People]
  BY DEF InboxInv, Hearing!InboxTypeOK, Hearing!Change
<1> DEFINE r == writing[w]
<1>2. r \in [at : {"admitted", "written"}, by : People, to : People \union {None}, locks : BOOLEAN,
             watch : SUBSET People, news : Hearing!News \union {None}, reach : SUBSET People]
  BY <1>1
<1> HIDE DEF r
<1>3. \A S \in SUBSET People :
        /\ [r EXCEPT !.at = "written", !.watch = S] \in Hearing!Change
        /\ [r EXCEPT !.at = "written", !.watch = S].reach = r.reach /\ [r EXCEPT !.at = "written", !.watch = S].news = r.news
  BY <1>2 DEF Hearing!Change
<1>4. r.by \in People /\ r.to \in People \union {None} /\ r.watch \subseteq People /\ r.reach \subseteq People /\ r \in Hearing!Change
  BY <1>2 DEF Hearing!Change
<1> QED BY <1>3, <1>4 DEF r

\* A request is admitted for a member.
LEMMA AdmitKeeps == ASSUME InboxInv, NEW w \in Writers, NEW p \in People, Hearing!Admit(w, p) PROVE InboxInv'
<1> DEFINE r == [at |-> "admitted", by |-> p, to |-> None, locks |-> FALSE, watch |-> {}, news |-> None, reach |-> {}]
<1>1. r \in Hearing!Change /\ r.reach = {}
  BY DEF Hearing!Change
<1>2. writing' = [writing EXCEPT ![w] = r] /\ UNCHANGED <<here, assignee, watching, inbox, unread, leaving, sent, heard, since>>
  BY DEF Hearing!Admit
<1> HIDE DEF r
<1> QED BY <1>1, <1>2, WritingMoves

\* A request subscribes and tells those who are here.
LEMMA TellKeeps ==
  ASSUME InboxInv, NEW w \in Writers, NEW to \in People \union {None}, NEW locks \in BOOLEAN, NEW watch \in SUBSET People,
         NEW creator \in BOOLEAN, Hearing!Tell(w, to, locks, watch, creator)
  PROVE  InboxInv'
<1>1. PICK S : LET by == writing[w].by IN
        writing' = [writing EXCEPT ![w] = [at |-> "written", by |-> by, to |-> to, locks |-> locks, watch |-> watch,
                                           news |-> sent + 1, reach |-> Hearing!Recipients(S, by)]]
  BY DEF Hearing!Tell
<1> DEFINE by == writing[w].by
           r == [at |-> "written", by |-> by, to |-> to, locks |-> locks, watch |-> watch,
                 news |-> sent + 1, reach |-> Hearing!Recipients(S, by)]
<1>2. /\ writing[w] # Hearing!Idle /\ sent < MaxNews /\ sent' = sent + 1 /\ heard' = [heard EXCEPT ![sent + 1] = here]
      /\ UNCHANGED <<here, assignee, watching, inbox, unread, leaving, since>>
  BY DEF Hearing!Tell
<1>3. sent \in 0..MaxNews /\ heard \in [Hearing!News -> SUBSET People] /\ here \subseteq People
  BY DEF InboxInv, Hearing!InboxTypeOK
<1>4. /\ sent + 1 \in Hearing!News /\ sent' \in 0..MaxNews /\ heard' \in [Hearing!News -> SUBSET People]
      /\ heard'[sent + 1] = here /\ sent + 1 \in 1..sent'
      /\ \A n \in 1..sent : heard'[n] = heard[n] /\ n \in 1..sent'
  BY <1>2, <1>3, InboxConstants DEF Hearing!News
<1>5. by \in People
  BY <1>2, WritingRows
<1>6. Hearing!Recipients(S, by) \subseteq here
  BY DEF Hearing!Recipients
<1>7. r \in Hearing!Change /\ r.news = sent + 1 /\ r.reach \subseteq here
  BY <1>3, <1>4, <1>5, <1>6 DEF Hearing!Change
<1>8. /\ writing' = [v \in Writers |-> writing'[v]] /\ writing'[w] = r /\ \A v \in Writers \ {w} : writing'[v] = writing[v]
  BY <1>1 DEF InboxInv, NewsInv
<1> HIDE DEF r, by
<1>9. Hearing!InboxTypeOK'
  BY <1>2, <1>4, <1>7, <1>8 DEF InboxInv, Hearing!InboxTypeOK
<1>10. NewsInv'
  <2>1. \A v \in Writers : writing'[v] # Hearing!Idle =>
          \A p \in writing'[v].reach : writing'[v].news \in 1..sent' /\ p \in heard'[writing'[v].news]
    <3>1. \A p \in r.reach : r.news \in 1..sent' /\ p \in heard'[r.news]
      BY <1>4, <1>7
    <3> QED BY <1>4, <1>8, <3>1 DEF InboxInv, NewsInv
  <2>2. \A p \in People : \A n \in inbox'[p] : n \in 1..sent' /\ p \in heard'[n]
    BY <1>2, <1>4 DEF InboxInv, NewsInv
  <2>3. unread' = [p \in People |-> unread'[p]]
    BY <1>2 DEF InboxInv, NewsInv
  <2> QED BY <1>8, <2>1, <2>2, <2>3 DEF NewsInv
<1>11. GoingInv'
  BY <1>2 DEF InboxInv, GoingInv
<1> QED BY <1>9, <1>10, <1>11 DEF InboxInv

\* What a request told becomes visible in the inboxes that are left.
LEMMA TellingCommitKeeps == ASSUME InboxInv, NEW w \in Writers, Hearing!Commit(w) PROVE InboxInv'
<1> DEFINE t == writing[w]
<1>1. /\ t # Hearing!Idle
      /\ assignee' = (IF t.to = None THEN assignee ELSE t.to)
      /\ watching' = watching \union t.watch
      /\ inbox' = [p \in People |-> IF p \in t.reach THEN inbox[p] \union {t.news} ELSE inbox[p]]
      /\ unread' = [p \in People |-> IF p \in t.reach THEN unread[p] \union {t.news} ELSE unread[p]]
      /\ since' = since \union t.watch \union t.reach \union ({t.to} \ {None})
      /\ writing' = [writing EXCEPT ![w] = Hearing!Idle]
      /\ UNCHANGED <<here, leaving, sent, heard>>
  BY DEF Hearing!Commit
<1>2. t.to \in People \union {None} /\ t.watch \subseteq People /\ t.reach \subseteq People
  BY <1>1, WritingRows
<1>3. /\ writing' = [v \in Writers |-> writing'[v]] /\ writing'[w] = Hearing!Idle /\ \A v \in Writers \ {w} : writing'[v] = writing[v]
  BY <1>1 DEF InboxInv, NewsInv
<1>4. \A p \in t.reach : t.news \in 1..sent /\ p \in heard[t.news]
  BY <1>1 DEF InboxInv, NewsInv
<1> HIDE DEF t
<1>5. sent \in 0..MaxNews /\ 1..sent \subseteq Hearing!News
  BY InboxConstants DEF InboxInv, Hearing!InboxTypeOK, Hearing!News
<1>6. Hearing!InboxTypeOK'
  <2>1. inbox' \in [People -> SUBSET Hearing!News]
    BY <1>1, <1>4, <1>5 DEF InboxInv, Hearing!InboxTypeOK
  <2>2. \A p \in People : unread'[p] \subseteq inbox'[p]
    BY <1>1 DEF InboxInv, Hearing!InboxTypeOK
  <2>3. assignee' \in People \union {None} /\ watching' \subseteq People /\ since' \subseteq People
    BY <1>1, <1>2 DEF InboxInv, Hearing!InboxTypeOK
  <2> QED BY <1>1, <1>3, <2>1, <2>2, <2>3 DEF InboxInv, Hearing!InboxTypeOK
<1>7. NewsInv'
  <2>1. \A p \in People : \A n \in inbox'[p] : n \in 1..sent' /\ p \in heard'[n]
    BY <1>1, <1>4 DEF InboxInv, NewsInv
  <2>2. \A v \in Writers : writing'[v] # Hearing!Idle =>
          \A p \in writing'[v].reach : writing'[v].news \in 1..sent' /\ p \in heard'[writing'[v].news]
    BY <1>1, <1>3 DEF InboxInv, NewsInv
  <2>3. unread' = [p \in People |-> unread'[p]]
    BY <1>1
  <2> QED BY <1>3, <2>1, <2>2, <2>3 DEF NewsInv
<1>8. \A p \in People : p \notin since' =>
        p \notin since /\ inbox'[p] = inbox[p] /\ (p \in watching' => p \in watching) /\ (assignee' = p => assignee = p)
  BY <1>1, InboxConstants
<1>9. GoingInv'
  <2>1. leaving # Hearing!Idle => leaving.who \in People
    BY DEF InboxInv, Hearing!InboxTypeOK, Hearing!Departure
  <2> QED BY <1>1, <1>8, <2>1 DEF InboxInv, GoingInv
<1> QED BY <1>6, <1>7, <1>9 DEF InboxInv

\* A member subscribes, or a request is given up.
LEMMA SubscribeKeeps == ASSUME InboxInv, NEW w \in Writers, Hearing!Subscribe(w) \/ Hearing!Abandon(w) PROVE InboxInv'
<1>1. CASE Hearing!Subscribe(w)
  <2> DEFINE r == [writing[w] EXCEPT !.at = "written", !.watch = {writing[w].by}]
  <2>1. /\ writing[w] # Hearing!Idle
        /\ UNCHANGED <<here, assignee, watching, inbox, unread, leaving, sent, heard, since>>
    BY <1>1 DEF Hearing!Subscribe
  <2>2. writing' = [writing EXCEPT ![w] = r]
    BY <1>1 DEF Hearing!Subscribe, InboxInv, NewsInv
  <2>3. {writing[w].by} \in SUBSET People
    BY <2>1, WritingRows
  <2>4. r \in Hearing!Change /\ r.reach = writing[w].reach /\ r.news = writing[w].news
    BY <2>1, <2>3, WritingRows
  <2>5. \A p \in r.reach : r.news \in 1..sent /\ p \in heard[r.news]
    BY <2>1, <2>4 DEF InboxInv, NewsInv
  <2> HIDE DEF r
  <2> QED BY <2>1, <2>2, <2>4, <2>5, WritingMoves
<1>2. CASE Hearing!Abandon(w)
  BY <1>2, WritingMoves DEF Hearing!Abandon
<1> QED BY <1>1, <1>2

\* What is read is still what was told.
LEMMA ReadingKeeps ==
  ASSUME InboxInv, NEW p \in People,
         Hearing!Unsubscribe(p) \/ Hearing!MarkAllRead(p) \/ \E n \in Hearing!News : Hearing!MarkRead(p, n)
  PROVE  InboxInv'
<1>1. CASE Hearing!Unsubscribe(p)
  <2>1. watching' = watching \ {p} /\ UNCHANGED <<here, assignee, inbox, unread, writing, leaving, sent, heard, since>>
    BY <1>1 DEF Hearing!Unsubscribe
  <2> QED BY <2>1 DEF InboxInv, Hearing!InboxTypeOK, NewsInv, GoingInv
<1>2. CASE Hearing!MarkAllRead(p) \/ \E n \in Hearing!News : Hearing!MarkRead(p, n)
  <2>1. /\ unread' = [q \in People |-> unread'[q]] /\ \A q \in People : unread'[q] \subseteq unread[q]
        /\ UNCHANGED <<here, assignee, watching, inbox, writing, leaving, sent, heard, since>>
    BY <1>2 DEF Hearing!MarkAllRead, Hearing!MarkRead, InboxInv, NewsInv
  <2>2. Hearing!InboxTypeOK'
    BY <2>1 DEF InboxInv, Hearing!InboxTypeOK
  <2>3. NewsInv' /\ GoingInv'
    BY <2>1 DEF InboxInv, NewsInv, GoingInv
  <2> QED BY <2>2, <2>3 DEF InboxInv
<1> QED BY <1>1, <1>2

\* A member who is leaving loses subscriptions and inbox.
LEMMA ClearingInboxKeeps == ASSUME InboxInv, NEW p \in People, Hearing!Clear(p) PROVE InboxInv'
<1> DEFINE d == [who |-> p, inbox |-> inbox[p], watches |-> p \in watching, holds |-> assignee = p]
<1>1. /\ p \in here /\ leaving' = d /\ since' = since \ {p} /\ UNCHANGED <<here, assignee, watching, inbox, unread, writing, sent, heard>>
  BY DEF Hearing!Clear
<1>2. d \in Hearing!Departure /\ d.who = p /\ d.inbox = inbox[p] /\ (p \in watching => d.watches) /\ (assignee = p => d.holds)
  <2>1. inbox[p] \in SUBSET Hearing!News /\ (p \in watching) \in BOOLEAN /\ (assignee = p) \in BOOLEAN
    BY DEF InboxInv, Hearing!InboxTypeOK
  <2>2. d \in Hearing!Departure
    BY <2>1 DEF Hearing!Departure
  <2>3. d.who = p /\ d.inbox = inbox[p] /\ d.watches = (p \in watching) /\ d.holds = (assignee = p)
    OBVIOUS
  <2> QED BY <2>2, <2>3
<1> HIDE DEF d
<1>3. Hearing!InboxTypeOK'
  BY <1>1, <1>2 DEF InboxInv, Hearing!InboxTypeOK
<1>4. NewsInv'
  BY <1>1 DEF InboxInv, NewsInv
<1>5. GoingInv'
  BY <1>1, <1>2 DEF InboxInv, GoingInv
<1> QED BY <1>3, <1>4, <1>5 DEF InboxInv

\* The membership goes last.
LEMMA LeaveKeeps == ASSUME InboxInv, Hearing!Leave PROVE InboxInv'
<1> DEFINE p == leaving.who
<1>1. /\ leaving # Hearing!Idle /\ here' = here \ {p}
      /\ assignee' = (IF leaving.holds THEN None ELSE assignee)
      /\ watching' = (IF leaving.watches THEN watching \ {p} ELSE watching)
      /\ inbox' = [inbox EXCEPT ![p] = @ \ leaving.inbox]
      /\ unread' = [unread EXCEPT ![p] = @ \ leaving.inbox]
      /\ leaving' = Hearing!Idle /\ UNCHANGED <<writing, sent, heard, since>>
  BY DEF Hearing!Leave
<1>2. p \in People
  BY <1>1 DEF InboxInv, Hearing!InboxTypeOK, Hearing!Departure
<1> HIDE DEF p
<1>3. /\ inbox \in [People -> SUBSET Hearing!News] /\ \A q \in People : unread[q] \subseteq inbox[q]
      /\ unread = [q \in People |-> unread[q]]
  BY DEF InboxInv, Hearing!InboxTypeOK, NewsInv
<1>4. /\ inbox' \in [People -> SUBSET Hearing!News]
      /\ inbox'[p] = inbox[p] \ leaving.inbox /\ \A q \in People \ {p} : inbox'[q] = inbox[q]
      /\ \A q \in People : inbox'[q] \subseteq inbox[q]
  BY <1>1, <1>2, <1>3
<1>5. unread' = [q \in People |-> unread'[q]] /\ \A q \in People : unread'[q] \subseteq inbox'[q]
  BY <1>1, <1>2, <1>3
<1>6. Hearing!InboxTypeOK'
  BY <1>1, <1>4, <1>5 DEF InboxInv, Hearing!InboxTypeOK
<1>7. NewsInv'
  BY <1>1, <1>4, <1>5 DEF InboxInv, NewsInv
<1>8. GoingInv'
  <2>1. ASSUME NEW q \in People, q \notin here', q \notin since' PROVE inbox'[q] = {} /\ q \notin watching' /\ assignee' # q
    <3>1. CASE q = p
      <4>1. inbox[p] \subseteq leaving.inbox /\ (p \in watching => leaving.watches) /\ (assignee = p => leaving.holds)
        BY <1>1, <2>1, <3>1 DEF InboxInv, GoingInv, p
      <4> QED BY <1>1, <1>2, <1>4, <3>1, <4>1, InboxConstants
    <3>2. CASE q # p
      <4>1. inbox[q] = {} /\ q \notin watching /\ assignee # q
        BY <1>1, <2>1, <3>2 DEF InboxInv, GoingInv
      <4> QED BY <1>1, <1>4, <3>2, <4>1, InboxConstants
    <3> QED BY <3>1, <3>2
  <2> QED BY <1>1, <2>1 DEF GoingInv
<1> QED BY <1>6, <1>7, <1>8 DEF InboxInv

\* A departure that fails, and a member who returns, change nobody's inbox.
LEMMA StayKeeps ==
  ASSUME InboxInv, Hearing!Stay \/ (\E p \in People : Hearing!Return(p)) \/ UNCHANGED inboxVars PROVE InboxInv'
<1>1. /\ leaving' = leaving \/ leaving' = Hearing!Idle
      /\ here \subseteq here' /\ here' \subseteq People
      /\ UNCHANGED <<assignee, watching, inbox, unread, writing, sent, heard, since>>
  BY DEF Hearing!Stay, Hearing!Return, inboxVars, InboxInv, Hearing!InboxTypeOK
<1> QED BY <1>1 DEF InboxInv, Hearing!InboxTypeOK, NewsInv, GoingInv

\* Every step on the inbox keeps the invariant.
LEMMA InboxStep == InboxInv /\ [Hearing!InboxNext]_inboxVars => InboxInv'
<1> SUFFICES ASSUME InboxInv, [Hearing!InboxNext]_inboxVars PROVE InboxInv'
  OBVIOUS
<1>1. ASSUME NEW w \in Writers,
             Hearing!Comment(w) \/ Hearing!MoveState(w) \/ \E p \in People : Hearing!Assign(w, p)
      PROVE  InboxInv'
  <2>1. ASSUME Hearing!Comment(w) PROVE InboxInv'
    <3>1. {writing[w].by} \in SUBSET People
      BY <2>1, WritingRows DEF Hearing!Comment, Hearing!Tell
    <3> QED BY <2>1, <3>1, TellKeeps DEF Hearing!Comment
  <2>2. ASSUME NEW p \in People, Hearing!Assign(w, p) PROVE InboxInv'
    <3>1. {p} \in SUBSET People
      OBVIOUS
    <3> QED BY <2>2, <3>1, TellKeeps DEF Hearing!Assign
  <2>3. ASSUME Hearing!MoveState(w) PROVE InboxInv'
    <3>1. {} \in SUBSET People
      OBVIOUS
    <3> QED BY <2>3, <3>1, TellKeeps DEF Hearing!MoveState
  <2> QED BY <1>1, <2>1, <2>2, <2>3
<1> QED
  BY <1>1, AdmitKeeps, TellingCommitKeeps, SubscribeKeeps, ReadingKeeps, ClearingInboxKeeps, LeaveKeeps, StayKeeps DEF Hearing!InboxNext

-----------------------------------------------------------------------------
(* Saved views and favourites.                                              *)

\* Who wrote after each statement of their departure.
Asked == wrote["asked"]
Unstarred == wrote["unstarred"]
Unviewed == wrote["unviewed"]
Owns(p, v) == view[v] # None /\ view[v].owner = p

\* What the statements of the departure under way have found.
DepartureInv ==
  departing # None => LET p == departing.who IN
    /\ p \in present
    /\ (\E v \in Boards : Owns(p, v) /\ view[v].shared) => p \in Asked
    /\ departing.at \in {"unstarred", "unviewed"} =>
         \A s \in star : s[1] = p => s \in departing.stars \/ p \in Unstarred
    /\ departing.at = "asked" => departing.stars = {}
    /\ departing.at # "unviewed" => departing.views = {}
    /\ departing.at = "unviewed" =>
         /\ \A v \in Boards : Owns(p, v) => v \in departing.views \/ p \in Asked \/ p \in Unviewed
         /\ \A s \in star : s[2] \in departing.views => s \in departing.stars

\* The inductive invariant of the saved views.
ViewInv ==
  /\ Viewing!ViewTypeOK /\ deleting = [p \in People |-> deleting[p]]
  /\ \A v \in Boards : view[v] # None => view[v].stored = Viewing!encode_filter(view[v].saved)
  /\ Viewing!LeaversOwnNothing /\ Viewing!StarsWereVisible /\ DepartureInv

\* What the views assume of their constants.
LEMMA ViewConstants ==
  /\ None \notin People /\ None \notin Viewing!ViewRow
  /\ \A f \in Filters : f = [k \in Viewing!Fields |-> f[k]] /\ \A k \in Viewing!Fields \ Viewing!Nullable : f[k] # None
BY LegalConstants DEF Viewing!LegalViewConstants

\* There are no views at first.
LEMMA ViewStart == Viewing!ViewInit => ViewInv
<1> SUFFICES ASSUME Viewing!ViewInit PROVE ViewInv
  OBVIOUS
<1>1. Viewing!ViewTypeOK
  BY DEF Viewing!ViewInit, Viewing!ViewTypeOK
<1>2. DepartureInv /\ Viewing!LeaversOwnNothing /\ Viewing!StarsWereVisible
  BY DEF Viewing!ViewInit, DepartureInv, Viewing!LeaversOwnNothing, Viewing!StarsWereVisible
<1> QED BY <1>1, <1>2 DEF Viewing!ViewInit, ViewInv

\* What is stored for a filter reads as it.
LEMMA FiltersRead ==
  ASSUME NEW f \in Filters
  PROVE  Viewing!Readable(Viewing!encode_filter(f)) /\ Viewing!decode_filter(Viewing!encode_filter(f)) = f
<1> DEFINE e == Viewing!encode_filter(f)
<1>1. f = [k \in Viewing!Fields |-> f[k]] /\ \A k \in Viewing!Fields \ Viewing!Nullable : f[k] # None
  BY ViewConstants
<1>2. DOMAIN e = {k \in Viewing!Fields : f[k] # Unset} /\ \A k \in DOMAIN e : e[k] = f[k]
  BY DEF Viewing!encode_filter
<1> HIDE DEF e
<1>3. Viewing!Readable(e)
  BY <1>1, <1>2 DEF Viewing!Readable
<1>4. Viewing!decode_filter(e) = [k \in Viewing!Fields |-> f[k]]
  BY <1>2 DEF Viewing!decode_filter
<1> QED BY <1>1, <1>3, <1>4 DEF e

\* The properties follow.
LEMMA ViewProperties ==
  ViewInv => Viewing!LeaversOwnNothing /\ Viewing!StarsWereVisible /\ Viewing!ViewsReadAsSaved
<1> SUFFICES ASSUME ViewInv, NEW v \in Boards, view[v] # None
             PROVE Viewing!Readable(view[v].stored) /\ Viewing!decode_filter(view[v].stored) = view[v].saved
  BY DEF Viewing!ViewsReadAsSaved, ViewInv
<1>1. view[v].saved \in Filters /\ view[v].stored = Viewing!encode_filter(view[v].saved)
  BY DEF ViewInv, Viewing!ViewTypeOK, Viewing!ViewRow
<1> QED BY <1>1, FiltersRead

\* The row of a view that is written, and the rows it is made from.
LEMMA ViewRows ==
  ASSUME NEW f \in Filters, NEW shared \in BOOLEAN, NEW p \in People
  PROVE  LET r == [owner |-> p, shared |-> shared, saved |-> f, stored |-> Viewing!encode_filter(f)] IN
         r \in Viewing!ViewRow /\ r.owner = p /\ r.saved = f /\ r.shared = shared /\ r.stored = Viewing!encode_filter(f)
BY DEF Viewing!ViewRow

\* One who writes is noted in each of the histories.
LEMMA WroteFacts ==
  ASSUME ViewInv, NEW p \in People, Viewing!Wrote(p)
  PROVE  /\ wrote' \in [Viewing!Statements -> SUBSET People]
         /\ p \in Asked' /\ p \in Unstarred' /\ p \in Unviewed'
         /\ \A q \in People : (q \in Asked => q \in Asked') /\ (q \in Unstarred => q \in Unstarred') /\ (q \in Unviewed => q \in Unviewed')
BY DEF ViewInv, Viewing!ViewTypeOK, Viewing!Wrote, Viewing!Statements, Asked, Unstarred, Unviewed

\* A member writes one of their views.
LEMMA WritingAView ==
  ASSUME ViewInv, NEW p \in People, NEW v \in Boards, NEW r \in Viewing!ViewRow, view' = [view EXCEPT ![v] = r],
         r.owner = p, r.stored = Viewing!encode_filter(r.saved), Viewing!Wrote(p),
         view[v] # None => view[v].owner = p /\ v \notin Viewing!GoingViews,
         \A s \in star : s[2] = v => view[v] # None,
         hidden' \subseteq Boards, hidden \ {v} \subseteq hidden', view[v] # None /\ v \in hidden => v \in hidden',
         view[v] # None /\ view[v].shared => r.shared \/ v \in hidden',
         UNCHANGED <<present, star, deleting, departing>>, serving' \subseteq People
  PROVE  ViewInv'
<1>1. view \in [Boards -> Viewing!ViewRow \union {None}] /\ star \subseteq Viewing!Stars
  BY DEF ViewInv, Viewing!ViewTypeOK
<1>2. /\ view' \in [Boards -> Viewing!ViewRow \union {None}] /\ view'[v] = r /\ r # None
      /\ \A u \in Boards \ {v} : view'[u] = view[u]
  BY <1>1, ViewConstants
<1>3. Viewing!ViewTypeOK'
  BY <1>2, WroteFacts DEF ViewInv, Viewing!ViewTypeOK
<1>4. \A s \in star : s[1] \in People /\ s[2] \in Boards
  BY <1>1 DEF Viewing!Stars
<1>5. Viewing!StarsWereVisible'
  <2> SUFFICES ASSUME NEW e \in star
               PROVE  view'[e[2]] # None /\ (view'[e[2]].shared \/ view'[e[2]].owner = e[1] \/ e[2] \in hidden')
    BY DEF Viewing!StarsWereVisible
  <2>1. view[e[2]] # None /\ (view[e[2]].shared \/ view[e[2]].owner = e[1] \/ e[2] \in hidden)
    BY DEF ViewInv, Viewing!StarsWereVisible
  <2>2. CASE e[2] = v
    BY <1>2, <2>1, <2>2
  <2>3. CASE e[2] # v
    BY <1>2, <1>4, <2>1, <2>3
  <2> QED BY <2>2, <2>3
<1>6. \A q \in People, u \in Boards : Owns(q, u)' => q = p \/ (Owns(q, u) /\ (view'[u].shared => view[u].shared))
  BY <1>2 DEF Owns
<1>7. Viewing!LeaversOwnNothing'
  <2> SUFFICES ASSUME NEW q \in People \ present
               PROVE  /\ Viewing!SharedHoldings(q)' => q \in Asked'
                      /\ (\E u \in Boards : <<q, u>> \in star) => q \in Unstarred'
                      /\ (\E u \in Boards : view'[u] # None /\ view'[u].owner = q) => q \in Asked' \union Unviewed'
    BY DEF Viewing!LeaversOwnNothing, Asked, Unstarred, Unviewed
  <2>1. /\ Viewing!SharedHoldings(q) => q \in Asked
        /\ (\E u \in Boards : <<q, u>> \in star) => q \in Unstarred
        /\ (\E u \in Boards : view[u] # None /\ view[u].owner = q) => q \in Asked \union Unviewed
    BY DEF ViewInv, Viewing!LeaversOwnNothing, Asked, Unstarred, Unviewed
  <2> QED BY <1>6, <2>1, WroteFacts DEF Viewing!SharedHoldings, Owns
<1>8. DepartureInv'
  <2>1. CASE departing = None
    BY <2>1 DEF DepartureInv
  <2>2. CASE departing # None
    <3>1. departing.who \in People
      BY <2>2 DEF ViewInv, Viewing!ViewTypeOK
    <3>2. departing.at = "unviewed" => \A u \in Boards : Owns(departing.who, u)' => u \in departing.views \/ departing.who \in Asked' \/ departing.who \in Unviewed'
      BY <1>6, <2>2, <3>1, WroteFacts DEF ViewInv, DepartureInv
    <3>3. (\E u \in Boards : Owns(departing.who, u)' /\ view'[u].shared) => departing.who \in Asked'
      BY <1>6, <2>2, <3>1, WroteFacts DEF ViewInv, DepartureInv
    <3>4. departing.at \in {"unstarred", "unviewed"} =>
            \A s \in star : s[1] = departing.who => s \in departing.stars \/ departing.who \in Unstarred'
      BY <2>2, <3>1, WroteFacts DEF ViewInv, DepartureInv
    <3> QED BY <2>2, <3>2, <3>3, <3>4 DEF ViewInv, DepartureInv
  <2> QED BY <2>1, <2>2
<1>9. \A u \in Boards : view'[u] # None => view'[u].stored = Viewing!encode_filter(view'[u].saved)
  BY <1>2 DEF ViewInv
<1> QED BY <1>3, <1>5, <1>7, <1>8, <1>9 DEF ViewInv

\* A view is created, or rewritten, as its filter is encoded.
LEMMA ViewWrittenKeeps ==
  ASSUME ViewInv, NEW p \in People, NEW v \in Boards, NEW shared \in BOOLEAN, NEW f \in Filters,
         Viewing!Create(p, v, shared, f) \/ Viewing!Update(p, v, shared, f)
  PROVE  ViewInv'
<1>0. view \in [Boards -> Viewing!ViewRow \union {None}] /\ serving \subseteq People /\ hidden \subseteq Boards
  BY DEF ViewInv, Viewing!ViewTypeOK
<1>1. CASE Viewing!Create(p, v, shared, f)
  <2> DEFINE r == [owner |-> p, shared |-> shared, saved |-> f, stored |-> Viewing!encode_filter(f)]
  <2>1. /\ view[v] = None /\ view' = [view EXCEPT ![v] = r] /\ hidden' = hidden \ {v} /\ Viewing!Wrote(p)
        /\ UNCHANGED <<present, star, deleting, departing>> /\ serving' = serving \ {p}
    BY <1>1 DEF Viewing!Create, Viewing!Serve
  <2>2. r \in Viewing!ViewRow /\ r.owner = p /\ r.stored = Viewing!encode_filter(r.saved)
    BY ViewRows
  <2> HIDE DEF r
  <2>3. \A s \in star : s[2] = v => view[v] # None
    BY DEF ViewInv, Viewing!StarsWereVisible
  <2>4. hidden' \subseteq Boards /\ hidden \ {v} \subseteq hidden' /\ serving' \subseteq People
    BY <1>0, <2>1
  <2> QED BY <2>1, <2>2, <2>3, <2>4, WritingAView
<1>2. CASE Viewing!Update(p, v, shared, f)
  <2> DEFINE q == view[v]
             r == [q EXCEPT !.shared = shared, !.saved = f, !.stored = Viewing!encode_filter(f)]
  <2>1. /\ q # None /\ q.owner = p /\ v \notin Viewing!GoingViews
        /\ view' = [view EXCEPT ![v] = r] /\ hidden' = (IF q.shared /\ ~shared THEN hidden \union {v} ELSE hidden)
        /\ Viewing!Wrote(p) /\ UNCHANGED <<present, star, deleting, departing>> /\ serving' = serving \ {p}
    BY <1>0, <1>2 DEF Viewing!Update, Viewing!Serve
  <2>2. q \in Viewing!ViewRow
    BY <1>0, <2>1
  <2>3. r \in Viewing!ViewRow /\ r.owner = q.owner /\ r.saved = f /\ r.shared = shared /\ r.stored = Viewing!encode_filter(f)
    <3> DEFINE S == {Viewing!encode_filter(g) : g \in Filters}
               e == Viewing!encode_filter(f)
    <3>1. q \in [owner : People, shared : BOOLEAN, saved : Filters, stored : S]
      BY <2>2 DEF Viewing!ViewRow
    <3>2. r = [q EXCEPT !.shared = shared, !.saved = f, !.stored = e] /\ e \in S
      OBVIOUS
    <3> HIDE DEF S, e, q, r
    <3>3. r \in [owner : People, shared : BOOLEAN, saved : Filters, stored : S]
      BY <3>1, <3>2
    <3>4. r.owner = q.owner /\ r.saved = f /\ r.shared = shared /\ r.stored = e
      BY <3>1, <3>2
    <3> QED BY <3>3, <3>4 DEF Viewing!ViewRow, S, e
  <2>4. view[v].shared => r.shared \/ v \in hidden'
    BY <2>1, <2>3
  <2> HIDE DEF r
  <2>5. hidden' \subseteq Boards /\ hidden \ {v} \subseteq hidden' /\ (v \in hidden => v \in hidden') /\ serving' \subseteq People
    BY <1>0, <2>1
  <2>6. \A s \in star : s[2] = v => view[v] # None
    BY DEF ViewInv, Viewing!StarsWereVisible
  <2>7. r.owner = p /\ r.stored = Viewing!encode_filter(r.saved)
    BY <2>1, <2>3
  <2> QED BY <2>1, <2>3, <2>4, <2>5, <2>6, <2>7, WritingAView
<1> QED BY <1>1, <1>2

\* A view is starred by who can see it.
LEMMA StarKeeps == ASSUME ViewInv, NEW p \in People, NEW v \in Boards, Viewing!Star(p, v) PROVE ViewInv'
<1> DEFINE e == <<p, v>>
<1>1. /\ serving' = serving \ {p} /\ Viewing!Visible(p, v) /\ v \notin Viewing!GoingViews /\ star' = star \union {e}
      /\ Viewing!Wrote(p) /\ UNCHANGED <<present, view, deleting, departing, hidden>>
  BY DEF Viewing!Star, Viewing!Serve
<1>2. e[1] = p /\ e[2] = v /\ e \in Viewing!Stars
  BY DEF Viewing!Stars
<1> HIDE DEF e
<1>3. Viewing!ViewTypeOK'
  BY <1>1, <1>2, WroteFacts DEF ViewInv, Viewing!ViewTypeOK
<1>4. Viewing!StarsWereVisible'
  BY <1>1, <1>2 DEF ViewInv, Viewing!StarsWereVisible, Viewing!Visible
<1>5. Viewing!LeaversOwnNothing'
  <2> SUFFICES ASSUME NEW q \in People \ present
               PROVE  /\ Viewing!SharedHoldings(q) => q \in Asked'
                      /\ (\E u \in Boards : <<q, u>> \in star') => q \in Unstarred'
                      /\ (\E u \in Boards : view[u] # None /\ view[u].owner = q) => q \in Asked' \union Unviewed'
    BY <1>1 DEF Viewing!LeaversOwnNothing, Asked, Unstarred, Unviewed, Viewing!SharedHoldings
  <2>1. /\ Viewing!SharedHoldings(q) => q \in Asked
        /\ (\E u \in Boards : <<q, u>> \in star) => q \in Unstarred
        /\ (\E u \in Boards : view[u] # None /\ view[u].owner = q) => q \in Asked \union Unviewed
    BY DEF ViewInv, Viewing!LeaversOwnNothing, Asked, Unstarred, Unviewed
  <2>2. \A u \in Boards : <<q, u>> \in star' => <<q, u>> \in star \/ q = p
    BY <1>1 DEF e
  <2> QED BY <1>1, <2>1, <2>2, WroteFacts
<1>6. DepartureInv'
  <2>1. departing # None => departing.who \in People
    BY DEF ViewInv, Viewing!ViewTypeOK
  <2>2. departing # None => v \notin departing.views
    BY <1>1 DEF Viewing!GoingViews
  <2>3. \A s \in star' : s \in star \/ (s[1] = p /\ s[2] = v)
    BY <1>1, <1>2
  <2>4. departing # None /\ departing.at = "unviewed" => \A s \in star' : s[2] \in departing.views => s \in departing.stars
    BY <2>2, <2>3 DEF ViewInv, DepartureInv
  <2>5. departing # None /\ departing.at \in {"unstarred", "unviewed"} =>
          \A s \in star' : s[1] = departing.who => s \in departing.stars \/ departing.who \in Unstarred'
    BY <1>1, <2>1, <2>3, WroteFacts DEF ViewInv, DepartureInv
  <2> QED BY <1>1, <2>1, <2>4, <2>5, WroteFacts DEF ViewInv, DepartureInv, Owns
<1>7. \A u \in Boards : view'[u] # None => view'[u].stored = Viewing!encode_filter(view'[u].saved)
  BY <1>1 DEF ViewInv
<1>8. deleting' = [q \in People |-> deleting'[q]]
  BY <1>1 DEF ViewInv
<1> QED BY <1>3, <1>4, <1>5, <1>6, <1>7, <1>8 DEF ViewInv

\* Views and stars go, and what the histories say stays.
LEMMA LosingKeeps ==
  ASSUME ViewInv, star' \subseteq star, present' \subseteq People, present \subseteq present', UNCHANGED <<departing, wrote>>,
         serving' \subseteq People, hidden' \subseteq hidden,
         deleting' = [q \in People |-> deleting'[q]],
         \A q \in People : deleting'[q] # None => deleting'[q].view \in Boards /\ deleting'[q].stars \subseteq Viewing!Stars,
         view' \in [Boards -> Viewing!ViewRow \union {None}],
         \A u \in Boards : view'[u] = view[u] \/ view'[u] = None,
         \A e \in star' : view'[e[2]] = view[e[2]] /\ (e[2] \in hidden => e[2] \in hidden')
  PROVE  ViewInv'
<1>1. Viewing!ViewTypeOK'
  BY DEF ViewInv, Viewing!ViewTypeOK
<1>2. Viewing!StarsWereVisible'
  BY DEF ViewInv, Viewing!StarsWereVisible
<1>3. Viewing!LeaversOwnNothing'
  <2> SUFFICES ASSUME NEW q \in People \ present
               PROVE  /\ Viewing!SharedHoldings(q)' => q \in Asked
                      /\ (\E u \in Boards : <<q, u>> \in star') => q \in Unstarred
                      /\ (\E u \in Boards : view'[u] # None /\ view'[u].owner = q) => q \in Asked \union Unviewed
    BY DEF Viewing!LeaversOwnNothing, Asked, Unstarred, Unviewed
  <2>1. /\ Viewing!SharedHoldings(q) => q \in Asked
        /\ (\E u \in Boards : <<q, u>> \in star) => q \in Unstarred
        /\ (\E u \in Boards : view[u] # None /\ view[u].owner = q) => q \in Asked \union Unviewed
    BY DEF ViewInv, Viewing!LeaversOwnNothing, Asked, Unstarred, Unviewed
  <2> QED BY <2>1 DEF Viewing!SharedHoldings
<1>4. DepartureInv'
  <2>1. \A q, u : u \in Boards /\ Owns(q, u)' => Owns(q, u) /\ view'[u] = view[u]
    BY DEF Owns
  <2>2. Asked' = Asked /\ Unstarred' = Unstarred /\ Unviewed' = Unviewed
    BY DEF Asked, Unstarred, Unviewed
  <2>3. departing # None => departing.who \in present'
    BY DEF ViewInv, DepartureInv
  <2> QED BY <2>1, <2>2, <2>3 DEF ViewInv, DepartureInv
<1>5. \A u \in Boards : view'[u] # None => view'[u].stored = Viewing!encode_filter(view'[u].saved)
  BY DEF ViewInv
<1> QED BY <1>1, <1>2, <1>3, <1>4, <1>5 DEF ViewInv

\* Requests come, end, delete and unstar.
LEMMA RequestsKeep ==
  ASSUME ViewInv, NEW p \in People,
         \/ Viewing!Admit(p) \/ Viewing!Return(p) \/ Viewing!Delete(p)
         \/ \E v \in Boards : Viewing!Unstar(p, v) \/ Viewing!ClearFor(p, v)
  PROVE  ViewInv'
<1>0. /\ view \in [Boards -> Viewing!ViewRow \union {None}] /\ star \subseteq Viewing!Stars /\ hidden \subseteq Boards
      /\ present \subseteq People /\ serving \subseteq People
      /\ deleting = [q \in People |-> deleting[q]]
      /\ \A q \in People : deleting[q] # None => deleting[q].view \in Boards /\ deleting[q].stars \subseteq Viewing!Stars
  BY DEF ViewInv, Viewing!ViewTypeOK
<1>1. CASE Viewing!Admit(p) \/ Viewing!Return(p) \/ \E v \in Boards : Viewing!Unstar(p, v)
  <2>1. /\ star' \subseteq star /\ present' \subseteq People /\ present \subseteq present' /\ UNCHANGED <<departing, wrote>>
        /\ serving' \subseteq People /\ hidden' = hidden /\ deleting' = deleting /\ view' = view
    BY <1>0, <1>1 DEF Viewing!Admit, Viewing!Return, Viewing!Unstar, Viewing!Serve
  <2> QED BY <1>0, <2>1, LosingKeeps
<1>2. ASSUME NEW v \in Boards, Viewing!ClearFor(p, v) PROVE ViewInv'
  <2> DEFINE d == [view |-> v, stars |-> {s \in star : s[2] = v}]
  <2>1. /\ star' = star /\ present' = present /\ UNCHANGED <<departing, wrote>> /\ serving' = serving
        /\ hidden' = hidden /\ deleting' = [deleting EXCEPT ![p] = d] /\ view' = view
    BY <1>2 DEF Viewing!ClearFor
  <2>2. d.view = v /\ d.stars \subseteq Viewing!Stars
    BY <1>0
  <2> HIDE DEF d
  <2>3. /\ deleting' = [q \in People |-> deleting'[q]]
        /\ \A q \in People : deleting'[q] # None => deleting'[q].view \in Boards /\ deleting'[q].stars \subseteq Viewing!Stars
    BY <1>0, <2>1, <2>2
  <2> QED BY <1>0, <2>1, <2>3, LosingKeeps
<1>3. CASE Viewing!Delete(p)
  <2> DEFINE v == deleting[p].view
  <2>1. /\ deleting[p] # None /\ deleting' = [deleting EXCEPT ![p] = None] /\ serving' = serving \ {p}
        /\ UNCHANGED <<present, departing, wrote>>
        /\ \/ /\ \A s \in star : s[2] = v => s \in deleting[p].stars
              /\ view' = [view EXCEPT ![v] = None] /\ star' = star \ deleting[p].stars /\ hidden' = hidden \ {v}
           \/ UNCHANGED <<view, star, hidden>>
    BY <1>3 DEF Viewing!Delete
  <2>2. v \in Boards
    BY <1>0, <2>1
  <2> HIDE DEF v
  <2>3. /\ deleting' = [q \in People |-> deleting'[q]]
        /\ \A q \in People : deleting'[q] # None => deleting'[q].view \in Boards /\ deleting'[q].stars \subseteq Viewing!Stars
    BY <1>0, <2>1
  <2>4. /\ view' \in [Boards -> Viewing!ViewRow \union {None}] /\ \A u \in Boards : view'[u] = view[u] \/ view'[u] = None
        /\ star' \subseteq star /\ hidden' \subseteq hidden
    BY <1>0, <2>1, <2>2
  <2>5. \A e \in star : e[2] \in Boards
    BY <1>0 DEF Viewing!Stars
  <2>6. \A e \in star' : view'[e[2]] = view[e[2]] /\ (e[2] \in hidden => e[2] \in hidden')
    BY <1>0, <2>1, <2>2, <2>5
  <2>7. present' \subseteq People /\ present \subseteq present' /\ serving' \subseteq People /\ UNCHANGED <<departing, wrote>>
    BY <1>0, <2>1
  <2> QED BY <2>3, <2>4, <2>6, <2>7, LosingKeeps
<1> QED BY <1>1, <1>2, <1>3

\* A departure's statement has found what it will delete; "since" forgets who wrote before it.
LEMMA AskingKeeps ==
  ASSUME ViewInv, NEW d, departing' = d, NEW p \in present, NEW at \in Viewing!Statements, wrote' = [wrote EXCEPT ![at] = @ \ {p}] \/ wrote' = wrote,
         UNCHANGED <<present, serving, view, star, deleting, hidden>>,
         d # None => d \in [who : People, at : Viewing!Statements, stars : SUBSET Viewing!Stars, views : SUBSET Boards],
         DepartureInv'
  PROVE  ViewInv'
<1>1. /\ present \subseteq People /\ wrote \in [Viewing!Statements -> SUBSET People]
      /\ \A v \in Boards : view[v] # None => view[v].owner \in People
  BY DEF ViewInv, Viewing!ViewTypeOK, Viewing!ViewRow
<1>2. /\ wrote' \in [Viewing!Statements -> SUBSET People]
      /\ \A s \in Viewing!Statements, q \in People : q # p /\ q \in wrote[s] => q \in wrote'[s]
  BY <1>1
<1>3. Viewing!ViewTypeOK'
  BY <1>2 DEF ViewInv, Viewing!ViewTypeOK
<1>4. Viewing!StarsWereVisible'
  BY DEF ViewInv, Viewing!StarsWereVisible
<1>5. Viewing!LeaversOwnNothing'
  <2> SUFFICES ASSUME NEW q \in People \ present
               PROVE  /\ Viewing!SharedHoldings(q) => q \in Asked'
                      /\ (\E u \in Boards : <<q, u>> \in star) => q \in Unstarred'
                      /\ (\E u \in Boards : view[u] # None /\ view[u].owner = q) => q \in Asked' \union Unviewed'
    BY DEF Viewing!LeaversOwnNothing, Asked, Unstarred, Unviewed, Viewing!SharedHoldings
  <2>1. /\ Viewing!SharedHoldings(q) => q \in Asked
        /\ (\E u \in Boards : <<q, u>> \in star) => q \in Unstarred
        /\ (\E u \in Boards : view[u] # None /\ view[u].owner = q) => q \in Asked \union Unviewed
    BY DEF ViewInv, Viewing!LeaversOwnNothing, Asked, Unstarred, Unviewed
  <2>2. q # p /\ q \in People
    OBVIOUS
  <2>3. (q \in Asked => q \in Asked') /\ (q \in Unstarred => q \in Unstarred') /\ (q \in Unviewed => q \in Unviewed')
    BY <1>2, <2>2 DEF Asked, Unstarred, Unviewed, Viewing!Statements
  <2> QED BY <2>1, <2>3
<1>6. \A u \in Boards : view'[u] # None => view'[u].stored = Viewing!encode_filter(view'[u].saved)
  BY DEF ViewInv
<1>7. deleting' = [q \in People |-> deleting'[q]]
  BY DEF ViewInv
<1> QED BY <1>3, <1>4, <1>5, <1>6, <1>7 DEF ViewInv

\* A departure asks first whether the member owns a shared view.
LEMMA AskKeeps == ASSUME ViewInv, NEW p \in People, Viewing!Ask(p) PROVE ViewInv'
<1> DEFINE d == [who |-> p, at |-> "asked", stars |-> {}, views |-> {}]
<1>1. /\ p \in present /\ ~Viewing!SharedHoldings(p) /\ departing' = d /\ wrote' = [wrote EXCEPT !["asked"] = @ \ {p}]
      /\ UNCHANGED <<present, serving, view, star, deleting, hidden>>
  BY DEF Viewing!Ask
<1>2. /\ d \in [who : People, at : Viewing!Statements, stars : SUBSET Viewing!Stars, views : SUBSET Boards]
      /\ d.who = p /\ d.at = "asked" /\ d.stars = {} /\ d.views = {}
  BY DEF Viewing!Statements
<1> HIDE DEF d
<1>3. DepartureInv'
  BY <1>1, <1>2 DEF DepartureInv, Viewing!SharedHoldings, Owns
<1>4. "asked" \in Viewing!Statements
  BY DEF Viewing!Statements
<1> QED BY <1>1, <1>2, <1>3, <1>4, AskingKeeps

\* What a departure holds.
LEMMA DepartureRows ==
  ASSUME ViewInv, departing # None
  PROVE  departing \in [who : People, at : {"asked", "unstarred", "unviewed"}, stars : SUBSET Viewing!Stars, views : SUBSET Boards]
BY DEF ViewInv, Viewing!ViewTypeOK, Viewing!Statements

\* A departure takes the favourites away that it finds.
LEMMA LeaveStarsKeeps == ASSUME ViewInv, Viewing!LeaveStars PROVE ViewInv'
<1> DEFINE p == departing.who
           mine == {s \in star : s[1] = p}
           d == [departing EXCEPT !.at = "unstarred", !.stars = mine]
<1>1. /\ departing # None /\ departing.at = "asked" /\ departing' = d
      /\ wrote' = [wrote EXCEPT !["unstarred"] = @ \ {p}] /\ UNCHANGED <<present, serving, view, star, deleting, hidden>>
  BY DEF Viewing!LeaveStars
<1>2. departing \in [who : People, at : {"asked", "unstarred", "unviewed"}, stars : SUBSET Viewing!Stars, views : SUBSET Boards]
  BY <1>1, DepartureRows
<1>3. mine \subseteq Viewing!Stars /\ \A s \in star : s[1] = p => s \in mine
  BY DEF ViewInv, Viewing!ViewTypeOK
<1> HIDE DEF mine
<1>4. /\ d \in [who : People, at : {"asked", "unstarred", "unviewed"}, stars : SUBSET Viewing!Stars, views : SUBSET Boards]
      /\ d.who = p /\ d.at = "unstarred" /\ d.stars = mine /\ d.views = departing.views
  BY <1>2, <1>3
<1> HIDE DEF d
<1>5. DepartureInv'
  <2>1. wrote'["asked"] = wrote["asked"]
    BY <1>1 DEF ViewInv, Viewing!ViewTypeOK, Viewing!Statements
  <2>2. p \in present /\ ((\E v \in Boards : Owns(p, v) /\ view[v].shared) => p \in Asked) /\ departing.views = {}
    BY <1>1 DEF ViewInv, DepartureInv
  <2> HIDE DEF p
  <2> QED BY <1>1, <1>3, <1>4, <2>1, <2>2 DEF DepartureInv, Asked, Owns
<1>6. p \in present /\ "unstarred" \in Viewing!Statements
  BY <1>1 DEF ViewInv, DepartureInv, Viewing!Statements
<1>7. d # None => d \in [who : People, at : Viewing!Statements, stars : SUBSET Viewing!Stars, views : SUBSET Boards]
  BY <1>4 DEF Viewing!Statements
<1> HIDE DEF p
<1> QED BY <1>1, <1>5, <1>6, <1>7, AskingKeeps

\* A departure takes the views away that it finds, and their favourites with them.
LEMMA LeaveViewsKeeps == ASSUME ViewInv, Viewing!LeaveViews PROVE ViewInv'
<1> DEFINE p == departing.who
           mine == {v \in Boards : view[v] # None /\ view[v].owner = p /\ ~view[v].shared}
           d == [departing EXCEPT !.at = "unviewed", !.views = mine]
<1>1. /\ departing # None /\ departing.at = "unstarred" /\ UNCHANGED <<present, serving, view, star, deleting, hidden>>
      /\ \/ /\ \A s \in star : s[2] \in mine => s \in departing.stars
            /\ departing' = d /\ wrote' = [wrote EXCEPT !["unviewed"] = @ \ {p}]
         \/ departing' = None /\ wrote' = wrote
  BY DEF Viewing!LeaveViews
<1>2. departing \in [who : People, at : {"asked", "unstarred", "unviewed"}, stars : SUBSET Viewing!Stars, views : SUBSET Boards]
  BY <1>1, DepartureRows
<1>3. mine \subseteq Boards /\ \A v \in Boards : Owns(p, v) => v \in mine \/ view[v].shared
  BY DEF Owns
<1> HIDE DEF mine
<1>4. /\ d \in [who : People, at : {"asked", "unstarred", "unviewed"}, stars : SUBSET Viewing!Stars, views : SUBSET Boards]
      /\ d.who = p /\ d.at = "unviewed" /\ d.stars = departing.stars /\ d.views = mine
  BY <1>2, <1>3
<1>6. p \in present /\ "unviewed" \in Viewing!Statements
  BY <1>1 DEF ViewInv, DepartureInv, Viewing!Statements
<1>7. d # None => d \in [who : People, at : Viewing!Statements, stars : SUBSET Viewing!Stars, views : SUBSET Boards]
  BY <1>4 DEF Viewing!Statements
<1> HIDE DEF d
<1>8. CASE departing' = None /\ wrote' = wrote
  <2>1. DepartureInv'
    BY <1>8 DEF DepartureInv
  <2> HIDE DEF p
  <2> QED BY <1>1, <1>6, <1>8, <2>1, AskingKeeps
<1>9. CASE /\ \A s \in star : s[2] \in mine => s \in departing.stars
           /\ departing' = d /\ wrote' = [wrote EXCEPT !["unviewed"] = @ \ {p}]
  <2>1. wrote'["asked"] = wrote["asked"] /\ wrote'["unstarred"] = wrote["unstarred"]
    BY <1>9 DEF ViewInv, Viewing!ViewTypeOK, Viewing!Statements
  <2>2. /\ p \in present /\ ((\E v \in Boards : Owns(p, v) /\ view[v].shared) => p \in Asked)
        /\ \A s \in star : s[1] = p => s \in departing.stars \/ p \in Unstarred
    BY <1>1 DEF ViewInv, DepartureInv
  <2>3. Asked' = Asked /\ Unstarred' = Unstarred
    BY <2>1 DEF Asked, Unstarred
  <2> HIDE DEF p
  <2>4. \A v \in Boards : Owns(p, v) => v \in mine \/ p \in Asked
    BY <1>3, <2>2
  <2>5. DepartureInv'
    BY <1>1, <1>4, <1>9, <2>2, <2>3, <2>4 DEF DepartureInv, Owns
  <2> QED BY <1>1, <1>6, <1>7, <1>9, <2>5, AskingKeeps
<1> QED BY <1>1, <1>8, <1>9

\* The membership goes last.
LEMMA DepartingKeeps == ASSUME ViewInv, Viewing!Leave PROVE ViewInv'
<1> DEFINE p == departing.who
<1>1. /\ departing # None /\ departing.at = "unviewed" /\ present' = present \ {p} /\ star' = star \ departing.stars
      /\ view' = [v \in Boards |-> IF v \in departing.views THEN None ELSE view[v]]
      /\ hidden' = hidden \ departing.views /\ departing' = None /\ UNCHANGED <<serving, deleting, wrote>>
  BY DEF Viewing!Leave
<1>2. /\ view \in [Boards -> Viewing!ViewRow \union {None}] /\ star \subseteq Viewing!Stars
      /\ p \in People
  BY <1>1 DEF ViewInv, Viewing!ViewTypeOK
<1>3. /\ \A s \in star : s[1] = p => s \in departing.stars \/ p \in Unstarred
      /\ \A v \in Boards : Owns(p, v) => v \in departing.views \/ p \in Asked \/ p \in Unviewed
      /\ (\E v \in Boards : Owns(p, v) /\ view[v].shared) => p \in Asked
      /\ \A s \in star : s[2] \in departing.views => s \in departing.stars
  BY <1>1 DEF ViewInv, DepartureInv
<1> HIDE DEF p
<1>4. /\ view' \in [Boards -> Viewing!ViewRow \union {None}]
      /\ \A v \in Boards : view'[v] = (IF v \in departing.views THEN None ELSE view[v])
  BY <1>1, <1>2
<1>5. Viewing!ViewTypeOK'
  BY <1>1, <1>4 DEF ViewInv, Viewing!ViewTypeOK
<1>6. \A s \in star : s[2] \in Boards
  BY <1>2 DEF Viewing!Stars
<1>7. Viewing!StarsWereVisible'
  <2>1. \A e \in star' : e \in star /\ e[2] \notin departing.views /\ view'[e[2]] = view[e[2]]
    BY <1>1, <1>3, <1>4, <1>6
  <2> QED BY <1>1, <2>1 DEF ViewInv, Viewing!StarsWereVisible
<1>8. Viewing!LeaversOwnNothing'
  <2> SUFFICES ASSUME NEW q \in People \ present'
               PROVE  /\ Viewing!SharedHoldings(q)' => q \in Asked
                      /\ (\E u \in Boards : <<q, u>> \in star') => q \in Unstarred
                      /\ (\E u \in Boards : view'[u] # None /\ view'[u].owner = q) => q \in Asked \union Unviewed
    BY <1>1 DEF Viewing!LeaversOwnNothing, Asked, Unstarred, Unviewed
  <2>1. CASE q = p
    <3>1. \A u \in Boards : view'[u] # None => view'[u] = view[u] /\ u \notin departing.views
      BY <1>4
    <3>2. (\E u \in Boards : <<q, u>> \in star') => q \in Unstarred
      <4> SUFFICES ASSUME NEW u \in Boards, <<q, u>> \in star' PROVE q \in Unstarred
        OBVIOUS
      <4>1. <<q, u>>[1] = p
        BY <2>1
      <4> QED BY <1>1, <1>3, <2>1, <4>1
    <3> QED BY <1>3, <2>1, <3>1, <3>2 DEF Viewing!SharedHoldings, Owns
  <2>2. CASE q # p
    <3>1. q \notin present /\ \A u \in Boards : view'[u] # None => view'[u] = view[u]
      BY <1>1, <1>4, <2>2
    <3>2. /\ Viewing!SharedHoldings(q) => q \in Asked
          /\ (\E u \in Boards : <<q, u>> \in star) => q \in Unstarred
          /\ (\E u \in Boards : view[u] # None /\ view[u].owner = q) => q \in Asked \union Unviewed
      BY <3>1 DEF ViewInv, Viewing!LeaversOwnNothing, Asked, Unstarred, Unviewed
    <3> QED BY <1>1, <3>1, <3>2 DEF Viewing!SharedHoldings
  <2> QED BY <2>1, <2>2
<1>9. DepartureInv'
  BY <1>1 DEF DepartureInv
<1>10. \A u \in Boards : view'[u] # None => view'[u].stored = Viewing!encode_filter(view'[u].saved)
  BY <1>4 DEF ViewInv
<1>11. deleting' = [q \in People |-> deleting'[q]]
  BY <1>1 DEF ViewInv
<1> QED BY <1>5, <1>7, <1>8, <1>9, <1>10, <1>11 DEF ViewInv

\* Every step on views and favourites keeps the invariant.
LEMMA ViewStep == ViewInv /\ [Viewing!ViewNext]_viewVars => ViewInv'
<1> SUFFICES ASSUME ViewInv, [Viewing!ViewNext]_viewVars PROVE ViewInv'
  OBVIOUS
<1>1. CASE UNCHANGED viewVars
  <2>1. UNCHANGED <<present, serving, view, star, deleting, departing, wrote, hidden>>
    BY <1>1 DEF viewVars
  <2>2. Viewing!ViewTypeOK' /\ Viewing!LeaversOwnNothing' /\ Viewing!StarsWereVisible' /\ DepartureInv'
    BY <2>1 DEF ViewInv, Viewing!ViewTypeOK, Viewing!LeaversOwnNothing, Viewing!StarsWereVisible, DepartureInv,
       Asked, Unstarred, Unviewed, Owns, Viewing!SharedHoldings
  <2> QED BY <2>1, <2>2 DEF ViewInv
<1> QED BY <1>1, ViewWrittenKeeps, StarKeeps, RequestsKeep, AskKeeps, LeaveStarsKeeps, LeaveViewsKeeps, DepartingKeeps DEF Viewing!ViewNext

-----------------------------------------------------------------------------
(* What members lead and hold.                                              *)

\* What is held is held by a member, or by someone it was given to since.
HoldingInv ==
  /\ Holding!HoldingTypeOK
  /\ \A h \in Shares : holder[h] = None \/ holder[h] \in member \union later
  /\ \A p \in probed : p \in member /\ \A h \in Shares : holder[h] = p => p \in later

\* Members begin with nothing in their name.
LEMMA HoldingStart == Holding!HoldingInit => HoldingInv
BY LegalConstants DEF HoldingInv, Holding!HoldingInit, Holding!HoldingTypeOK

\* Whoever leaves has been probed, and what was given them after the probe is late.
LEMMA HoldingStep == HoldingInv /\ [Holding!HoldingNext]_holdingVars => HoldingInv'
<1> SUFFICES ASSUME HoldingInv, [Holding!HoldingNext]_holdingVars PROVE HoldingInv'
  OBVIOUS
<1> USE DEF HoldingInv, Holding!HoldingTypeOK
<1>0. None \notin Colleagues
  BY LegalConstants DEF Holding!LegalHoldingConstants
<1>1. ASSUME NEW p \in Colleagues, Holding!Admit(p) \/ Holding!Finish(p) PROVE HoldingInv'
  BY <1>1 DEF Holding!Admit, Holding!Finish
<1>2. ASSUME NEW p \in Colleagues, Holding!Probe(p) PROVE HoldingInv'
  BY <1>2 DEF Holding!Probe, Holding!shared_holdings
<1>3. ASSUME NEW p \in Colleagues, Holding!mark_removed(p) \/ Holding!Keep(p) \/ Holding!Rejoin(p) PROVE HoldingInv'
  BY <1>3 DEF Holding!mark_removed, Holding!Keep, Holding!Rejoin
<1>4. ASSUME NEW p \in Colleagues, NEW h \in Shares, NEW q \in Colleagues \union {None}, Holding!Name(h, p, q) PROVE HoldingInv'
  BY <1>4, <1>0 DEF Holding!Name
<1>5. CASE UNCHANGED holdingVars
  BY <1>5 DEF holdingVars
<1> QED
  BY <1>1, <1>2, <1>3, <1>4, <1>5 DEF Holding!HoldingNext, Holding!Release, Holding!Take, Holding!Hand

-----------------------------------------------------------------------------
(* Slack channels, and the repositories that are tracked.                   *)

\* What is shown while a refresh is about to hide the rest was listed by it, found by it, or listed by one it met;
\* and only a connection has channels, or a refresh that has written.
ChannelInv ==
  /\ Refreshing!ChannelTypeOK /\ offered \subseteq recent
  /\ ~connected => known = {} /\ \A c \in Clients : ~Refreshing!Writing(c)
  /\ \A c \in Clients : refresh[c].stage = "hiding" => offered \subseteq refresh[c].list \union refresh[c].others \union between[c]

\* No channel is known at first.
LEMMA ChannelStart == Refreshing!ChannelInit => ChannelInv
<1> SUFFICES ASSUME Refreshing!ChannelInit PROVE ChannelInv
  OBVIOUS
<1> DEFINE R == [stage : {"idle", "listed", "written", "hiding"}, list : SUBSET Channels, others : SUBSET Channels]
<1>1. Refreshing!Idle \in R /\ Refreshing!Idle.stage = "idle"
  BY DEF Refreshing!Idle
<1>2. /\ connected = FALSE /\ known = {} /\ offered = {} /\ default = None
      /\ refresh = [c \in Clients |-> Refreshing!Idle] /\ choice = None
      /\ between = [c \in Clients |-> {}] /\ recent = {}
  BY DEF Refreshing!ChannelInit
<1>3. Refreshing!ChannelTypeOK
  BY <1>1, <1>2 DEF Refreshing!ChannelTypeOK
<1> HIDE DEF R
<1> QED BY <1>1, <1>2, <1>3 DEF ChannelInv, Refreshing!Writing

\* A refresh lists, writes and looks without hiding a channel.
LEMMA RefreshMoves ==
  ASSUME ChannelInv, NEW c \in Clients, NEW S \in SUBSET Channels,
         Refreshing!List(c, S) \/ Refreshing!Upsert(c) \/ Refreshing!Look(c) \/ Refreshing!Fail(c)
  PROVE  ChannelInv'
<1> DEFINE R == [stage : {"idle", "listed", "written", "hiding"}, list : SUBSET Channels, others : SUBSET Channels]
           r == refresh[c]
<1>0. refresh \in [Clients -> R] /\ r \in R /\ Refreshing!Idle \in R /\ Refreshing!Idle.stage = "idle"
  BY DEF ChannelInv, Refreshing!ChannelTypeOK, Refreshing!Idle
<1>1. ASSUME NEW s \in R, refresh' = [refresh EXCEPT ![c] = s],
             s.stage = "hiding" => offered \subseteq s.list \union s.others,
             s.stage \in {"written", "hiding"} => connected,
             UNCHANGED <<connected, known, offered, default, choice, recent>>,
             between' \in [Clients -> SUBSET Channels], \A d \in Clients \ {c} : between'[d] = between[d]
      PROVE  ChannelInv'
  <2>1. refresh' \in [Clients -> R] /\ refresh'[c] = s /\ \A d \in Clients \ {c} : refresh'[d] = refresh[d]
    BY <1>0, <1>1
  <2>2. Refreshing!ChannelTypeOK'
    BY <1>1, <2>1 DEF ChannelInv, Refreshing!ChannelTypeOK
  <2> HIDE DEF R
  <2> QED BY <1>1, <2>1, <2>2 DEF ChannelInv, Refreshing!Writing
<1>2. CASE Refreshing!List(c, S)
  <2> DEFINE s == [Refreshing!Idle EXCEPT !.stage = "listed", !.list = S]
  <2>1. s \in R /\ s.stage = "listed"
    BY DEF Refreshing!Idle
  <2>2. refresh' = [refresh EXCEPT ![c] = s] /\ UNCHANGED <<connected, known, offered, default, choice, between, recent>>
    BY <1>2 DEF Refreshing!List
  <2> HIDE DEF s, R
  <2> QED BY <1>1, <2>1, <2>2 DEF ChannelInv, Refreshing!ChannelTypeOK
<1>3. CASE Refreshing!Upsert(c)
  <2> DEFINE s == [r EXCEPT !.stage = "written"]
  <2>1. s \in R /\ s.stage = "written"
    BY <1>0
  <2>2. connected /\ refresh' = [refresh EXCEPT ![c] = s] /\ UNCHANGED <<connected, known, offered, default, choice, between, recent>>
    BY <1>3 DEF Refreshing!Upsert
  <2> HIDE DEF s, R
  <2> QED BY <1>1, <2>1, <2>2 DEF ChannelInv, Refreshing!ChannelTypeOK
<1>4. CASE Refreshing!Look(c)
  <2> DEFINE o == Refreshing!Others(c)
             s == [r EXCEPT !.stage = "hiding", !.others = o]
  <2>1. o = offered \ r.list /\ o \subseteq Channels
    BY DEF Refreshing!Others, ChannelInv, Refreshing!ChannelTypeOK
  <2>2. connected /\ refresh' = [refresh EXCEPT ![c] = s] /\ UNCHANGED <<connected, known, offered, default, choice, between, recent>>
    BY <1>4 DEF Refreshing!Look, ChannelInv, Refreshing!Writing
  <2> HIDE DEF o
  <2>3. s \in R /\ s.list = r.list /\ s.others = o
    BY <1>0, <2>1
  <2> HIDE DEF s, R, r
  <2> QED BY <1>1, <2>1, <2>2, <2>3 DEF ChannelInv, Refreshing!ChannelTypeOK
<1>5. CASE Refreshing!Fail(c)
  <2>1. refresh' = [refresh EXCEPT ![c] = Refreshing!Idle] /\ between' = [between EXCEPT ![c] = {}]
        /\ UNCHANGED <<connected, known, offered, default, choice, recent>>
    BY <1>5 DEF Refreshing!Fail
  <2>2. between' \in [Clients -> SUBSET Channels] /\ \A d \in Clients \ {c} : between'[d] = between[d]
    BY <2>1 DEF ChannelInv, Refreshing!ChannelTypeOK
  <2> HIDE DEF R
  <2> QED BY <1>0, <1>1, <2>1, <2>2
<1> QED BY <1>2, <1>3, <1>4, <1>5

\* A refresh hides what it looked up and did not list.
LEMMA HideKeeps == ASSUME ChannelInv, NEW c \in Clients, Refreshing!Hide(c) PROVE ChannelInv'
<1> DEFINE r == refresh[c]
<1>1. /\ r.stage = "hiding" /\ known' = known \union r.list
      /\ offered' = (offered \ r.others) \union r.list /\ recent' = r.list \union between[c]
      /\ between' = [d \in Clients |-> IF d # c /\ refresh[d].stage = "hiding" THEN between[d] \union r.list ELSE {}]
      /\ refresh' = [refresh EXCEPT ![c] = Refreshing!Idle] /\ UNCHANGED <<connected, default, choice>>
  BY DEF Refreshing!Hide
<1>2. r.list \subseteq Channels /\ r.others \subseteq Channels /\ offered \subseteq r.list \union r.others \union between[c]
  BY <1>1 DEF ChannelInv, Refreshing!ChannelTypeOK
<1>3. /\ refresh'[c] = Refreshing!Idle /\ Refreshing!Idle.stage = "idle" /\ \A d \in Clients \ {c} : refresh'[d] = refresh[d]
      /\ refresh' \in [Clients -> [stage : {"idle", "listed", "written", "hiding"}, list : SUBSET Channels, others : SUBSET Channels]]
  BY <1>1 DEF ChannelInv, Refreshing!ChannelTypeOK, Refreshing!Idle
<1>8. connected /\ connected'
  BY <1>1 DEF ChannelInv, Refreshing!Writing
<1> HIDE DEF r
<1>4. between' \in [Clients -> SUBSET Channels]
  BY <1>1, <1>2 DEF ChannelInv, Refreshing!ChannelTypeOK
<1>5. Refreshing!ChannelTypeOK'
  BY <1>1, <1>2, <1>3, <1>4 DEF ChannelInv, Refreshing!ChannelTypeOK
<1>6. offered' \subseteq recent'
  BY <1>1, <1>2
<1>7. ASSUME NEW d \in Clients, refresh'[d].stage = "hiding"
      PROVE  offered' \subseteq refresh'[d].list \union refresh'[d].others \union between'[d]
  <2>1. d # c /\ refresh'[d] = refresh[d] /\ between'[d] = between[d] \union r.list
    BY <1>1, <1>3, <1>7
  <2> QED BY <1>1, <1>7, <2>1 DEF ChannelInv
<1> QED BY <1>5, <1>6, <1>7, <1>8 DEF ChannelInv

\* Every step on channels keeps the invariant.
LEMMA ChannelStep == ChannelInv /\ [Refreshing!ChannelNext]_channelVars => ChannelInv'
<1> SUFFICES ASSUME ChannelInv, [Refreshing!ChannelNext]_channelVars PROVE ChannelInv'
  OBVIOUS
<1>1. CASE Refreshing!Connect \/ Refreshing!Disconnect \/ Refreshing!Settle \/ \E x \in Channels : Refreshing!Choose(x)
  BY <1>1 DEF Refreshing!Connect, Refreshing!Disconnect, Refreshing!Settle, Refreshing!Choose, Refreshing!Chosen, Refreshing!Writing, ChannelInv, Refreshing!ChannelTypeOK
<1>2. CASE UNCHANGED channelVars
  BY <1>2 DEF channelVars, Refreshing!Writing, ChannelInv, Refreshing!ChannelTypeOK
<1>3. ASSUME NEW c \in Clients,
             \/ \E S \in SUBSET Channels : Refreshing!List(c, S)
             \/ Refreshing!Upsert(c) \/ Refreshing!Look(c) \/ Refreshing!Hide(c) \/ Refreshing!Fail(c)
      PROVE  ChannelInv'
  <2>1. {} \in SUBSET Channels
    OBVIOUS
  <2> QED BY <1>3, <2>1, RefreshMoves, HideKeeps
<1> QED BY <1>1, <1>2, <1>3 DEF Refreshing!ChannelNext

-----------------------------------------------------------------------------
\* Once the releases have been read, whatever one named at the beginning is in the selection.
TrackingInv ==
  /\ Selecting!TrackingTypeOK /\ Selecting!ReleasedStayTracked
  /\ \A a \in Admins : saving[a] # None =>
       /\ saving[a].at = "looked" => saving[a].begun \subseteq released /\ saving[a].begun \ saving[a].wanted \subseteq saving[a].dropped
       /\ saving[a].at # "looked" => saving[a].begun \subseteq saving[a].wanted

\* Nothing is tracked at first, and nobody saves.
LEMMA TrackingStart == Selecting!TrackingInit => TrackingInv
BY DEF Selecting!TrackingInit, Selecting!TrackingTypeOK, Selecting!ReleasedStayTracked, Selecting!Rows, TrackingInv

\* A save moves on, and only its own record changes.
LEMMA SavingMoves ==
  ASSUME TrackingInv, NEW a \in Admins, NEW s \in Selecting!SaveType \union {None}, Selecting!Step(a, s),
         UNCHANGED <<selected, released, rules, detached>>,
         s # None => /\ s.at = "looked" => s.begun \subseteq released /\ s.begun \ s.wanted \subseteq s.dropped
                     /\ s.at # "looked" => s.begun \subseteq s.wanted
  PROVE  TrackingInv'
<1>1. /\ saving' \in [Admins -> Selecting!SaveType \union {None}] /\ saving'[a] = s
      /\ \A b \in Admins \ {a} : saving'[b] = saving[b]
  BY DEF TrackingInv, Selecting!TrackingTypeOK, Selecting!Step
<1>2. Selecting!TrackingTypeOK'
  BY <1>1 DEF TrackingInv, Selecting!TrackingTypeOK, Selecting!Rows
<1>3. Selecting!ReleasedStayTracked'
  BY DEF TrackingInv, Selecting!ReleasedStayTracked
<1> QED BY <1>1, <1>2, <1>3 DEF TrackingInv

\* What a save holds before it writes, and while it does.
LEMMA SavingRows ==
  ASSUME TrackingInv, NEW a \in Admins, saving[a] # None
  PROVE  /\ saving[a].wanted \subseteq Covered /\ saving[a].begun \subseteq Covered
         /\ saving[a].at = "writing" =>
              saving[a] \in [at : {"writing"}, wanted : SUBSET Covered, left : SUBSET Covered, held : SUBSET Covered, begun : SUBSET Covered]
         /\ saving[a].at # "writing" =>
              saving[a] \in [at : {"looked", "probed"}, wanted : SUBSET Covered, dropped : SUBSET Covered, begun : SUBSET Covered]
BY DEF TrackingInv, Selecting!TrackingTypeOK, Selecting!SaveType

\* A save looks, probes for releases, and visits rows one at a time.
LEMMA SavesKeep ==
  ASSUME TrackingInv, NEW a \in Admins,
         \/ \E wanted \in SUBSET Covered : Selecting!Look(a, wanted)
         \/ Selecting!Probe(a) \/ Selecting!Update(a) \/ Selecting!Rollback(a)
         \/ \E r \in Covered : Selecting!Visit(a, r)
  PROVE  TrackingInv'
<1> DEFINE s == saving[a]
<1>0. Selecting!Rows \subseteq Covered /\ released \subseteq Selecting!Rows
  BY DEF TrackingInv, Selecting!TrackingTypeOK
<1>1. ASSUME NEW wanted \in SUBSET Covered, Selecting!Look(a, wanted) PROVE TrackingInv'
  <2> DEFINE t == [at |-> "looked", wanted |-> wanted, dropped |-> Selecting!Rows \ wanted, begun |-> released]
  <2>1. Selecting!Step(a, t) /\ UNCHANGED <<selected, released, rules, detached>>
    BY <1>1 DEF Selecting!Look
  <2>2. /\ t \in Selecting!SaveType /\ t.at = "looked"
        /\ t.begun \subseteq released /\ t.begun \ t.wanted \subseteq t.dropped
    BY <1>0 DEF Selecting!SaveType
  <2> HIDE DEF t
  <2> QED BY <2>1, <2>2, SavingMoves
<1>2. CASE Selecting!Probe(a)
  <2> DEFINE t == [s EXCEPT !.at = "probed"]
  <2>1. /\ s # None /\ s.at = "looked" /\ UNCHANGED <<selected, released, rules, detached>>
        /\ Selecting!Step(a, IF s.dropped \intersect released = {} THEN t ELSE None)
    BY <1>2 DEF Selecting!Probe
  <2>2. s \in [at : {"looked", "probed"}, wanted : SUBSET Covered, dropped : SUBSET Covered, begun : SUBSET Covered]
    BY <2>1, SavingRows
  <2>3. s.begun \subseteq released /\ s.begun \ s.wanted \subseteq s.dropped
    BY <2>1 DEF TrackingInv
  <2> HIDE DEF s
  <2>4. t \in Selecting!SaveType /\ t.at = "probed" /\ t.begun = s.begun /\ t.wanted = s.wanted
    BY <2>2 DEF Selecting!SaveType
  <2> HIDE DEF t
  <2>5. CASE s.dropped \intersect released = {}
    <3>1. Selecting!Step(a, t)
      BY <2>1, <2>5
    <3> QED BY <2>1, <2>3, <2>4, <2>5, <3>1, SavingMoves
  <2>6. CASE s.dropped \intersect released # {}
    <3>1. Selecting!Step(a, None)
      BY <2>1, <2>6
    <3> QED BY <2>1, <3>1, SavingMoves
  <2> QED BY <2>5, <2>6
<1>3. CASE Selecting!Update(a)
  <2> DEFINE left == Selecting!Disagrees(s.wanted)
             t == [at |-> "writing", wanted |-> s.wanted, left |-> left, held |-> {}, begun |-> s.begun]
  <2>1. s # None /\ s.at = "probed" /\ Selecting!Step(a, t) /\ UNCHANGED <<selected, released, rules, detached>>
    BY <1>3 DEF Selecting!Update
  <2>2. left \subseteq Covered /\ s.wanted \subseteq Covered /\ s.begun \subseteq Covered /\ s.begun \subseteq s.wanted
    BY <1>0, <2>1, SavingRows DEF Selecting!Disagrees, TrackingInv
  <2> HIDE DEF s, left
  <2>3. t \in Selecting!SaveType /\ t.at = "writing" /\ t.begun = s.begun /\ t.wanted = s.wanted
    BY <2>2 DEF Selecting!SaveType
  <2> HIDE DEF t
  <2> QED BY <2>1, <2>2, <2>3, SavingMoves
<1>4. CASE Selecting!Rollback(a)
  BY <1>4, SavingMoves DEF Selecting!Rollback
<1>5. ASSUME NEW r \in Covered, Selecting!Visit(a, r) PROVE TrackingInv'
  <2> DEFINE t == [s EXCEPT !.left = @ \ {r}, !.held = IF r \in Selecting!Disagrees(s.wanted) THEN @ \union {r} ELSE @]
  <2>1. s # None /\ s.at = "writing" /\ Selecting!Step(a, t) /\ UNCHANGED <<selected, released, rules, detached>>
    BY <1>5 DEF Selecting!Visit, Selecting!Writing
  <2>2. /\ s \in [at : {"writing"}, wanted : SUBSET Covered, left : SUBSET Covered, held : SUBSET Covered, begun : SUBSET Covered]
        /\ s.begun \subseteq s.wanted
    BY <2>1, SavingRows DEF TrackingInv
  <2> HIDE DEF s
  <2>3. t \in Selecting!SaveType /\ t.at = "writing" /\ t.begun = s.begun /\ t.wanted = s.wanted
    BY <2>2 DEF Selecting!SaveType
  <2> HIDE DEF t
  <2> QED BY <2>1, <2>2, <2>3, SavingMoves
<1> QED BY <1>1, <1>2, <1>3, <1>4, <1>5

\* A save commits its selection.
LEMMA SaveEnds == ASSUME TrackingInv, NEW a \in Admins, Selecting!Commit(a) PROVE TrackingInv'
<1> DEFINE s == saving[a]
<1>1. /\ Selecting!Writing(a)
      /\ selected' = [r \in Selecting!Rows |-> IF r \in s.held THEN r \in s.wanted ELSE selected[r]]
      /\ detached' = detached \union ((s.held \ s.wanted) \intersect s.begun)
      /\ Selecting!Step(a, None) /\ UNCHANGED <<released, rules>>
  BY DEF Selecting!Commit
<1>2. s.begun \subseteq s.wanted /\ detached = {}
  BY <1>1 DEF TrackingInv, Selecting!Writing, Selecting!ReleasedStayTracked
<1>3. detached' = {}
  BY <1>1, <1>2
<1>4. /\ saving' \in [Admins -> Selecting!SaveType \union {None}] /\ saving'[a] = None
      /\ \A b \in Admins \ {a} : saving'[b] = saving[b]
  BY <1>1 DEF TrackingInv, Selecting!TrackingTypeOK, Selecting!Step
<1>5. DOMAIN selected' = DOMAIN selected /\ \A r \in DOMAIN selected : selected'[r] \in BOOLEAN
  <2>1. DOMAIN selected' = DOMAIN selected
    BY <1>1 DEF Selecting!Rows
  <2>2. ASSUME NEW r \in DOMAIN selected PROVE selected'[r] \in BOOLEAN
    <3>1. CASE r \in s.held
      <4>1. selected'[r] = (r \in s.wanted)
        BY <1>1, <3>1 DEF Selecting!Rows
      <4>2. (r \in s.wanted) \in BOOLEAN
        OBVIOUS
      <4> QED BY <4>1, <4>2
    <3>2. CASE r \notin s.held
      <4>1. selected'[r] = selected[r]
        BY <1>1, <3>2 DEF Selecting!Rows
      <4> QED BY <4>1 DEF TrackingInv, Selecting!TrackingTypeOK, Selecting!Rows
    <3> QED BY <3>1, <3>2
  <2> QED BY <2>1, <2>2
<1>6. Selecting!TrackingTypeOK'
  BY <1>1, <1>3, <1>4, <1>5 DEF TrackingInv, Selecting!TrackingTypeOK, Selecting!Rows
<1> QED BY <1>1, <1>3, <1>4, <1>6 DEF TrackingInv, Selecting!ReleasedStayTracked

\* A delivery restates the repositories it names, but for those a release names.
LEMMA RestatingKeeps ==
  ASSUME TrackingInv, NEW stale, NEW back \in SUBSET Covered, Selecting!Restated(stale, back) PROVE TrackingInv'
<1>1. /\ stale \intersect Selecting!Rows \intersect released = {}
      /\ selected' = [r \in (Selecting!Rows \ stale) \union back |-> IF r \in back THEN TRUE ELSE selected[r]]
      /\ saving' = [a \in Admins |-> IF Selecting!Writing(a) THEN [saving[a] EXCEPT !.left = @ \ stale] ELSE saving[a]]
      /\ UNCHANGED <<released, rules, detached>>
  BY DEF Selecting!Restated
<1>2. ASSUME NEW a \in Admins
      PROVE  /\ saving'[a] \in Selecting!SaveType \union {None}
             /\ saving'[a] # None =>
                  /\ saving'[a].at = "looked" => saving'[a].begun \subseteq released /\ saving'[a].begun \ saving'[a].wanted \subseteq saving'[a].dropped
                  /\ saving'[a].at # "looked" => saving'[a].begun \subseteq saving'[a].wanted
  <2>1. CASE Selecting!Writing(a)
    <3> DEFINE s == saving[a]
               t == [s EXCEPT !.left = @ \ stale]
    <3>1. saving'[a] = t /\ s # None /\ s.at = "writing"
      BY <1>1, <2>1 DEF Selecting!Writing
    <3>2. /\ s \in [at : {"writing"}, wanted : SUBSET Covered, left : SUBSET Covered, held : SUBSET Covered, begun : SUBSET Covered]
          /\ s.begun \subseteq s.wanted
      BY <3>1, SavingRows DEF TrackingInv
    <3> HIDE DEF s
    <3>3. t \in Selecting!SaveType /\ t.at = "writing" /\ t.begun = s.begun /\ t.wanted = s.wanted
      BY <3>2 DEF Selecting!SaveType
    <3> QED BY <3>1, <3>2, <3>3
  <2>2. CASE ~Selecting!Writing(a)
    <3>1. saving'[a] = saving[a]
      BY <1>1, <2>2
    <3> QED BY <3>1 DEF TrackingInv, Selecting!TrackingTypeOK
  <2> QED BY <2>1, <2>2
<1>3. /\ DOMAIN selected' = (Selecting!Rows \ stale) \union back
      /\ \A r \in DOMAIN selected' : selected'[r] \in BOOLEAN
  BY <1>1 DEF TrackingInv, Selecting!TrackingTypeOK
<1>4. Selecting!Rows' \subseteq Covered /\ released \subseteq Selecting!Rows' /\ \A r \in Selecting!Rows' : selected'[r] \in BOOLEAN
  <2>1. Selecting!Rows' = (Selecting!Rows \ stale) \union back
    BY <1>3 DEF Selecting!Rows
  <2> QED BY <1>1, <1>3, <2>1 DEF TrackingInv, Selecting!TrackingTypeOK, Selecting!Rows
<1>5. saving' \in [Admins -> Selecting!SaveType \union {None}]
  BY <1>1, <1>2
<1>6. Selecting!TrackingTypeOK'
  BY <1>1, <1>4, <1>5 DEF TrackingInv, Selecting!TrackingTypeOK
<1> QED BY <1>1, <1>2, <1>6 DEF TrackingInv, Selecting!ReleasedStayTracked

\* Every step on the selection keeps the invariant.
LEMMA TrackingStep == TrackingInv /\ [Selecting!TrackingNext]_trackingVars => TrackingInv'
<1> SUFFICES ASSUME TrackingInv, [Selecting!TrackingNext]_trackingVars PROVE TrackingInv'
  OBVIOUS
<1>1. CASE UNCHANGED trackingVars
  <2>1. UNCHANGED <<selected, released, saving, rules, detached>>
    BY <1>1 DEF trackingVars
  <2>2. Selecting!Rows' = Selecting!Rows
    BY <2>1 DEF Selecting!Rows
  <2>3. \A r \in Selecting!Rows' : selected'[r] \in BOOLEAN
    BY <2>1, <2>2 DEF TrackingInv, Selecting!TrackingTypeOK
  <2>4. Selecting!TrackingTypeOK'
    BY <2>1, <2>2, <2>3 DEF TrackingInv, Selecting!TrackingTypeOK
  <2> QED BY <2>1, <2>4 DEF TrackingInv, Selecting!ReleasedStayTracked
<1>2. ASSUME NEW d \in Listings, Selecting!_apply_delta(d) \/ Selecting!_apply_full_set(d) PROVE TrackingInv'
  <2>1. d.added \in SUBSET Covered
    BY LegalConstants DEF Selecting!LegalTrackingConstants
  <2> QED BY <1>2, <2>1, RestatingKeeps DEF Selecting!_apply_delta, Selecting!_apply_full_set
<1>3. ASSUME NEW r \in Covered, Selecting!Release(r) PROVE TrackingInv'
  <2>1. /\ released' = released \union {r} /\ r \in Selecting!Rows /\ UNCHANGED <<selected, saving, rules, detached>>
    BY <1>3 DEF Selecting!Release
  <2>2. Selecting!TrackingTypeOK'
    BY <2>1 DEF TrackingInv, Selecting!TrackingTypeOK, Selecting!Rows
  <2> QED BY <2>1, <2>2 DEF TrackingInv, Selecting!ReleasedStayTracked
<1>4. ASSUME UNCHANGED <<selected, released, saving, detached>>,
             rules' # None => /\ rules' \in [started : Selecting!Slot(StartedStates), completed : Selecting!Slot(CompletedStates)]
                              /\ rules' # [started |-> None, completed |-> None]
      PROVE  TrackingInv'
  <2>1. Selecting!TrackingTypeOK'
    BY <1>4 DEF TrackingInv, Selecting!TrackingTypeOK, Selecting!Rows
  <2> QED BY <1>4, <2>1 DEF TrackingInv, Selecting!ReleasedStayTracked
<1>5. ASSUME NEW p, NEW q, Selecting!_store_automation(p, q) PROVE TrackingInv'
  <2> DEFINE rule == IF p = None /\ q = None
                    THEN [started |-> Selecting!First(StartedStates), completed |-> Selecting!First(CompletedStates)]
                    ELSE [started |-> p, completed |-> q]
  <2>1. /\ rule.started \in Selecting!Slot(StartedStates) /\ rule.completed \in Selecting!Slot(CompletedStates)
        /\ rule # [started |-> None, completed |-> None] /\ rules' = rule /\ UNCHANGED <<selected, released, saving, detached>>
    BY <1>5 DEF Selecting!_store_automation
  <2>2. rule = [started |-> rule.started, completed |-> rule.completed]
    OBVIOUS
  <2> HIDE DEF rule
  <2>3. rule \in [started : Selecting!Slot(StartedStates), completed : Selecting!Slot(CompletedStates)]
    BY <2>1, <2>2
  <2> QED BY <1>4, <2>1, <2>3
<1>6. CASE Selecting!delete_automation
  BY <1>4, <1>6 DEF Selecting!delete_automation
<1> QED BY <1>1, <1>2, <1>3, <1>5, <1>6, SavesKeep, SaveEnds DEF Selecting!TrackingNext

-----------------------------------------------------------------------------
(* GitHub installations.                                                    *)

\* The workspace a delivery is bound to holds its installation, as confirmed or as the delivery is
\* about to confirm it, or has let go of it meanwhile; and a row that is locked is there.
SoundlyBound(d) == delivery[d].state # "none" =>
  /\ delivery[d].added \subseteq Repositories[delivery[d].of]
  /\ \/ Installing!Confirmed(delivery[d].to, delivery[d].of) \/ <<delivery[d].to, delivery[d].of>> \in overtaken
     \/ delivery[d].holds /\ Installing!Claimed(delivery[d].to, delivery[d].of)
  /\ delivery[d].holds => delivery[d].state # "resolved" /\ claim[delivery[d].to].state # "none"

\* A repository of an installation the workspace holds or has let go of.
Listable(w, r) ==
  /\ claim[w].state # "none"
  /\ \E i \in Installations : r \in Repositories[i] /\ (Installing!Confirmed(w, i) \/ <<w, i>> \in overtaken)

\* The inductive invariant of the installations.
InstallationInv ==
  /\ Installing!InstallationTypeOK
  /\ \A w \in Workspaces : \A r \in repositories[w] : Listable(w, r)
  /\ \A d \in Deliveries : SoundlyBound(d)

Rows == [state : {"claimed", "confirmed"}, of : Installations, age : 0..Ttl]
InProgress == [state : {"resolved", "named", "cleared"}, to : Workspaces, of : Installations, kind : Installing!Kinds,
               added : SUBSET Installing!AllRepositories, removed : SUBSET Installing!AllRepositories,
               holds : BOOLEAN, found : SUBSET Installing!AllRepositories]

\* Nothing is installed at first.
LEMMA InstallationStart == Installing!InstallationInit => InstallationInv
<1> SUFFICES ASSUME Installing!InstallationInit PROVE InstallationInv
  OBVIOUS
<1>1. /\ claim = [w \in Workspaces |-> Installing!Nowhere] /\ repositories = [w \in Workspaces |-> {}]
      /\ delivery = [d \in Deliveries |-> Installing!NoDelivery] /\ overtaken = {}
  BY DEF Installing!InstallationInit
<1>2. Installing!InstallationTypeOK
  BY <1>1 DEF Installing!InstallationTypeOK, Installing!RowType, Installing!DeliveryType
<1>3. \A d \in Deliveries : delivery[d].state = "none"
  BY <1>1 DEF Installing!NoDelivery
<1> QED BY <1>1, <1>2, <1>3 DEF InstallationInv, SoundlyBound

\* What is in the tables, and what a delivery carries.
LEMMA Records ==
  ASSUME Installing!InstallationTypeOK
  PROVE  /\ \A w \in Workspaces : claim[w] = Installing!Nowhere \/ claim[w] \in Rows
         /\ \A w \in Workspaces : claim[w].state # "none" => claim[w] \in Rows
         /\ \A d \in Deliveries : delivery[d] = Installing!NoDelivery \/ delivery[d] \in InProgress
         /\ \A d \in Deliveries : delivery[d].state # "none" => delivery[d] \in InProgress
BY DEF Installing!InstallationTypeOK, Installing!RowType, Installing!DeliveryType, Rows, InProgress,
       Installing!Nowhere, Installing!NoDelivery

\* A delivery goes on as it is bound, or ends.
GoesOn(d) ==
  \/ delivery'[d].state = "none"
  \/ /\ delivery[d].state # "none" /\ delivery'[d].state \in {delivery[d].state, "named"}
     /\ delivery'[d].to = delivery[d].to /\ delivery'[d].of = delivery[d].of
     /\ delivery'[d].added = delivery[d].added /\ delivery'[d].holds = delivery[d].holds

\* Rows of some workspaces change, and what is listed there; deliveries go on, or end.
LEMMA InstallationMoves ==
  ASSUME InstallationInv, NEW W \in SUBSET Workspaces,
         claim' \in [Workspaces -> Installing!RowType], repositories' \in [Workspaces -> SUBSET Installing!AllRepositories],
         delivery' \in [Deliveries -> Installing!DeliveryType], \A d \in Deliveries : GoesOn(d),
         \A w \in Workspaces \ W : claim'[w] = claim[w] /\ repositories'[w] = repositories[w],
         overtaken' \in SUBSET (Workspaces \X Installations), overtaken \subseteq overtaken',
         \A w \in W : \A r \in repositories'[w] : Listable(w, r)',
         \A d \in Deliveries : delivery'[d].state # "none" /\ delivery'[d].to \in W => SoundlyBound(d)'
  PROVE  InstallationInv'
<1>1. Installing!InstallationTypeOK'
  BY DEF Installing!InstallationTypeOK
<1>2. ASSUME NEW w \in Workspaces, NEW r \in repositories'[w] PROVE Listable(w, r)'
  <2>1. CASE w \in W
    BY <2>1
  <2>2. CASE w \notin W
    <3>1. claim'[w] = claim[w] /\ r \in repositories[w]
      BY <2>2
    <3>2. Listable(w, r)
      BY <3>1 DEF InstallationInv
    <3> QED BY <3>1, <3>2 DEF Listable, Installing!Confirmed
  <2> QED BY <2>1, <2>2
<1>3. ASSUME NEW d \in Deliveries PROVE SoundlyBound(d)'
  <2>1. CASE delivery'[d].state = "none"
    BY <2>1 DEF SoundlyBound
  <2>2. CASE delivery'[d].state # "none" /\ delivery'[d].to \in W
    BY <2>2
  <2>3. CASE delivery'[d].state # "none" /\ delivery'[d].to \notin W
    <3>1. /\ delivery[d].state # "none" /\ delivery'[d].state \in {delivery[d].state, "named"}
          /\ delivery'[d].to = delivery[d].to /\ delivery'[d].of = delivery[d].of
          /\ delivery'[d].added = delivery[d].added /\ delivery'[d].holds = delivery[d].holds
      BY <2>3 DEF GoesOn
    <3>2. delivery[d].to \in Workspaces
      BY <3>1, Records DEF InstallationInv, InProgress
    <3>3. SoundlyBound(d) /\ claim'[delivery[d].to] = claim[delivery[d].to]
      BY <2>3, <3>1, <3>2 DEF InstallationInv
    <3> QED BY <3>1, <3>3 DEF SoundlyBound, Installing!Confirmed, Installing!Claimed
  <2> QED BY <2>1, <2>2, <2>3
<1> QED BY <1>1, <1>2, <1>3 DEF InstallationInv

\* A delivery moves, and nothing else.
LEMMA DeliveryMoves ==
  ASSUME InstallationInv, NEW d \in Deliveries, NEW e \in Installing!DeliveryType, delivery' = [delivery EXCEPT ![d] = e],
         UNCHANGED <<claim, repositories, overtaken>>,
         e.state # "none" =>
           /\ e.added \subseteq Repositories[e.of]
           /\ Installing!Confirmed(e.to, e.of) \/ <<e.to, e.of>> \in overtaken \/ (e.holds /\ Installing!Claimed(e.to, e.of))
           /\ e.holds => e.state # "resolved" /\ claim[e.to].state # "none"
  PROVE  InstallationInv'
<1>1. delivery' \in [Deliveries -> Installing!DeliveryType] /\ delivery'[d] = e /\ \A f \in Deliveries \ {d} : delivery'[f] = delivery[f]
  BY DEF InstallationInv, Installing!InstallationTypeOK
<1>2. Installing!InstallationTypeOK'
  BY <1>1 DEF InstallationInv, Installing!InstallationTypeOK
<1>3. \A w \in Workspaces : \A r \in repositories'[w] : Listable(w, r)'
  BY DEF InstallationInv, Listable, Installing!Confirmed
<1>4. ASSUME NEW f \in Deliveries PROVE SoundlyBound(f)'
  <2>1. CASE f = d
    BY <1>1, <2>1 DEF SoundlyBound, Installing!Confirmed, Installing!Claimed
  <2>2. CASE f # d
    <3>1. SoundlyBound(f) /\ delivery'[f] = delivery[f]
      BY <1>1, <2>2 DEF InstallationInv
    <3> QED BY <3>1 DEF SoundlyBound, Installing!Confirmed, Installing!Claimed
  <2> QED BY <2>1, <2>2
<1> QED BY <1>2, <1>3, <1>4 DEF InstallationInv

\* Whoever is let go of is remembered with every delivery that is bound to it.
LEMMA LeftBehindIsRemembered ==
  ASSUME InstallationInv, NEW w \in Workspaces
  PROVE  /\ Installing!LeftBehind(w) \subseteq Workspaces \X Installations
         /\ \A d \in Deliveries : delivery[d].state # "none" /\ delivery[d].to = w => <<w, delivery[d].of>> \in Installing!LeftBehind(w)
<1>1. \A d \in Deliveries : delivery[d].state # "none" => delivery[d].of \in Installations
  BY Records DEF InstallationInv, InProgress
<1> QED BY <1>1 DEF Installing!LeftBehind, Installing!Bound

\* Who waited for a row that is gone goes on bound as before.
LEMMA MissGoesOn ==
  ASSUME InstallationInv, NEW V, Installing!Miss(V)
  PROVE  delivery' \in [Deliveries -> Installing!DeliveryType] /\ \A d \in Deliveries : GoesOn(d)
<1>1. PICK M \in SUBSET Installing!Naming(V) :
        delivery' = [d \in Deliveries |-> IF d \in M THEN [delivery[d] EXCEPT !.state = "named"] ELSE delivery[d]]
  BY DEF Installing!Miss
<1>2. ASSUME NEW d \in Deliveries PROVE delivery'[d] \in Installing!DeliveryType /\ GoesOn(d)
  <2>1. CASE d \in M
    <3>1. delivery[d].state # "none"
      BY <1>1, <2>1 DEF Installing!Naming
    <3>2. PICK e \in InProgress : e = delivery[d]
      BY <3>1, Records DEF InstallationInv
    <3>3. delivery'[d] = [e EXCEPT !.state = "named"]
      BY <1>1, <2>1, <3>2
    <3>4. [e EXCEPT !.state = "named"] \in InProgress /\ [e EXCEPT !.state = "named"].state = "named"
      BY DEF InProgress
    <3>5. delivery'[d].to = e.to /\ delivery'[d].of = e.of /\ delivery'[d].added = e.added /\ delivery'[d].holds = e.holds
      BY <3>3 DEF InProgress
    <3> QED BY <3>1, <3>2, <3>3, <3>4, <3>5 DEF GoesOn, InProgress, Installing!DeliveryType
  <2>2. CASE d \notin M
    BY <1>1, <2>2 DEF GoesOn, InstallationInv, Installing!InstallationTypeOK
  <2> QED BY <2>1, <2>2
<1> QED BY <1>1, <1>2

\* A workspace whose row nobody locks lets go of it, and what is bound to it is remembered.
LEMMA BoundIsRemembered ==
  ASSUME InstallationInv, NEW w \in Workspaces, Installing!RowIsFree(w),
         NEW d \in Deliveries, GoesOn(d), delivery'[d].state # "none", delivery'[d].to = w, <<w, delivery[d].of>> \in overtaken'
  PROVE  SoundlyBound(d)'
<1>1. /\ delivery[d].state # "none" /\ delivery[d].to = w
      /\ delivery'[d].of = delivery[d].of /\ delivery'[d].added = delivery[d].added /\ delivery'[d].holds = delivery[d].holds
  BY DEF GoesOn
<1>2. ~delivery[d].holds
  BY <1>1 DEF Installing!RowIsFree, Installing!Bound
<1>3. SoundlyBound(d)
  BY DEF InstallationInv
<1> QED BY <1>1, <1>2, <1>3 DEF SoundlyBound

\* A workspace claims an installation.
LEMMA ConnectKeeps ==
  ASSUME InstallationInv, NEW w \in Workspaces, NEW i \in Installations, Installing!Connect(w, i) PROVE InstallationInv'
<1> DEFINE stale == {v \in Workspaces \ {w} : Installing!Claimed(v, i) /\ Installing!Expired(v) /\ Installing!RowIsFree(v)}
           r == [state |-> "claimed", of |-> i, age |-> 0]
<1>1. /\ \A v \in stale : repositories[v] = {}
      /\ claim' = [v \in Workspaces |-> CASE v = w -> r [] v \in stale -> Installing!Nowhere [] OTHER -> claim[v]]
      /\ repositories' = [repositories EXCEPT ![w] = {}] /\ overtaken' = overtaken \union Installing!LeftBehind(w)
      /\ Installing!Miss({w} \union stale) /\ Installing!RowIsFree(w)
  BY DEF Installing!Connect, Installing!Unlocked
<1>2. r \in Installing!RowType /\ Installing!Nowhere \in Installing!RowType
  BY LegalConstants DEF Installing!LegalInstallationConstants, Installing!RowType
<1>3. \A v \in stale : claim[v].state = "claimed" /\ v # w /\ v \in Workspaces /\ Installing!RowIsFree(v)
  BY DEF Installing!Claimed
<1> HIDE DEF r, stale
<1>4. /\ claim'[w] = r /\ \A v \in stale : claim'[v] = Installing!Nowhere
      /\ \A v \in Workspaces \ ({w} \union stale) : claim'[v] = claim[v]
  BY <1>1, <1>3
<1>5. claim' \in [Workspaces -> Installing!RowType]
  BY <1>1, <1>2 DEF InstallationInv, Installing!InstallationTypeOK
<1>6. /\ repositories' \in [Workspaces -> SUBSET Installing!AllRepositories]
      /\ \A v \in {w} \union stale : repositories'[v] = {}
      /\ \A v \in Workspaces \ ({w} \union stale) : repositories'[v] = repositories[v]
  BY <1>1, <1>3 DEF InstallationInv, Installing!InstallationTypeOK
<1>7. overtaken' \in SUBSET (Workspaces \X Installations) /\ overtaken \subseteq overtaken'
  BY <1>1, LeftBehindIsRemembered DEF InstallationInv, Installing!InstallationTypeOK
<1>8. delivery' \in [Deliveries -> Installing!DeliveryType] /\ \A d \in Deliveries : GoesOn(d)
  BY <1>1, MissGoesOn
<1>9. ASSUME NEW d \in Deliveries, delivery'[d].state # "none", delivery'[d].to \in {w} \union stale PROVE SoundlyBound(d)'
  <2>1. delivery[d].state # "none" /\ delivery[d].to = delivery'[d].to
    BY <1>8, <1>9 DEF GoesOn
  <2>2. CASE delivery[d].to = w
    BY <1>1, <1>8, <1>9, <2>1, <2>2, LeftBehindIsRemembered, BoundIsRemembered
  <2>3. CASE delivery[d].to \in stale
    <3>1. claim[delivery[d].to].state = "claimed" /\ Installing!RowIsFree(delivery[d].to) /\ delivery[d].to \in Workspaces
      BY <1>3, <2>3
    <3>2. ~delivery[d].holds /\ SoundlyBound(d)
      BY <2>1, <3>1 DEF Installing!RowIsFree, Installing!Bound, InstallationInv
    <3>3. <<delivery[d].to, delivery[d].of>> \in overtaken'
      BY <1>7, <2>1, <3>1, <3>2 DEF SoundlyBound, Installing!Confirmed
    <3> QED BY <1>8, <1>9, <2>1, <3>1, <3>3, BoundIsRemembered
  <2> QED BY <1>9, <2>1, <2>2, <2>3
<1>10. {w} \union stale \in SUBSET Workspaces
  BY <1>3
<1> QED BY <1>4, <1>5, <1>6, <1>7, <1>8, <1>9, <1>10, InstallationMoves

\* A workspace lets go of its installation, and what was in flight is remembered.
LEMMA ForgetKeeps ==
  ASSUME InstallationInv, NEW w \in Workspaces, Installing!Forget(w), delivery' \in [Deliveries -> Installing!DeliveryType],
         \A d \in Deliveries : GoesOn(d)
  PROVE  InstallationInv'
<1>1. /\ claim' = [claim EXCEPT ![w] = Installing!Nowhere] /\ repositories' = [repositories EXCEPT ![w] = {}]
      /\ overtaken' = overtaken \union Installing!LeftBehind(w) /\ Installing!RowIsFree(w)
  BY DEF Installing!Forget, Installing!Unlocked
<1>2. Installing!Nowhere \in Installing!RowType
  BY DEF Installing!RowType
<1>3. /\ claim' \in [Workspaces -> Installing!RowType] /\ repositories' \in [Workspaces -> SUBSET Installing!AllRepositories]
      /\ repositories'[w] = {} /\ \A v \in Workspaces \ {w} : claim'[v] = claim[v] /\ repositories'[v] = repositories[v]
  BY <1>1, <1>2 DEF InstallationInv, Installing!InstallationTypeOK
<1>4. overtaken' \in SUBSET (Workspaces \X Installations) /\ overtaken \subseteq overtaken'
  BY <1>1, LeftBehindIsRemembered DEF InstallationInv, Installing!InstallationTypeOK
<1>5. ASSUME NEW d \in Deliveries, delivery'[d].state # "none", delivery'[d].to = w PROVE SoundlyBound(d)'
  <2>1. delivery[d].state # "none" /\ delivery[d].to = w
    BY <1>5 DEF GoesOn
  <2> QED BY <1>1, <1>5, <2>1, LeftBehindIsRemembered, BoundIsRemembered
<1>6. {w} \in SUBSET Workspaces
  OBVIOUS
<1> QED BY <1>3, <1>4, <1>5, <1>6, InstallationMoves

\* A row keeps its installation and is at least as confirmed; what is listed there may grow.
LEMMA RowKeepsItsInstallation ==
  ASSUME InstallationInv, NEW w \in Workspaces, NEW s \in Rows, claim[w].state # "none", s.of = claim[w].of,
         s.state = "confirmed" \/ s.state = claim[w].state, claim' = [claim EXCEPT ![w] = s],
         NEW R \in SUBSET Installing!AllRepositories, repositories' = [repositories EXCEPT ![w] = R], UNCHANGED overtaken,
         delivery' \in [Deliveries -> Installing!DeliveryType], \A d \in Deliveries : GoesOn(d),
         \A x \in R \ repositories[w] : \E j \in Installations : x \in Repositories[j] /\ ((s.state = "confirmed" /\ s.of = j) \/ <<w, j>> \in overtaken)
  PROVE  InstallationInv'
<1>1. /\ claim' \in [Workspaces -> Installing!RowType] /\ repositories' \in [Workspaces -> SUBSET Installing!AllRepositories]
      /\ claim'[w] = s /\ repositories'[w] = R /\ \A v \in Workspaces \ {w} : claim'[v] = claim[v] /\ repositories'[v] = repositories[v]
  BY DEF InstallationInv, Installing!InstallationTypeOK, Installing!RowType, Rows
<1>2. overtaken' \in SUBSET (Workspaces \X Installations)
  BY DEF InstallationInv, Installing!InstallationTypeOK
<1>3. claim[w].state \in {"claimed", "confirmed"} /\ s.state \in {"claimed", "confirmed"}
  BY Records DEF InstallationInv, Rows
<1>4. \A j : Installing!Confirmed(w, j) => Installing!Confirmed(w, j)'
  BY <1>1, <1>3 DEF Installing!Confirmed
<1>5. \A j : Installing!Claimed(w, j) => Installing!Claimed(w, j)' \/ Installing!Confirmed(w, j)'
  BY <1>1, <1>3 DEF Installing!Claimed, Installing!Confirmed
<1>6. ASSUME NEW x \in repositories'[w] PROVE Listable(w, x)'
  <2>1. CASE x \in repositories[w]
    <3>1. Listable(w, x)
      BY <2>1 DEF InstallationInv
    <3> QED BY <1>1, <1>3, <1>4, <3>1 DEF Listable
  <2>2. CASE x \notin repositories[w]
    BY <1>1, <1>3, <1>6, <2>2 DEF Listable, Installing!Confirmed
  <2> QED BY <2>1, <2>2
<1>7. ASSUME NEW d \in Deliveries, delivery'[d].state # "none", delivery'[d].to \in {w} PROVE SoundlyBound(d)'
  <2>1. /\ delivery[d].state # "none" /\ delivery'[d].to = w /\ delivery[d].to = w
        /\ delivery'[d].state \in {delivery[d].state, "named"}
        /\ delivery'[d].of = delivery[d].of /\ delivery'[d].added = delivery[d].added /\ delivery'[d].holds = delivery[d].holds
    BY <1>7 DEF GoesOn
  <2>2. SoundlyBound(d)
    BY DEF InstallationInv
  <2> QED BY <1>1, <1>3, <1>4, <1>5, <2>1, <2>2 DEF SoundlyBound
<1>8. {w} \in SUBSET Workspaces /\ overtaken \subseteq overtaken'
  OBVIOUS
<1>9. \A v \in {w} : \A x \in repositories'[v] : Listable(v, x)'
  BY <1>6
<1> QED BY <1>1, <1>2, <1>7, <1>8, <1>9, InstallationMoves

\* Everything goes on where nothing moves.
LEMMA AllGoOn ==
  ASSUME InstallationInv, delivery' = delivery
  PROVE  delivery' \in [Deliveries -> Installing!DeliveryType] /\ \A d \in Deliveries : GoesOn(d)
BY DEF InstallationInv, Installing!InstallationTypeOK, GoesOn

\* A confirmed row is a row.
LEMMA ConfirmedRows == ASSUME NEW q \in Rows PROVE [q EXCEPT !.state = "confirmed", !.age = 0] \in Rows
<1>1. 0 \in 0..Ttl
  BY LegalConstants DEF Installing!LegalInstallationConstants
<1> QED BY <1>1 DEF Rows

\* A callback confirms a claim, and lists repositories of the installation.
LEMMA ConfirmKeeps ==
  ASSUME InstallationInv, NEW w \in Workspaces, NEW i \in Installations, NEW R \in SUBSET Repositories[i], Installing!ConfirmClaim(w, i, R)
  PROVE  InstallationInv'
<1>1. /\ claim[w].state = "claimed" /\ claim[w].of = i /\ claim' = Installing!ConfirmedRow(w)
      /\ repositories' = [repositories EXCEPT ![w] = repositories[w] \union R] /\ UNCHANGED <<delivery, overtaken>>
  BY DEF Installing!ConfirmClaim, Installing!Confirmable, Installing!Claimed
<1>2. PICK q \in Rows : q = claim[w]
  BY <1>1, Records DEF InstallationInv
<1>3. PICK s \in Rows : s = [q EXCEPT !.state = "confirmed", !.age = 0]
  BY ConfirmedRows
<1>4. s.of = i /\ s.state = "confirmed" /\ claim' = [claim EXCEPT ![w] = s]
  BY <1>1, <1>2, <1>3 DEF Installing!ConfirmedRow, Rows, InstallationInv, Installing!InstallationTypeOK
<1>5. repositories[w] \union R \in SUBSET Installing!AllRepositories
  BY DEF InstallationInv, Installing!InstallationTypeOK, Installing!AllRepositories
<1> QED BY <1>1, <1>4, <1>5, AllGoOn, RowKeepsItsInstallation

\* A claim grows older.
LEMMA GrowKeeps == ASSUME InstallationInv, NEW w \in Workspaces, Installing!Grow(w) PROVE InstallationInv'
<1>1. claim[w].state = "claimed" /\ claim[w].age < Ttl /\ UNCHANGED <<repositories, delivery, overtaken>>
  BY DEF Installing!Grow
<1>2. PICK q \in Rows : q = claim[w]
  BY <1>1, Records DEF InstallationInv
<1>3. PICK s \in Rows : s = [q EXCEPT !.age = q.age + 1]
  <2>1. q.age + 1 \in 0..Ttl
    BY <1>1, <1>2, LegalConstants DEF Installing!LegalInstallationConstants, Rows
  <2> QED BY <2>1 DEF Rows
<1>4. s.of = q.of /\ s.state = q.state /\ claim' = [claim EXCEPT ![w] = s]
  BY <1>2, <1>3 DEF Installing!Grow, Rows, InstallationInv, Installing!InstallationTypeOK
<1>5. repositories' = [repositories EXCEPT ![w] = repositories[w]] /\ repositories[w] \in SUBSET Installing!AllRepositories
  BY <1>1 DEF InstallationInv, Installing!InstallationTypeOK
<1> QED BY <1>1, <1>2, <1>4, <1>5, AllGoOn, RowKeepsItsInstallation

\* A delivery finds the workspace that holds the installation it comes from, or confirms its claim.
LEMMA FoundKeeps ==
  ASSUME InstallationInv, NEW w \in Workspaces, NEW i \in Installations, NEW d \in Deliveries, NEW kind \in Installing!Kinds,
         NEW R \in SUBSET Repositories[i], NEW S \in SUBSET Repositories[i],
         Installing!Resolve(d, w, i, kind, R, S) \/ (Installing!ConfirmByDelivery(d, w, i, kind, R) /\ S = {})
  PROVE  InstallationInv'
<1>1. PICK state \in {"resolved", "named"} :
        /\ Installing!Found(d, w, i, state, kind, R, S)
        /\ Installing!Confirmed(w, i) \/ (state = "named" /\ Installing!Claimed(w, i))
  BY DEF Installing!Resolve, Installing!ConfirmByDelivery, Installing!Confirmable
<1>2. PICK h \in BOOLEAN : h = (state = "named")
  OBVIOUS
<1>3. PICK e \in {[state |-> state, to |-> w, of |-> i, kind |-> kind, added |-> R, removed |-> S, holds |-> h, found |-> {}]} : TRUE
  OBVIOUS
<1>4. delivery' = [delivery EXCEPT ![d] = e] /\ UNCHANGED <<claim, repositories, overtaken>>
  BY <1>1, <1>2, <1>3 DEF Installing!Found
<1>5. /\ e \in Installing!DeliveryType /\ e.to = w /\ e.of = i /\ e.added = R /\ e.holds = h
      /\ e.state = state /\ e.state # "none"
  BY <1>3 DEF Installing!DeliveryType, Installing!AllRepositories
<1>6. Installing!Confirmed(w, i) \/ (h /\ Installing!Claimed(w, i))
  BY <1>1, <1>2
<1>7. claim[w].state # "none"
  BY <1>6 DEF Installing!Confirmed, Installing!Claimed
<1> QED BY <1>2, <1>4, <1>5, <1>6, <1>7, DeliveryMoves

\* A delivery that is under way stays bound, with its row locked if that is there.
LEMMA StaysBound ==
  ASSUME InstallationInv, NEW d \in Deliveries, NEW e \in InProgress, delivery[d].state # "none", e.state # "resolved",
         e.to = delivery[d].to, e.of = delivery[d].of, e.added = delivery[d].added,
         delivery[d].holds => e.holds, e.holds => delivery[d].holds \/ claim[e.to].state # "none",
         delivery' = [delivery EXCEPT ![d] = e], UNCHANGED <<claim, repositories, overtaken>>
  PROVE  InstallationInv'
<1>1. SoundlyBound(d)
  BY DEF InstallationInv
<1>2. /\ e.added \subseteq Repositories[e.of]
      /\ Installing!Confirmed(e.to, e.of) \/ <<e.to, e.of>> \in overtaken \/ (e.holds /\ Installing!Claimed(e.to, e.of))
      /\ e.holds => e.state # "resolved" /\ claim[e.to].state # "none"
  BY <1>1 DEF SoundlyBound
<1>3. e \in Installing!DeliveryType
  BY DEF InProgress, Installing!DeliveryType
<1> QED BY <1>2, <1>3, DeliveryMoves

\* A delivery names the account, or finds none to name, or no row.
LEMMA NameKeeps ==
  ASSUME InstallationInv, NEW d \in Deliveries, NEW skipped \in BOOLEAN, Installing!Name(d, skipped) PROVE InstallationInv'
<1>1. delivery[d].state = "resolved" /\ UNCHANGED <<claim, repositories, overtaken>>
  BY DEF Installing!Name
<1>2. PICK q \in InProgress : q = delivery[d]
  BY <1>1, Records DEF InstallationInv
<1>3. PICK h \in BOOLEAN : h = (~skipped /\ claim[q.to].state = "confirmed")
  OBVIOUS
<1>4. PICK e \in InProgress : e = [q EXCEPT !.state = "named", !.holds = h]
  BY DEF InProgress
<1>5. ~q.holds
  BY <1>1, <1>2 DEF InstallationInv, SoundlyBound
<1>6. delivery' = [delivery EXCEPT ![d] = e]
  BY <1>2, <1>3, <1>4 DEF Installing!Name, InstallationInv, Installing!InstallationTypeOK
<1>7. e.state = "named" /\ e.to = q.to /\ e.of = q.of /\ e.added = q.added /\ e.holds = h
  BY <1>4 DEF InProgress
<1> QED BY <1>1, <1>2, <1>3, <1>5, <1>6, <1>7, StaysBound

\* A delivery deletes what is listed.
LEMMA ClearKeeps == ASSUME InstallationInv, NEW d \in Deliveries, Installing!Clear(d) PROVE InstallationInv'
<1>1. delivery[d].state = "named" /\ UNCHANGED <<claim, repositories, overtaken>>
  BY DEF Installing!Clear
<1>2. PICK q \in InProgress : q = delivery[d]
  BY <1>1, Records DEF InstallationInv
<1>3. PICK F \in SUBSET Installing!AllRepositories : F = Installing!Selection(q)
  <2>1. q.to \in Workspaces
    BY DEF InProgress
  <2> QED BY <2>1 DEF Installing!Selection, InstallationInv, Installing!InstallationTypeOK
<1>4. PICK e \in InProgress : e = [q EXCEPT !.state = "cleared", !.found = F]
  BY DEF InProgress
<1>5. delivery' = [delivery EXCEPT ![d] = e]
  BY <1>2, <1>3, <1>4 DEF Installing!Clear, InstallationInv, Installing!InstallationTypeOK
<1>6. e.state = "cleared" /\ e.to = q.to /\ e.of = q.of /\ e.added = q.added /\ e.holds = q.holds
  BY <1>4 DEF InProgress
<1>7. e.holds => claim[e.to].state # "none"
  BY <1>1, <1>2, <1>6 DEF InstallationInv, SoundlyBound
<1> QED BY <1>1, <1>2, <1>5, <1>6, <1>7, StaysBound

\* One delivery ends, and the others go on.
LEMMA OneEnds ==
  ASSUME InstallationInv, NEW d \in Deliveries, delivery' = [delivery EXCEPT ![d] = Installing!NoDelivery]
  PROVE  delivery' \in [Deliveries -> Installing!DeliveryType] /\ \A f \in Deliveries : GoesOn(f)
<1>1. /\ delivery' \in [Deliveries -> Installing!DeliveryType] /\ delivery'[d] = Installing!NoDelivery
      /\ \A f \in Deliveries \ {d} : delivery'[f] = delivery[f]
  BY DEF InstallationInv, Installing!InstallationTypeOK, Installing!DeliveryType
<1>2. Installing!NoDelivery.state = "none"
  BY DEF Installing!NoDelivery
<1> QED BY <1>1, <1>2 DEF GoesOn

\* A delivery adds what GitHub listed, and commits; the workspace is whoever's it is by then.
LEMMA ListKeeps == ASSUME InstallationInv, NEW d \in Deliveries, Installing!Store(d) PROVE InstallationInv'
<1>1. PICK e \in InProgress : e = delivery[d]
  BY Records DEF InstallationInv, Installing!Store
<1>2. PICK w \in Workspaces : w = e.to
  BY DEF InProgress
<1>3. PICK R \in SUBSET Installing!AllRepositories : R = (repositories[w] \ e.found) \union e.added
  BY DEF InProgress, InstallationInv, Installing!InstallationTypeOK
<1>4. /\ e.state = "cleared" /\ (e.added # {} => claim[w].state # "none") /\ repositories' = [repositories EXCEPT ![w] = R]
      /\ claim' = (IF e.holds THEN Installing!ConfirmedRow(w) ELSE claim)
      /\ delivery' = [delivery EXCEPT ![d] = Installing!NoDelivery] /\ UNCHANGED overtaken
  BY <1>1, <1>2, <1>3 DEF Installing!Store, InstallationInv, Installing!InstallationTypeOK
<1>5. /\ e.added \subseteq Repositories[e.of] /\ e.of \in Installations
      /\ Installing!Confirmed(w, e.of) \/ <<w, e.of>> \in overtaken \/ (e.holds /\ Installing!Claimed(w, e.of))
      /\ e.holds => claim[w].state # "none"
  <2>1. SoundlyBound(d) /\ e.of \in Installations
    BY DEF InstallationInv, InProgress
  <2> QED BY <1>1, <1>2, <1>4, <2>1 DEF SoundlyBound
<1>6. CASE claim[w].state = "none"
  <2>1. claim' = claim /\ R \subseteq repositories[w]
    BY <1>3, <1>4, <1>5, <1>6
  <2>2. repositories[w] = {}
    BY <1>6 DEF InstallationInv, Listable
  <2>3. /\ claim' \in [Workspaces -> Installing!RowType] /\ repositories' \in [Workspaces -> SUBSET Installing!AllRepositories]
        /\ overtaken' \in SUBSET (Workspaces \X Installations) /\ {} \in SUBSET Workspaces
        /\ \A v \in Workspaces : claim'[v] = claim[v] /\ repositories'[v] = repositories[v]
    BY <1>4, <2>1, <2>2 DEF InstallationInv, Installing!InstallationTypeOK
  <2> QED BY <1>4, <2>3, OneEnds, InstallationMoves
<1>7. CASE claim[w].state # "none"
  <2>1. PICK q \in Rows : q = claim[w]
    BY <1>7, Records DEF InstallationInv
  <2>2. PICK s \in Rows : s = IF e.holds THEN [q EXCEPT !.state = "confirmed", !.age = 0] ELSE q
    BY ConfirmedRows
  <2>3. s.of = q.of /\ (s.state = "confirmed" \/ s.state = q.state) /\ (e.holds => s.state = "confirmed")
    BY <2>2 DEF Rows
  <2>4. claim' = [claim EXCEPT ![w] = s]
    <3>1. CASE e.holds
      BY <1>4, <2>1, <2>2, <3>1 DEF Installing!ConfirmedRow, InstallationInv, Installing!InstallationTypeOK
    <3>2. CASE ~e.holds
      BY <1>4, <2>1, <2>2, <3>2 DEF InstallationInv, Installing!InstallationTypeOK
    <3> QED BY <3>1, <3>2
  <2>5. ASSUME NEW x \in R \ repositories[w]
        PROVE  \E j \in Installations : x \in Repositories[j] /\ ((s.state = "confirmed" /\ s.of = j) \/ <<w, j>> \in overtaken)
    <3>1. x \in Repositories[e.of]
      BY <1>3, <1>5, <2>5
    <3>2. (s.state = "confirmed" /\ s.of = e.of) \/ <<w, e.of>> \in overtaken
      BY <1>5, <2>1, <2>3 DEF Installing!Confirmed, Installing!Claimed
    <3> QED BY <1>5, <3>1, <3>2
  <2> QED BY <1>4, <1>7, <2>1, <2>3, <2>4, <2>5, OneEnds, RowKeepsItsInstallation
<1> QED BY <1>6, <1>7

\* The app is removed, or a delivery fails.
LEMMA DeliveryEnds ==
  ASSUME InstallationInv, NEW d \in Deliveries, Installing!Uninstall(d) \/ Installing!Drop(d) PROVE InstallationInv'
<1>1. delivery[d].state # "none" /\ delivery' = [delivery EXCEPT ![d] = Installing!NoDelivery]
  BY DEF Installing!Uninstall, Installing!Drop
<1>2. CASE Installing!Uninstall(d)
  <2>1. delivery[d].to \in Workspaces /\ Installing!Forget(delivery[d].to)
    BY <1>1, <1>2, Records DEF Installing!Uninstall, InstallationInv, InProgress
  <2> QED BY <1>1, <2>1, OneEnds, ForgetKeeps
<1>3. CASE Installing!Drop(d)
  <2>1. UNCHANGED <<claim, repositories, overtaken>> /\ Installing!NoDelivery \in Installing!DeliveryType /\ Installing!NoDelivery.state = "none"
    BY <1>3 DEF Installing!Drop, Installing!DeliveryType, Installing!NoDelivery
  <2> QED BY <1>1, <2>1, DeliveryMoves
<1> QED BY <1>2, <1>3

\* Every step on installations keeps the invariant.
LEMMA InstallationStep == InstallationInv /\ [Installing!InstallationNext]_installationVars => InstallationInv'
<1> SUFFICES ASSUME InstallationInv, [Installing!InstallationNext]_installationVars PROVE InstallationInv'
  OBVIOUS
<1>1. CASE UNCHANGED installationVars
  <2>1. UNCHANGED <<claim, repositories, delivery, overtaken>>
    BY <1>1 DEF installationVars
  <2>2. Installing!InstallationTypeOK' /\ \A w \in Workspaces : \A r \in repositories'[w] : Listable(w, r)'
    BY <2>1 DEF InstallationInv, Installing!InstallationTypeOK, Listable, Installing!Confirmed
  <2> QED BY <2>1, <2>2 DEF InstallationInv, SoundlyBound, Installing!Confirmed, Installing!Claimed
<1>2. ASSUME NEW w \in Workspaces, Installing!Disconnect(w) PROVE InstallationInv'
  BY <1>2, MissGoesOn, ForgetKeeps DEF Installing!Disconnect
<1>3. ASSUME NEW w \in Workspaces, NEW i \in Installations, NEW R \in SUBSET Repositories[i], NEW d \in Deliveries,
             NEW kind \in {"full", "delta"}, Installing!ConfirmByDelivery(d, w, i, kind, R)
      PROVE  InstallationInv'
  <2>1. kind \in Installing!Kinds /\ {} \in SUBSET Repositories[i]
    BY DEF Installing!Kinds
  <2> QED BY <1>3, <2>1, FoundKeeps
<1>4. ASSUME NEW w \in Workspaces, NEW i \in Installations, NEW R \in SUBSET Repositories[i], NEW d \in Deliveries,
             NEW kind \in Installing!Kinds, NEW S \in SUBSET (Repositories[i] \ R), Installing!Resolve(d, w, i, kind, R, S)
      PROVE  InstallationInv'
  <2>1. S \in SUBSET Repositories[i]
    BY <1>4
  <2> QED BY <1>4, <2>1, FoundKeeps
<1> QED BY <1>1, <1>2, <1>3, <1>4, GrowKeeps, ConnectKeeps, ConfirmKeeps, NameKeeps, ClearKeeps, ListKeeps, DeliveryEnds
        DEF Installing!InstallationNext

\* What is listed was confirmed, or was in flight.
LEMMA InstallationProperties == InstallationInv => Installing!ForeignRepositoriesWereInFlight
BY DEF InstallationInv, Listable, Installing!ForeignRepositoriesWereInFlight

-----------------------------------------------------------------------------
(* Handshakes with either.                                                  *)

\* A redirect being served: by the session the cookie remembered, for its workspace.
Serving == [at : {"serving", "linked"}, code : Connecting!States, session : Logins, tenant : Tenants,
            grant : SUBSET Granted, account : Granted \union {None}]

\* What is in each table, and that cookies and redirects are of the handshake whose number they carry.
TablesAreTyped ==
  /\ Connecting!HandshakeTypeOK
  /\ begun \in [Connecting!States -> [session : Logins, tenant : Tenants] \union {None}]
  /\ answer \in [Connecting!States -> Answers \union {None}]
  /\ joined \in [Tenants -> Connecting!Links \union {None}]
  /\ callback \in [Callbacks -> Serving \union {Connecting!Idle}]
\* The cookie names the handshake its browser began.
JarIsOfItsHandshake == jar # None => begun[jar.state] = [session |-> jar.session, tenant |-> jar.tenant]
\* A callback serves the handshake its code came from, with what was granted.
OfItsHandshake(c) == callback[c].at # "idle" =>
  /\ begun[callback[c].code] = [session |-> callback[c].session, tenant |-> callback[c].tenant]
  /\ answer[callback[c].code] # None /\ callback[c].grant \subseteq answer[callback[c].code].grant
  /\ callback[c].at = "linked" =>
       /\ callback[c].account \in callback[c].grant
       /\ \/ \E w \in Tenants : joined[w] # None /\ joined[w].code = callback[c].code /\ joined[w].account = callback[c].account
          \/ callback[c].code \in undone

\* A row carries numbers of handshakes that were begun and answered; an account is in one row.
RowsCarryNumbers ==
  \A w \in Tenants : joined[w] # None =>
    /\ begun[joined[w].code] # None
    /\ joined[w].confirmed # None => answer[joined[w].confirmed] # None
\* An account is in one row, and Slack names nobody.
AccountsAreJoinedOnce == \A v, w \in Tenants : v # w /\ joined[v] # None /\ joined[w] # None => joined[v].account # joined[w].account
SlackNamesNobody == provider = "slack" => \A n \in Connecting!States : answer[n] # None => answer[n].named = None

\* The inductive invariant of the handshakes.
HandshakeInv ==
  /\ TablesAreTyped /\ JarIsOfItsHandshake /\ \A c \in Callbacks : OfItsHandshake(c)
  /\ RowsCarryNumbers /\ AccountsAreJoinedOnce /\ SlackNamesNobody
  /\ Connecting!ConnectedAsBegun /\ Connecting!ConfirmedByAGrant

\* What the handshakes assume of their constants.
LEMMA Handshaking ==
  /\ None \notin Connecting!Links /\ None \notin Connecting!Cookies /\ None \notin [session : Logins, tenant : Tenants]
  /\ Owner \in [Logins -> Connecting!Claimants]
  /\ \A a \in Answers : a.grant \subseteq Granted /\ a.named \in Granted \union {None}
BY LegalConstants DEF Connecting!LegalHandshakeConstants

\* Nothing is connected at first.
LEMMA HandshakeStart == Connecting!HandshakeInit => HandshakeInv
<1> SUFFICES ASSUME Connecting!HandshakeInit PROVE HandshakeInv
  OBVIOUS
<1>1. /\ provider \in Providers /\ signed = None /\ ended = {} /\ jar = None
      /\ begun = [n \in Connecting!States |-> None] /\ answer = begun
      /\ codes = {} /\ callback = [c \in Callbacks |-> Connecting!Idle]
      /\ joined = [w \in Tenants |-> None] /\ undone = {}
  BY DEF Connecting!HandshakeInit
<1>2. Connecting!Idle.at = "idle"
  BY DEF Connecting!Idle
<1>3. TablesAreTyped
  BY <1>1, <1>2 DEF TablesAreTyped, Connecting!HandshakeTypeOK
<1>4. Connecting!ConnectedAsBegun /\ Connecting!ConfirmedByAGrant
  BY <1>1 DEF Connecting!ConnectedAsBegun, Connecting!ConfirmedByAGrant
<1>5. \A c \in Callbacks : OfItsHandshake(c)
  BY <1>1, <1>2 DEF OfItsHandshake
<1> QED BY <1>1, <1>3, <1>4, <1>5
    DEF HandshakeInv, JarIsOfItsHandshake, RowsCarryNumbers, AccountsAreJoinedOnce, SlackNamesNobody

\* People sign in and out, and the cookie goes.
LEMMA BrowserMoves ==
  ASSUME HandshakeInv, signed' \in Logins \union {None}, ended' \subseteq Logins, jar' \in {jar, None},
         codes' \subseteq Connecting!States, UNCHANGED <<provider, begun, answer, joined, undone>>,
         callback' \in [Callbacks -> Serving \union {Connecting!Idle}],
         \A c \in Callbacks : callback'[c] \in {callback[c], Connecting!Idle}
  PROVE  HandshakeInv'
<1>1. \A c \in Callbacks : callback[c].at # "idle" => callback[c] \in Serving
  BY DEF HandshakeInv, TablesAreTyped, Connecting!Idle
<1>2. TablesAreTyped'
  BY <1>1 DEF HandshakeInv, TablesAreTyped, Connecting!HandshakeTypeOK, Serving, Connecting!Idle
<1>3. ASSUME NEW c \in Callbacks PROVE OfItsHandshake(c)'
  BY DEF HandshakeInv, OfItsHandshake, Connecting!Idle
<1>4. JarIsOfItsHandshake'
  BY DEF HandshakeInv, JarIsOfItsHandshake
<1>5. Connecting!ConnectedAsBegun' /\ Connecting!ConfirmedByAGrant'
  BY DEF HandshakeInv, Connecting!ConnectedAsBegun, Connecting!ConfirmedByAGrant
<1>6. RowsCarryNumbers' /\ AccountsAreJoinedOnce' /\ SlackNamesNobody'
  BY DEF HandshakeInv, RowsCarryNumbers, AccountsAreJoinedOnce, SlackNamesNobody
<1> QED BY <1>2, <1>3, <1>4, <1>5, <1>6 DEF HandshakeInv

\* A handshake is begun: a number nobody carries yet.
LEMMA HandshakeBeginKeeps ==
  ASSUME HandshakeInv, NEW n \in Connecting!States, NEW w \in Tenants, Connecting!Begin(n, w) PROVE HandshakeInv'
<1> DEFINE b == [session |-> signed, tenant |-> w]
           j == [state |-> n, session |-> signed, tenant |-> w]
<1>1. /\ begun[n] = None /\ signed \in Logins /\ begun' = [begun EXCEPT ![n] = b] /\ jar' = j
      /\ UNCHANGED <<provider, signed, ended, answer, codes, callback, joined, undone>>
  BY DEF Connecting!Begin, HandshakeInv, TablesAreTyped, Connecting!HandshakeTypeOK
<1>2. /\ begun' \in [Connecting!States -> [session : Logins, tenant : Tenants] \union {None}]
      /\ begun'[n] = b /\ \A m \in Connecting!States : begun[m] # None => begun'[m] = begun[m]
  BY <1>1 DEF HandshakeInv, TablesAreTyped
<1>3. b \in [session : Logins, tenant : Tenants] /\ b # None /\ j \in Connecting!Cookies
  BY <1>1, Handshaking DEF Connecting!Cookies
<1>4. \A m \in Connecting!States : begun'[m] = None \/ begun'[m] \in [session : Logins, tenant : Tenants]
  BY <1>2
<1>5. \A m \in Connecting!States : answer[m] # None => begun'[m] # None /\ answer[m] \in Answers
  BY <1>2 DEF HandshakeInv, TablesAreTyped, Connecting!HandshakeTypeOK
<1>6. TablesAreTyped'
  BY <1>1, <1>2, <1>3, <1>4, <1>5 DEF HandshakeInv, TablesAreTyped, Connecting!HandshakeTypeOK
<1>7. JarIsOfItsHandshake'
  BY <1>1, <1>2 DEF JarIsOfItsHandshake
<1>8. ASSUME NEW c \in Callbacks PROVE OfItsHandshake(c)'
  <2>1. CASE callback[c].at = "idle"
    BY <1>1, <2>1 DEF OfItsHandshake
  <2>2. CASE callback[c].at # "idle"
    <3>1. callback[c] \in Serving /\ OfItsHandshake(c)
      BY <2>2 DEF HandshakeInv, TablesAreTyped, Connecting!Idle
    <3>2. callback[c].code \in Connecting!States /\ begun[callback[c].code] # None
      <4>1. begun[callback[c].code] \in [session : Logins, tenant : Tenants]
        BY <2>2, <3>1 DEF OfItsHandshake, Serving
      <4> QED BY <3>1, <4>1, Handshaking DEF Serving
    <3>3. begun'[callback[c].code] = begun[callback[c].code]
      BY <1>2, <3>2
    <3> QED BY <1>1, <3>1, <3>3 DEF OfItsHandshake
  <2> QED BY <2>1, <2>2
<1>9. \A v \in Tenants : joined[v] # None => begun'[joined[v].code] = begun[joined[v].code] /\ begun[joined[v].code] # None
  BY <1>2 DEF HandshakeInv, TablesAreTyped, RowsCarryNumbers, Connecting!Links
<1> HIDE DEF b, j
<1>10. Connecting!ConnectedAsBegun' /\ Connecting!ConfirmedByAGrant'
  BY <1>1, <1>9 DEF HandshakeInv, Connecting!ConnectedAsBegun, Connecting!ConfirmedByAGrant
<1>11. RowsCarryNumbers' /\ AccountsAreJoinedOnce' /\ SlackNamesNobody'
  BY <1>1, <1>9 DEF HandshakeInv, RowsCarryNumbers, AccountsAreJoinedOnce, SlackNamesNobody
<1> QED BY <1>6, <1>7, <1>8, <1>10, <1>11 DEF HandshakeInv

\* The provider answers a handshake that had no answer.
LEMMA ConsentKeeps ==
  ASSUME HandshakeInv, NEW n \in Connecting!States, NEW a \in Answers, Connecting!Consent(n, a) PROVE HandshakeInv'
<1>1. /\ begun[n] # None /\ answer[n] = None /\ (provider = "slack" => a.named = None)
      /\ answer' = [answer EXCEPT ![n] = a]
      /\ UNCHANGED <<provider, signed, ended, jar, begun, codes, callback, joined, undone>>
  BY DEF Connecting!Consent
<1>2. /\ answer' \in [Connecting!States -> Answers \union {None}]
      /\ answer'[n] = a /\ \A m \in Connecting!States \ {n} : answer'[m] = answer[m]
      /\ \A m \in Connecting!States : answer[m] # None => answer'[m] = answer[m]
  BY <1>1 DEF HandshakeInv, TablesAreTyped
<1>3. \A m \in Connecting!States : answer'[m] # None => begun[m] # None /\ answer'[m] \in Answers
  BY <1>1, <1>2 DEF HandshakeInv, TablesAreTyped, Connecting!HandshakeTypeOK
<1>4. TablesAreTyped'
  BY <1>1, <1>2, <1>3 DEF HandshakeInv, TablesAreTyped, Connecting!HandshakeTypeOK
<1>5. JarIsOfItsHandshake'
  BY <1>1 DEF HandshakeInv, JarIsOfItsHandshake
<1>6. ASSUME NEW c \in Callbacks PROVE OfItsHandshake(c)'
  <2>1. CASE callback[c].at = "idle"
    BY <1>1, <2>1 DEF OfItsHandshake
  <2>2. CASE callback[c].at # "idle"
    <3>1. callback[c] \in Serving /\ OfItsHandshake(c)
      BY <2>2 DEF HandshakeInv, TablesAreTyped, Connecting!Idle
    <3>2. callback[c].code \in Connecting!States /\ answer[callback[c].code] # None
      BY <2>2, <3>1 DEF OfItsHandshake, Serving
    <3>3. answer'[callback[c].code] = answer[callback[c].code]
      BY <1>2, <3>2
    <3> QED BY <1>1, <3>1, <3>3 DEF OfItsHandshake
  <2> QED BY <2>1, <2>2
<1>7. \A w \in Tenants : joined[w] # None /\ joined[w].confirmed # None =>
        answer[joined[w].confirmed] # None /\ answer'[joined[w].confirmed] = answer[joined[w].confirmed]
  BY <1>2 DEF HandshakeInv, TablesAreTyped, RowsCarryNumbers, Connecting!Links
<1>8. Connecting!ConnectedAsBegun' /\ Connecting!ConfirmedByAGrant'
  BY <1>1, <1>7 DEF HandshakeInv, Connecting!ConnectedAsBegun, Connecting!ConfirmedByAGrant
<1>9. RowsCarryNumbers' /\ AccountsAreJoinedOnce'
  BY <1>1, <1>7 DEF HandshakeInv, RowsCarryNumbers, AccountsAreJoinedOnce
<1>10. SlackNamesNobody'
  BY <1>1, <1>2 DEF HandshakeInv, SlackNamesNobody
<1> QED BY <1>4, <1>5, <1>6, <1>8, <1>9, <1>10 DEF HandshakeInv

\* A row goes, and what it claimed is remembered.
LEMMA LetGo ==
  ASSUME HandshakeInv, NEW w \in Tenants, Connecting!Disconnect(w) PROVE HandshakeInv'
<1>1. /\ joined[w] # None /\ joined' = [joined EXCEPT ![w] = None] /\ undone' = undone \union {joined[w].code}
      /\ UNCHANGED <<provider, signed, ended, jar, begun, answer, codes, callback>>
  BY DEF Connecting!Disconnect
<1>2. /\ joined' \in [Tenants -> Connecting!Links \union {None}] /\ joined'[w] = None
      /\ \A v \in Tenants \ {w} : joined'[v] = joined[v]
  BY <1>1 DEF HandshakeInv, TablesAreTyped
<1>3. joined[w].code \in Connecting!States
  BY <1>1 DEF HandshakeInv, TablesAreTyped, Connecting!Links
<1>4. \A v \in Tenants : joined'[v] = None \/ joined'[v] \in Connecting!Links
  BY <1>2
<1>5. TablesAreTyped'
  BY <1>1, <1>2, <1>3, <1>4 DEF HandshakeInv, TablesAreTyped, Connecting!HandshakeTypeOK
<1>6. ASSUME NEW c \in Callbacks PROVE OfItsHandshake(c)'
  BY <1>1, <1>2 DEF HandshakeInv, OfItsHandshake
<1>7. Connecting!ConnectedAsBegun'
  BY <1>1, <1>2 DEF HandshakeInv, Connecting!ConnectedAsBegun
<1>8. Connecting!ConfirmedByAGrant'
  BY <1>1, <1>2 DEF HandshakeInv, Connecting!ConfirmedByAGrant
<1>9. RowsCarryNumbers' /\ AccountsAreJoinedOnce' /\ SlackNamesNobody' /\ JarIsOfItsHandshake'
  BY <1>1, <1>2 DEF HandshakeInv, RowsCarryNumbers, AccountsAreJoinedOnce, SlackNamesNobody, JarIsOfItsHandshake
<1> QED BY <1>5, <1>6, <1>7, <1>8, <1>9 DEF HandshakeInv

\* The redirect comes back to the browser that holds the cookie of the handshake.
LEMMA ArriveKeeps ==
  ASSUME HandshakeInv, NEW c \in Callbacks, NEW n \in Connecting!States, Connecting!Arrive(c, n) PROVE HandshakeInv'
<1>1. PICK grant : /\ grant \in IF provider = "github" THEN Connecting!Grants(n) ELSE {{}}
                   /\ callback' = [callback EXCEPT ![c] =
                        [at |-> "serving", code |-> n, session |-> signed, tenant |-> jar.tenant, grant |-> grant, account |-> None]]
  BY DEF Connecting!Arrive
<1> DEFINE k == [at |-> "serving", code |-> n, session |-> signed, tenant |-> jar.tenant, grant |-> grant, account |-> None]
<1>2. /\ answer[n] # None /\ jar # None /\ jar.state = n /\ signed = jar.session /\ codes' \subseteq Connecting!States
      /\ UNCHANGED <<provider, signed, ended, jar, begun, answer, joined, undone>>
  BY DEF Connecting!Arrive, Connecting!StateMatches, HandshakeInv, TablesAreTyped, Connecting!HandshakeTypeOK
<1>3. jar \in Connecting!Cookies /\ begun[n] = [session |-> signed, tenant |-> jar.tenant]
  BY <1>2 DEF HandshakeInv, TablesAreTyped, Connecting!HandshakeTypeOK, JarIsOfItsHandshake
<1>4. grant \subseteq answer[n].grant /\ grant \subseteq Granted
  <2>1. grant \in {{}, answer[n].grant}
    BY <1>1 DEF Connecting!Grants
  <2>2. answer[n] \in Answers
    BY <1>2 DEF HandshakeInv, TablesAreTyped
  <2> QED BY <2>1, <2>2, Handshaking
<1>5. k \in Serving /\ k.at = "serving"
  BY <1>2, <1>3, <1>4 DEF Serving, Connecting!Cookies
<1>6. callback' \in [Callbacks -> Serving \union {Connecting!Idle}] /\ callback'[c] = k /\ \A d \in Callbacks \ {c} : callback'[d] = callback[d]
  BY <1>1, <1>5 DEF HandshakeInv, TablesAreTyped
<1>7. \A d \in Callbacks : callback'[d].at # "idle" => callback'[d].session \in Logins
  BY <1>6 DEF Serving, Connecting!Idle
<1>8. TablesAreTyped'
  BY <1>2, <1>6, <1>7 DEF HandshakeInv, TablesAreTyped, Connecting!HandshakeTypeOK
<1>9. OfItsHandshake(c)'
  BY <1>2, <1>3, <1>4, <1>6 DEF OfItsHandshake
<1>10. ASSUME NEW d \in Callbacks \ {c} PROVE OfItsHandshake(d)'
  BY <1>2, <1>6 DEF HandshakeInv, OfItsHandshake
<1>11. Connecting!ConnectedAsBegun' /\ Connecting!ConfirmedByAGrant' /\ JarIsOfItsHandshake'
  BY <1>2 DEF HandshakeInv, Connecting!ConnectedAsBegun, Connecting!ConfirmedByAGrant, JarIsOfItsHandshake
<1>12. RowsCarryNumbers' /\ AccountsAreJoinedOnce' /\ SlackNamesNobody'
  BY <1>2 DEF HandshakeInv, RowsCarryNumbers, AccountsAreJoinedOnce, SlackNamesNobody
<1> QED BY <1>8, <1>9, <1>10, <1>11, <1>12 DEF HandshakeInv

\* The workspace's row is replaced by one of the handshake's session and code.
LEMMA RowIsReplaced ==
  ASSUME HandshakeInv, NEW c \in Callbacks, NEW i \in Granted, NEW confirmed \in {callback[c].code, None},
         callback[c].at = "serving",
         confirmed # None => i \in answer[callback[c].code].grant,
         \A w \in Tenants \ {callback[c].tenant} : joined[w] # None => joined[w].account # i,
         joined' = [joined EXCEPT ![callback[c].tenant] =
           [account |-> i, by |-> Owner[callback[c].session], code |-> callback[c].code, confirmed |-> confirmed]],
         undone' = undone \union {joined[w].code : w \in {callback[c].tenant} \ {v \in Tenants : joined[v] = None}},
         callback' \in [Callbacks -> Serving \union {Connecting!Idle}],
         \A d \in Callbacks \ {c} : callback'[d] = callback[d],
         \/ callback'[c] = Connecting!Idle
         \/ callback'[c] = [callback[c] EXCEPT !.at = "linked", !.account = i] /\ i \in callback[c].grant,
         jar' \in {jar, None}, codes' \subseteq Connecting!States, UNCHANGED <<provider, signed, ended, begun, answer>>
  PROVE  HandshakeInv'
<1> DEFINE k == callback[c]
           l == [account |-> i, by |-> Owner[k.session], code |-> k.code, confirmed |-> confirmed]
<1>1. k \in Serving
  BY DEF HandshakeInv, TablesAreTyped, Connecting!Idle
<1>2. /\ begun[k.code] = [session |-> k.session, tenant |-> k.tenant] /\ answer[k.code] # None
      /\ k.grant \subseteq answer[k.code].grant
  BY DEF HandshakeInv, OfItsHandshake
<1> DEFINE t == k.tenant
<1>3. t \in Tenants /\ k.code \in Connecting!States /\ k.session \in Logins /\ joined' = [joined EXCEPT ![t] = l]
  BY <1>1 DEF Serving
<1>4. /\ l \in Connecting!Links /\ l # None /\ l.account = i /\ l.by = Owner[k.session] /\ l.code = k.code /\ l.confirmed = confirmed
  BY <1>3, Handshaking DEF Connecting!Links
<1>5. joined[t] # None => joined[t].code \in undone' /\ joined[t].code \in Connecting!States
  BY <1>3 DEF HandshakeInv, TablesAreTyped, Connecting!Links
<1>6. undone \subseteq undone' /\ undone' \subseteq Connecting!States
  BY <1>3, <1>5 DEF HandshakeInv, TablesAreTyped, Connecting!HandshakeTypeOK
<1> HIDE DEF l
<1>7. /\ joined' \in [Tenants -> Connecting!Links \union {None}] /\ joined'[t] = l
      /\ \A v \in Tenants \ {t} : joined'[v] = joined[v]
  BY <1>3, <1>4 DEF HandshakeInv, TablesAreTyped
<1>8. TablesAreTyped'
  <2>1. \A d \in Callbacks : callback'[d].at # "idle" => callback'[d].session \in Logins
    BY DEF Serving, Connecting!Idle
  <2>2. \A v \in Tenants : joined'[v] = None \/ joined'[v] \in Connecting!Links
    BY <1>7
  <2> QED BY <1>6, <1>7, <2>1, <2>2 DEF HandshakeInv, TablesAreTyped, Connecting!HandshakeTypeOK
<1>9. ASSUME NEW d \in Callbacks \ {c} PROVE OfItsHandshake(d)'
  <2>1. OfItsHandshake(d)
    BY DEF HandshakeInv
  <2> QED BY <1>5, <1>6, <1>7, <2>1 DEF OfItsHandshake
<1>10. OfItsHandshake(c)'
  <2>1. CASE callback'[c] = Connecting!Idle
    BY <2>1 DEF OfItsHandshake, Connecting!Idle
  <2>2. CASE callback'[c] = [callback[c] EXCEPT !.at = "linked", !.account = i] /\ i \in callback[c].grant
    <3> DEFINE m == [k EXCEPT !.at = "linked", !.account = i]
    <3> HIDE DEF k
    <3>1. /\ m.at = "linked" /\ m.account = i /\ m.code = k.code /\ m.session = k.session
          /\ m.tenant = k.tenant /\ m.grant = k.grant
      BY <1>1 DEF Serving
    <3>2. callback'[c] = m /\ i \in k.grant
      BY <2>2 DEF k
    <3> HIDE DEF m
    <3> QED BY <1>2, <1>3, <1>4, <1>7, <3>1, <3>2 DEF OfItsHandshake
  <2> QED BY <2>1, <2>2
<1>11. Connecting!ConnectedAsBegun'
  <2>1. begun[l.code].tenant = t /\ Owner[begun[l.code].session] = l.by
    BY <1>2, <1>4
  <2> QED BY <1>7, <2>1 DEF HandshakeInv, Connecting!ConnectedAsBegun
<1>12. Connecting!ConfirmedByAGrant'
  BY <1>4, <1>6, <1>7 DEF HandshakeInv, Connecting!ConfirmedByAGrant
<1>13. begun[k.code] # None
  <2>1. begun[k.code] \in [session : Logins, tenant : Tenants]
    BY <1>2, <1>3
  <2> QED BY <2>1, Handshaking
<1>14. RowsCarryNumbers'
  BY <1>2, <1>4, <1>7, <1>13 DEF HandshakeInv, RowsCarryNumbers
<1>15. AccountsAreJoinedOnce'
  BY <1>4, <1>7 DEF HandshakeInv, AccountsAreJoinedOnce
<1>16. SlackNamesNobody' /\ JarIsOfItsHandshake'
  BY DEF HandshakeInv, SlackNamesNobody, JarIsOfItsHandshake
<1> QED BY <1>8, <1>9, <1>10, <1>11, <1>12, <1>14, <1>15, <1>16 DEF HandshakeInv

\* A served redirect replaces its workspace's row by its own.
LEMMA LinkKeeps == ASSUME HandshakeInv, NEW c \in Callbacks, Connecting!Link(c) PROVE HandshakeInv'
<1> DEFINE k == callback[c]
<1>1. k.at = "serving" /\ codes' = codes \union {k.code} /\ UNCHANGED <<provider, signed, ended, begun, answer>>
  BY DEF Connecting!Link
<1> DEFINE Exchanged == IF provider = "github" THEN {k.grant} ELSE Connecting!Grants(k.code)
           Joins(g, j) ==
             /\ \A w \in Tenants \ {k.tenant} : joined[w] # None => joined[w].account # j
             /\ joined' = [joined EXCEPT ![k.tenant] =
                  [account |-> j, by |-> Owner[k.session], code |-> k.code, confirmed |-> IF provider = "slack" THEN k.code ELSE None]]
             /\ undone' = undone \union {joined[w].code : w \in {k.tenant} \ {v \in Tenants : joined[v] = None}}
             /\ IF provider = "github" /\ j \in g
                THEN callback' = [callback EXCEPT ![c] = [k EXCEPT !.at = "linked", !.account = j]] /\ UNCHANGED jar
                ELSE Connecting!Answered(c)
<1>2. PICK grant \in Exchanged : \E j \in Connecting!Chosen(answer[k.code].named, grant) : Joins(grant, j)
  BY DEF Connecting!Link
<1>2a. PICK i \in Connecting!Chosen(answer[k.code].named, grant) : Joins(grant, i)
  BY <1>2
<1>3. k \in Serving /\ OfItsHandshake(c)
  BY <1>1 DEF HandshakeInv, TablesAreTyped, Connecting!Idle
<1>4. answer[k.code] \in Answers /\ k.grant \subseteq answer[k.code].grant
  BY <1>1, <1>3 DEF HandshakeInv, TablesAreTyped, OfItsHandshake, Serving
<1>5. grant \in {{}, k.grant, answer[k.code].grant}
  BY <1>2 DEF Connecting!Grants
<1>6. i \in {answer[k.code].named} \ {None} \/ i \in grant
  BY <1>2a DEF Connecting!Chosen
<1>7. i \in Granted
  BY <1>3, <1>4, <1>5, <1>6, Handshaking DEF Serving
<1> DEFINE confirmed == IF provider = "slack" THEN k.code ELSE None
<1>8. confirmed \in {k.code, None} /\ codes' \subseteq Connecting!States
  BY <1>1, <1>3 DEF Serving, HandshakeInv, TablesAreTyped, Connecting!HandshakeTypeOK
<1>9. confirmed # None => i \in answer[k.code].grant
  <2>1. provider = "slack" => answer[k.code].named = None
    BY <1>1, <1>3 DEF HandshakeInv, SlackNamesNobody, OfItsHandshake, Serving
  <2> QED BY <1>4, <1>5, <1>6, <2>1
<1>10. /\ callback' \in [Callbacks -> Serving \union {Connecting!Idle}] /\ jar' \in {jar, None}
       /\ \A d \in Callbacks \ {c} : callback'[d] = callback[d]
       /\ \/ callback'[c] = Connecting!Idle
          \/ callback'[c] = [k EXCEPT !.at = "linked", !.account = i] /\ i \in k.grant
  <2>1. CASE Connecting!Answered(c)
    BY <2>1 DEF Connecting!Answered, HandshakeInv, TablesAreTyped
  <2>2. CASE provider = "github" /\ i \in grant /\ callback' = [callback EXCEPT ![c] = [k EXCEPT !.at = "linked", !.account = i]] /\ UNCHANGED jar
    <3> DEFINE m == [k EXCEPT !.at = "linked", !.account = i]
    <3>0. i \in k.grant
      BY <1>2, <2>2
    <3>1. callback' = [callback EXCEPT ![c] = m]
      BY <2>2
    <3> HIDE DEF k
    <3>2. m \in Serving
      BY <1>3, <1>7 DEF Serving
    <3>3. m = [k EXCEPT !.at = "linked", !.account = i]
      OBVIOUS
    <3> HIDE DEF m
    <3> QED BY <2>2, <3>0, <3>1, <3>2, <3>3 DEF HandshakeInv, TablesAreTyped
  <2> QED BY <1>2a, <2>1, <2>2
<1>11. joined' = [joined EXCEPT ![k.tenant] = [account |-> i, by |-> Owner[k.session], code |-> k.code, confirmed |-> confirmed]]
  BY <1>2a
<1> HIDE DEF confirmed
<1> QED BY <1>1, <1>2a, <1>7, <1>8, <1>9, <1>10, <1>11, RowIsReplaced

\* The code confirms whoever claims the account by now: the row the callback wrote, or
\* another's, and then that row has been taken away.
LEMMA ConfirmationKeeps == ASSUME HandshakeInv, NEW c \in Callbacks, Connecting!Confirm(c) PROVE HandshakeInv'
<1> DEFINE k == callback[c]
           S == {w \in Tenants : joined[w] # None /\ joined[w].account = k.account /\ joined[w].confirmed = None}
<1>1. /\ k.at = "linked"
      /\ joined' = [w \in Tenants |-> IF joined[w] # None /\ joined[w].account = k.account /\ joined[w].confirmed = None
                                      THEN [joined[w] EXCEPT !.confirmed = k.code] ELSE joined[w]]
      /\ callback' = [callback EXCEPT ![c] = Connecting!Idle] /\ jar' \in {jar, None}
      /\ UNCHANGED <<provider, signed, ended, begun, answer, codes, undone>>
  BY DEF Connecting!Confirm, Connecting!Answered
<1>2. k \in Serving /\ OfItsHandshake(c)
  BY <1>1 DEF HandshakeInv, TablesAreTyped, Connecting!Idle
<1>3. /\ k.code \in Connecting!States /\ answer[k.code] # None /\ k.account \in answer[k.code].grant
      /\ \/ \E w \in Tenants : joined[w] # None /\ joined[w].code = k.code /\ joined[w].account = k.account
         \/ k.code \in undone
  BY <1>1, <1>2 DEF OfItsHandshake, Serving
<1> HIDE DEF k
<1>4. /\ callback' \in [Callbacks -> Serving \union {Connecting!Idle}] /\ callback'[c] = Connecting!Idle
      /\ \A d \in Callbacks \ {c} : callback'[d] = callback[d]
  BY <1>1 DEF HandshakeInv, TablesAreTyped
<1>5. ASSUME NEW w \in Tenants, joined[w] = None PROVE joined'[w] = None
  BY <1>1, <1>5
<1>6. ASSUME NEW w \in Tenants, joined[w] # None
      PROVE  /\ joined'[w] \in Connecting!Links /\ joined'[w] # None /\ joined'[w].account = joined[w].account
             /\ joined'[w].by = joined[w].by /\ joined'[w].code = joined[w].code
             /\ \/ joined'[w].confirmed = joined[w].confirmed
                \/ joined'[w].confirmed = k.code /\ joined[w].account = k.account
  <2> DEFINE l == joined[w]
             m == [l EXCEPT !.confirmed = k.code]
  <2>1. l \in Connecting!Links /\ joined'[w] \in {l, m} /\ (joined'[w] = l \/ l.account = k.account)
    BY <1>1, <1>6 DEF HandshakeInv, TablesAreTyped
  <2> HIDE DEF l
  <2>2. m \in Connecting!Links /\ m.account = l.account /\ m.by = l.by /\ m.code = l.code /\ m.confirmed = k.code
    BY <1>3, <2>1 DEF Connecting!Links
  <2> HIDE DEF m
  <2> QED BY <2>1, <2>2, Handshaking DEF l
<1>7. TablesAreTyped'
  <2>1. \A d \in Callbacks : callback'[d].at # "idle" => callback'[d].session \in Logins
    BY <1>4 DEF Serving, Connecting!Idle
  <2>2. \A v \in Tenants : joined'[v] = None \/ joined'[v] \in Connecting!Links
    BY <1>5, <1>6
  <2>3. joined' \in [Tenants -> Connecting!Links \union {None}]
    BY <1>1, <2>2
  <2> QED BY <1>1, <1>4, <2>1, <2>2, <2>3 DEF HandshakeInv, TablesAreTyped, Connecting!HandshakeTypeOK
<1>8. OfItsHandshake(c)'
  BY <1>4 DEF OfItsHandshake, Connecting!Idle
<1>9. ASSUME NEW d \in Callbacks \ {c} PROVE OfItsHandshake(d)'
  <2>1. OfItsHandshake(d)
    BY DEF HandshakeInv
  <2> DEFINE e == callback[d]
  <2>2. callback'[d] = e /\ UNCHANGED <<begun, answer, undone>>
    BY <1>1, <1>4
  <2>3. ASSUME NEW w \in Tenants, joined[w] # None /\ joined[w].code = e.code /\ joined[w].account = e.account
        PROVE  joined'[w] # None /\ joined'[w].code = e.code /\ joined'[w].account = e.account
    BY <1>6, <2>3
  <2>4. (\E w \in Tenants : joined[w] # None /\ joined[w].code = e.code /\ joined[w].account = e.account)
        => \E w \in Tenants : joined'[w] # None /\ joined'[w].code = e.code /\ joined'[w].account = e.account
    BY <2>3
  <2> QED BY <2>1, <2>2, <2>4 DEF OfItsHandshake
<1>10. Connecting!ConnectedAsBegun'
  BY <1>1, <1>5, <1>6 DEF HandshakeInv, Connecting!ConnectedAsBegun
<1>11. Connecting!ConfirmedByAGrant'
  <2> SUFFICES ASSUME NEW w \in Tenants, joined'[w] # None, joined'[w].confirmed # None
               PROVE  /\ joined'[w].account \in answer'[joined'[w].confirmed].grant
                      /\ joined'[w].confirmed = joined'[w].code \/ joined'[w].confirmed \in undone'
    BY DEF Connecting!ConfirmedByAGrant
  <2>1. joined[w] # None
    BY <1>5
  <2>2. CASE joined'[w].confirmed = joined[w].confirmed
    <3>1. joined[w].account \in answer[joined[w].confirmed].grant /\ (joined[w].confirmed = joined[w].code \/ joined[w].confirmed \in undone)
      BY <2>1, <2>2 DEF HandshakeInv, Connecting!ConfirmedByAGrant
    <3> QED BY <1>1, <1>6, <2>1, <2>2, <3>1
  <2>3. CASE joined'[w].confirmed = k.code /\ joined[w].account = k.account
    <3>1. \A v \in Tenants : joined[v] # None /\ joined[v].account = k.account => v = w
      BY <2>1, <2>3 DEF HandshakeInv, AccountsAreJoinedOnce
    <3> QED BY <1>1, <1>3, <1>6, <2>1, <2>3, <3>1
  <2> QED BY <1>6, <2>1, <2>2, <2>3
<1>12. RowsCarryNumbers'
  <2> SUFFICES ASSUME NEW w \in Tenants, joined'[w] # None
               PROVE  begun'[joined'[w].code] # None /\ (joined'[w].confirmed # None => answer'[joined'[w].confirmed] # None)
    BY DEF RowsCarryNumbers
  <2>1. joined[w] # None
    BY <1>5
  <2>2. begun[joined[w].code] # None /\ (joined[w].confirmed # None => answer[joined[w].confirmed] # None)
    BY <2>1 DEF HandshakeInv, RowsCarryNumbers
  <2> QED BY <1>1, <1>3, <1>6, <2>1, <2>2
<1>13. AccountsAreJoinedOnce'
  BY <1>5, <1>6 DEF HandshakeInv, AccountsAreJoinedOnce
<1>14. SlackNamesNobody' /\ JarIsOfItsHandshake'
  BY <1>1 DEF HandshakeInv, SlackNamesNobody, JarIsOfItsHandshake
<1> QED BY <1>7, <1>8, <1>9, <1>10, <1>11, <1>12, <1>13, <1>14 DEF HandshakeInv

\* Every step of a handshake keeps the invariant.
LEMMA HandshakeStep == HandshakeInv /\ [Connecting!HandshakeNext]_handshakeVars => HandshakeInv'
<1> SUFFICES ASSUME HandshakeInv, [Connecting!HandshakeNext]_handshakeVars PROVE HandshakeInv'
  OBVIOUS
<1>0. /\ signed \in Logins \union {None} /\ ended \subseteq Logins /\ codes \subseteq Connecting!States
      /\ callback \in [Callbacks -> Serving \union {Connecting!Idle}]
  BY DEF HandshakeInv, TablesAreTyped, Connecting!HandshakeTypeOK
<1>1. CASE UNCHANGED handshakeVars
  <2>1. UNCHANGED <<provider, signed, ended, jar, begun, answer, codes, callback, joined, undone>>
    BY <1>1 DEF handshakeVars
  <2> QED BY <1>0, <2>1, BrowserMoves
<1>2. ASSUME NEW s \in Logins, Connecting!SignIn(s) PROVE HandshakeInv'
  <2>1. signed' = s /\ UNCHANGED <<provider, ended, jar, begun, answer, codes, callback, joined, undone>>
    BY <1>2 DEF Connecting!SignIn
  <2> QED BY <1>0, <2>1, BrowserMoves
<1>3. CASE Connecting!SignOut
  <2>1. /\ signed # None /\ signed' = None /\ ended' = ended \union {signed}
        /\ UNCHANGED <<provider, jar, begun, answer, codes, callback, joined, undone>>
    BY <1>3 DEF Connecting!SignOut
  <2> QED BY <1>0, <2>1, BrowserMoves
<1>4. CASE Connecting!Expire
  <2>1. jar' = None /\ UNCHANGED <<provider, signed, ended, begun, answer, codes, callback, joined, undone>>
    BY <1>4 DEF Connecting!Expire
  <2> QED BY <1>0, <2>1, BrowserMoves
<1>5. ASSUME NEW c \in Callbacks, Connecting!Fail(c) PROVE HandshakeInv'
  <2>1. /\ callback[c] # Connecting!Idle /\ callback' = [callback EXCEPT ![c] = Connecting!Idle] /\ jar' \in {jar, None}
        /\ codes' \in {codes, codes \union {callback[c].code}} /\ UNCHANGED <<provider, signed, ended, begun, answer, joined, undone>>
    BY <1>5 DEF Connecting!Fail, Connecting!Answered
  <2>2. callback[c].code \in Connecting!States
    BY <1>0, <2>1 DEF Serving
  <2> QED BY <1>0, <2>1, <2>2, BrowserMoves
<1> QED BY <1>1, <1>2, <1>3, <1>4, <1>5, HandshakeBeginKeeps, ConsentKeeps, LetGo, ArriveKeeps, LinkKeeps, ConfirmationKeeps
        DEF Connecting!HandshakeNext

-----------------------------------------------------------------------------
(* A pull request and its deliveries.                                       *)

\* The row of a pull request is a version some delivery applied since the row was
\* made; and what moved an issue is a version some delivery brought.
PullInv ==
  /\ history \in Seq(Pulls!Version) /\ Len(history) <= MaxEvents
  /\ spent \in SUBSET Pulls!Versions /\ applied \in SUBSET spent /\ stored \in applied \union {0}
  /\ tracked \in BOOLEAN
  /\ linked \in SUBSET Mentioned /\ live \in SUBSET Mentioned /\ announced \in SUBSET Mentioned
  /\ category \in [Mentioned -> Pulls!Category]
  /\ moved \in SUBSET (spent \X Mentioned) /\ redone = {} /\ moves \in 0..MaxMoves
  /\ stored = 0 => applied = {}
  /\ Pulls!TheRowIsTheNewestVersion

-----------------------------------------------------------------------------
\* No delivery has come at first.
LEMMA PullStart == Pulls!PullInit => PullInv
<1> SUFFICES ASSUME Pulls!PullInit PROVE PullInv
  OBVIOUS
<1>1. <<>> \in Seq(Pulls!Version) /\ Len(<<>>) = 0
  OBVIOUS
<1>2. MaxEvents \in Nat /\ MaxMoves \in Nat
  BY LegalConstants DEF Pulls!LegalPullConstants
<1>3. \A i \in Mentioned : "unstarted" \in Pulls!Category
  BY DEF Pulls!Category
<1> QED BY <1>1, <1>2, <1>3 DEF Pulls!PullInit, PullInv, Pulls!TheRowIsTheNewestVersion

\* The properties follow.
LEMMA PullProperties ==
  PullInv => Pulls!PullTypeOK /\ Pulls!TheRowIsTheNewestVersion /\ Pulls!DeliveriesActOnce
<1> SUFFICES ASSUME PullInv PROVE Pulls!PullTypeOK /\ Pulls!TheRowIsTheNewestVersion /\ Pulls!DeliveriesActOnce
  OBVIOUS
<1>1. moved \subseteq Pulls!Versions \X Mentioned
  BY DEF PullInv
<1> QED BY <1>1 DEF PullInv, Pulls!PullTypeOK, Pulls!DeliveriesActOnce

\* What a version of a pull request carries.
LEMMA VersionsAreRecords ==
  ASSUME PullInv, NEW n \in Pulls!Versions
  PROVE  history[n] \in Pulls!Version /\ history[n].instant \in Nat /\ history[n].mentions \in SUBSET Mentioned
<1>1. history[n] \in Pulls!Version
  BY DEF PullInv, Pulls!Versions
<1> QED BY <1>1 DEF Pulls!Version

\* A pull request has a new version.
LEMMA EmitKeeps == PullInv /\ Pulls!Emit => PullInv'
<1> SUFFICES ASSUME PullInv, Pulls!Emit PROVE PullInv'
  OBVIOUS
<1>0. /\ MaxEvents \in Nat /\ Len(history) \in Nat
      /\ history # <<>> => Len(history) \in Pulls!Versions
  BY LegalConstants DEF Pulls!LegalPullConstants, PullInv, Pulls!Versions
<1>1. history # <<>> => /\ Pulls!Current \in Pulls!Version /\ Pulls!Current.instant \in Nat
                        /\ Pulls!Current.mentions \in SUBSET Mentioned /\ Pulls!Current.display \in Pulls!Display
  BY <1>0, VersionsAreRecords DEF Pulls!Current, Pulls!Version
<1>2. PICK action \in {"opened", "ready_for_review", "edited", "closed", "reopened"},
           display \in Pulls!Display, S \in SUBSET Mentioned : Pulls!Change(action, display, S)
  BY <1>1 DEF Pulls!Emit, Pulls!Display
<1>3. PICK t \in Nat :
        history' = Append(history, [action |-> action, display |-> display, mentions |-> S, instant |-> t])
  <2>1. PICK t \in IF history = <<>> THEN {0} ELSE {Pulls!Current.instant, Pulls!Current.instant + 1} :
          history' = Append(history, [action |-> action, display |-> display, mentions |-> S, instant |-> t])
    BY <1>2 DEF Pulls!Change
  <2>2. t \in Nat
    BY <1>1, <2>1
  <2> QED BY <2>1, <2>2
<1>4. [action |-> action, display |-> display, mentions |-> S, instant |-> t] \in Pulls!Version
  BY DEF Pulls!Version
<1>5. Len(history) < MaxEvents
      /\ UNCHANGED <<spent, tracked, stored, linked, category, live, announced, applied, moved, redone, moves>>
  BY <1>2 DEF Pulls!Change
<1>6. history' \in Seq(Pulls!Version) /\ Len(history') = Len(history) + 1
      /\ \A n \in Pulls!Versions : history'[n] = history[n]
  BY <1>3, <1>4 DEF PullInv, Pulls!Versions
<1>7. Pulls!Versions \subseteq Pulls!Versions'
  BY <1>0, <1>6 DEF Pulls!Versions
<1>8. Len(history') <= MaxEvents
  BY <1>0, <1>5, <1>6
<1>9. stored # 0 => stored \in Pulls!Versions /\ applied \subseteq Pulls!Versions
  BY DEF PullInv
<1>10. Pulls!TheRowIsTheNewestVersion'
  BY <1>5, <1>6, <1>9 DEF PullInv, Pulls!TheRowIsTheNewestVersion
<1> QED BY <1>5, <1>6, <1>7, <1>8, <1>10 DEF PullInv

\* A delivery is applied if it is newer than what is stored.
LEMMA DeliverKeeps == ASSUME PullInv, NEW n \in Pulls!Versions, Pulls!Deliver(n) PROVE PullInv'
<1>1. n \notin spent /\ spent' = spent \union {n} /\ UNCHANGED <<history, tracked, live, moves>>
  BY DEF Pulls!Deliver, Pulls!NewDelivery
<1>2. spent' \in SUBSET Pulls!Versions' /\ Pulls!Versions' = Pulls!Versions
  BY <1>1 DEF PullInv, Pulls!Versions
<1>3. CASE Pulls!Ignored(n)
  <2>1. UNCHANGED <<stored, linked, category, announced, applied, moved, redone>>
    BY <1>3 DEF Pulls!Deliver
  <2>2. applied' \in SUBSET spent' /\ moved' \in SUBSET (spent' \X Mentioned)
    BY <1>1, <2>1 DEF PullInv
  <2>3. Pulls!TheRowIsTheNewestVersion'
    BY <1>1, <2>1 DEF PullInv, Pulls!TheRowIsTheNewestVersion
  <2> QED BY <1>1, <1>2, <2>1, <2>2, <2>3 DEF PullInv
<1>4. CASE ~Pulls!Ignored(n)
  <2>1. /\ stored' = n /\ applied' = applied \union {n} /\ linked' = Pulls!Resolved(n)
        /\ announced' = announced \union Pulls!Merged(n)
        /\ category' = [i \in Mentioned |-> IF i \in Pulls!Moving(n) THEN Pulls!Target(history[n]) ELSE category[i]]
        /\ moved' = moved \union ({n} \X Pulls!Moving(n))
        /\ redone' = redone \union (moved \intersect ({n} \X Pulls!Moving(n)))
    BY <1>4 DEF Pulls!Deliver
  <2>2. Pulls!Resolved(n) = history[n].mentions \intersect live /\ Pulls!Resolved(n) \in SUBSET Mentioned
    BY VersionsAreRecords DEF Pulls!Resolved, PullInv
  <2>3. Pulls!Merged(n) \in SUBSET Mentioned /\ Pulls!Moving(n) \in SUBSET Mentioned
    BY <2>2 DEF Pulls!Merged, Pulls!Moving
  <2>4. category' \in [Mentioned -> Pulls!Category]
    <3>1. \A i \in Pulls!Moving(n) : Pulls!Target(history[n]) \in Pulls!Category
      <4> SUFFICES ASSUME NEW i \in Pulls!Moving(n) PROVE Pulls!Target(history[n]) \in Pulls!Category
        OBVIOUS
      <4>1. Pulls!CategoriesBelow(Pulls!Target(history[n])) # {}
        BY DEF Pulls!Moving
      <4>2. PICK j \in 1..4 : Pulls!Ladder[j] = Pulls!Target(history[n])
        BY <4>1 DEF Pulls!CategoriesBelow
      <4>3. j \in {1, 2, 3, 4}
        BY <4>2
      <4> QED BY <4>2, <4>3 DEF Pulls!Ladder, Pulls!Category
    <3> QED BY <2>1, <3>1 DEF PullInv
  <2>5. redone' = {} /\ moved' \in SUBSET (spent' \X Mentioned)
    BY <1>1, <2>1, <2>3 DEF PullInv
  <2>6. \A k \in applied : history[k].instant <= history[n].instant
    <3>1. CASE stored = 0
      BY <3>1 DEF PullInv
    <3>2. CASE stored # 0
      <4>1. history[n].instant >= history[stored].instant
        BY <1>4, <3>2 DEF Pulls!Ignored, Pulls!NotStale
      <4>2. \A k \in applied : history[k].instant <= history[stored].instant /\ k \in Pulls!Versions
        BY <3>2 DEF PullInv, Pulls!TheRowIsTheNewestVersion
      <4>3. stored \in Pulls!Versions
        BY <3>2 DEF PullInv
      <4> QED BY <4>1, <4>2, <4>3, VersionsAreRecords
    <3> QED BY <3>1, <3>2
  <2>7. n \in Nat \ {0} /\ history[n].instant <= history[n].instant
    BY VersionsAreRecords DEF Pulls!Versions, PullInv
  <2>8. Pulls!TheRowIsTheNewestVersion'
    BY <1>1, <2>1, <2>2, <2>6, <2>7 DEF Pulls!TheRowIsTheNewestVersion
  <2>9. announced' \in SUBSET Mentioned /\ linked' \in SUBSET Mentioned /\ applied' \in SUBSET spent'
        /\ stored' \in applied' \union {0} /\ stored' # 0
    BY <1>1, <2>1, <2>2, <2>3, <2>7 DEF PullInv
  <2> QED BY <1>1, <1>2, <2>4, <2>5, <2>8, <2>9 DEF PullInv
<1> QED BY <1>3, <1>4

\* Every step on a pull request keeps the invariant.
LEMMA PullStep == PullInv /\ [Pulls!PullNext]_pullVars => PullInv'
<1> SUFFICES ASSUME PullInv, [Pulls!PullNext]_pullVars PROVE PullInv'
  OBVIOUS
<1>1. CASE Pulls!Emit
  BY <1>1, EmitKeeps
<1>2. ASSUME NEW n \in Pulls!Versions, Pulls!Deliver(n) PROVE PullInv'
  BY <1>2, DeliverKeeps
<1>3. CASE Pulls!Track
  <2>1. tracked' = ~tracked /\ UNCHANGED <<history, spent, stored, linked, category, live, announced, applied, moved, redone, moves>>
    BY <1>3 DEF Pulls!Track
  <2> QED BY <2>1 DEF PullInv, Pulls!TheRowIsTheNewestVersion, Pulls!Versions
<1>4. CASE Pulls!Forget
  <2>1. /\ stored' = 0 /\ linked' = {} /\ applied' = {} /\ tracked' = FALSE
        /\ UNCHANGED <<history, spent, category, live, announced, moved, redone, moves>>
    BY <1>4 DEF Pulls!Forget
  <2> QED BY <2>1 DEF PullInv, Pulls!TheRowIsTheNewestVersion, Pulls!Versions
<1>5. ASSUME NEW i \in Mentioned, NEW c \in Pulls!Category, Pulls!MoveByHand(i, c) PROVE PullInv'
  <2>1. /\ moves < MaxMoves /\ category' = [category EXCEPT ![i] = c] /\ moves' = moves + 1
        /\ UNCHANGED <<history, spent, tracked, stored, linked, live, announced, applied, moved, redone>>
    BY <1>5 DEF Pulls!MoveByHand
  <2>2. moves' \in 0..MaxMoves /\ category' \in [Mentioned -> Pulls!Category]
    BY <2>1, LegalConstants DEF PullInv, Pulls!LegalPullConstants
  <2> QED BY <2>1, <2>2 DEF PullInv, Pulls!TheRowIsTheNewestVersion, Pulls!Versions
<1>6. ASSUME NEW i \in Mentioned, Pulls!ArchiveLinked(i) PROVE PullInv'
  <2>1. /\ live' = live \ {i}
        /\ UNCHANGED <<history, spent, tracked, stored, linked, category, announced, applied, moved, redone, moves>>
    BY <1>6 DEF Pulls!ArchiveLinked
  <2> QED BY <2>1 DEF PullInv, Pulls!TheRowIsTheNewestVersion, Pulls!Versions
<1>7. CASE UNCHANGED pullVars
  <2>1. UNCHANGED <<history, spent, tracked, stored, linked, category, live, announced, applied, moved, redone, moves>>
    BY <1>7 DEF pullVars
  <2> QED BY <2>1 DEF PullInv, Pulls!TheRowIsTheNewestVersion, Pulls!Versions
<1> QED BY <1>1, <1>2, <1>3, <1>4, <1>5, <1>6, <1>7 DEF Pulls!PullNext

-----------------------------------------------------------------------------
(* Accounts and their budgets.                                              *)

\* Of what a bucket has let pass, a attempts belong to the window that began at w: they
\* are within the budget, the others came before it, and all but a budget's worth of
\* those a window earlier.
Windowed(s, budget, attempts, w) == \E a \in 0..Len(s) :
  /\ a <= attempts /\ a <= budget
  /\ \A k \in 1..Len(s) : k <= Len(s) - a => s[k] <= w
  /\ \A k \in 1..Len(s) : k <= Len(s) - a - budget => s[k] + Window <= w
\* A bucket without a counter can begin a window at any time.
Rested(s, budget, t) == \A k \in 1..Len(s) : k <= Len(s) - budget => s[k] + Window <= t
\* Two budgets of admissions span at least a window.
Spread(s, budget) == \A k, m \in 1..Len(s) : m = k + 2 * budget => s[k] + Window <= s[m]

Attempt == [at : {"hashing", "verifying"}, email : Emails, ip : Ips]
\* What a bucket says of the attempts it admitted.
Metered(b) ==
  /\ \A k \in 1..Len(admitted[b]) : admitted[b][k] <= now
  /\ Spread(admitted[b], Entering!Budget[b[1]])
  /\ bucket[b] = None => Rested(admitted[b], Entering!Budget[b[1]], now)
  /\ bucket[b] # None => /\ bucket[b].started <= now
                         /\ Windowed(admitted[b], Entering!Budget[b[1]], bucket[b].attempts, bucket[b].started)

\* The inductive invariant of the accounts.
AccountInv ==
  /\ now \in 0..MaxNow /\ accounts \in SUBSET Emails /\ tries \in 0..MaxTries
  /\ session \in [Tokens -> [email : Emails, expires : Nat] \union {None}]
  /\ bucket \in [Entering!Buckets -> Entering!Counter \union {None}]
  /\ attempt \in [Clients -> Attempt \union {Entering!NoAttempt}]
  /\ admitted \in [Entering!Buckets -> Seq(0..MaxNow)]
  /\ \A b \in Entering!Buckets : Metered(b)

-----------------------------------------------------------------------------
\* What the accounts assume of their constants.
LEMMA AccountConstants ==
  /\ Window \in Nat \ {0} /\ Lifetime \in Nat /\ MaxNow \in Nat /\ MaxTries \in Nat /\ None \notin Entering!Counter
  /\ \A b \in Entering!Buckets : Entering!Budget[b[1]] \in Nat
BY LegalConstants DEF Entering!LegalAccountConstants, Entering!Buckets, Entering!Budget

\* A window that begins once the last one is over.
LEMMA RestedAfterAWindow ==
  ASSUME NEW s \in Seq(Nat), NEW budget \in Nat, NEW attempts \in Nat, NEW w \in Nat, NEW t \in Nat,
         Windowed(s, budget, attempts, w), w + Window <= t
  PROVE  Rested(s, budget, t)
<1>1. PICK a \in 0..Len(s) : a <= budget /\ \A k \in 1..Len(s) : k <= Len(s) - a => s[k] <= w
  BY DEF Windowed
<1>2. Window \in Nat /\ Len(s) \in Nat /\ a \in Nat
  BY <1>1, AccountConstants
<1>3. ASSUME NEW k \in 1..Len(s), k <= Len(s) - budget PROVE s[k] + Window <= t
  <2>1. k <= Len(s) - a
    BY <1>1, <1>2, <1>3
  <2>2. s[k] <= w /\ s[k] \in Nat
    BY <1>1, <2>1
  <2> QED BY <1>2, <2>2
<1> QED BY <1>3 DEF Rested

\* A bucket at rest stays at rest as time goes on.
LEMMA RestedStays ==
  ASSUME NEW s \in Seq(Nat), NEW budget \in Nat, NEW t \in Nat, NEW u \in Nat, t <= u, Rested(s, budget, t)
  PROVE  Rested(s, budget, u)
<1>1. Window \in Nat /\ Len(s) \in Nat /\ \A k \in 1..Len(s) : s[k] \in Nat
  BY AccountConstants
<1> QED BY <1>1 DEF Rested

\* A window begins where a bucket is at rest.
LEMMA WindowBegins ==
  ASSUME NEW s \in Seq(Nat), NEW budget \in Nat, NEW t \in Nat, Rested(s, budget, t), \A k \in 1..Len(s) : s[k] <= t
  PROVE  Windowed(s, budget, 1, t)
<1>1. Len(s) \in Nat /\ 0 \in 0..Len(s)
  OBVIOUS
<1>2. Len(s) - 0 = Len(s) /\ Len(s) - 0 - budget = Len(s) - budget
  BY <1>1
<1> QED BY <1>1, <1>2 DEF Windowed, Rested

\* The attempt that begins a window is within twice the budget of every stretch.
LEMMA WindowBeginsWithAnAttempt ==
  ASSUME NEW s \in Seq(Nat), NEW budget \in Nat, NEW t \in Nat, Rested(s, budget, t), \A k \in 1..Len(s) : s[k] <= t,
         Spread(s, budget), 1 <= budget
  PROVE  Windowed(Append(s, t), budget, 1, t) /\ Spread(Append(s, t), budget)
<1> DEFINE S == Append(s, t)
<1>1. /\ Len(S) = Len(s) + 1 /\ Len(s) \in Nat /\ S[Len(s) + 1] = t /\ Window \in Nat
      /\ \A k \in 1..Len(s) : S[k] = s[k] /\ s[k] \in Nat
  BY AccountConstants
<1> HIDE DEF S
<1>2. Windowed(S, budget, 1, t)
  <2>1. 1 \in 0..Len(S)
    BY <1>1
  <2>2. \A k \in 1..Len(S) : k <= Len(S) - 1 => S[k] <= t
    BY <1>1
  <2>3. ASSUME NEW k \in 1..Len(S), k <= Len(S) - 1 - budget PROVE S[k] + Window <= t
    <3>1. k \in 1..Len(s) /\ k <= Len(s) - budget
      BY <1>1, <2>3
    <3> QED BY <1>1, <3>1 DEF Rested
  <2> QED BY <2>1, <2>2, <2>3 DEF Windowed
<1>3. Spread(S, budget)
  <2> SUFFICES ASSUME NEW k \in 1..Len(S), NEW m \in 1..Len(S), m = k + 2 * budget PROVE S[k] + Window <= S[m]
    BY DEF Spread
  <2>1. k \in 1..Len(s)
    BY <1>1
  <2>2. CASE m \in 1..Len(s)
    BY <1>1, <2>1, <2>2 DEF Spread
  <2>3. CASE m = Len(s) + 1
    <3>1. k <= Len(s) - budget
      BY <1>1, <2>3
    <3> QED BY <1>1, <2>1, <2>3, <3>1 DEF Rested
  <2>4. m \in 1..Len(s) \/ m = Len(s) + 1
    BY <1>1
  <2> QED BY <2>2, <2>3, <2>4
<1> QED BY <1>2, <1>3 DEF S

\* Another attempt of the window, let pass or not.
LEMMA WindowGoesOn ==
  ASSUME NEW s \in Seq(Nat), NEW budget \in Nat, NEW attempts \in Nat, NEW w \in Nat, Windowed(s, budget, attempts, w)
  PROVE  Windowed(s, budget, attempts + 1, w)
<1>1. PICK a \in 0..Len(s) :
        /\ a <= attempts /\ a <= budget
        /\ \A k \in 1..Len(s) : k <= Len(s) - a => s[k] <= w
        /\ \A k \in 1..Len(s) : k <= Len(s) - a - budget => s[k] + Window <= w
  BY DEF Windowed
<1>2. a <= attempts + 1
  BY <1>1
<1> QED BY <1>1, <1>2 DEF Windowed

\* An attempt within the budget is within twice the budget of every stretch.
LEMMA WindowGoesOnWithAnAttempt ==
  ASSUME NEW s \in Seq(Nat), NEW budget \in Nat, NEW attempts \in Nat, NEW w \in Nat, NEW t \in Nat,
         Windowed(s, budget, attempts, w), w <= t, Spread(s, budget), attempts + 1 <= budget
  PROVE  Windowed(Append(s, t), budget, attempts + 1, w) /\ Spread(Append(s, t), budget)
<1> DEFINE S == Append(s, t)
<1>1. /\ Len(S) = Len(s) + 1 /\ Len(s) \in Nat /\ S[Len(s) + 1] = t /\ Window \in Nat
      /\ \A k \in 1..Len(s) : S[k] = s[k] /\ s[k] \in Nat
  BY AccountConstants
<1> HIDE DEF S
<1>2. PICK a \in 0..Len(s) :
        /\ a <= attempts /\ a <= budget
        /\ \A k \in 1..Len(s) : k <= Len(s) - a => s[k] <= w
        /\ \A k \in 1..Len(s) : k <= Len(s) - a - budget => s[k] + Window <= w
  BY DEF Windowed
<1>3. Windowed(S, budget, attempts + 1, w)
  <2>1. a + 1 \in 0..Len(S) /\ a + 1 <= attempts + 1 /\ a + 1 <= budget
    BY <1>1, <1>2
  <2>2. ASSUME NEW k \in 1..Len(S), k <= Len(S) - (a + 1) PROVE S[k] <= w
    <3>1. k \in 1..Len(s) /\ k <= Len(s) - a
      BY <1>1, <2>2
    <3> QED BY <1>1, <1>2, <3>1
  <2>3. ASSUME NEW k \in 1..Len(S), k <= Len(S) - (a + 1) - budget PROVE S[k] + Window <= w
    <3>1. k \in 1..Len(s) /\ k <= Len(s) - a - budget
      BY <1>1, <2>3
    <3> QED BY <1>1, <1>2, <3>1
  <2> QED BY <2>1, <2>2, <2>3 DEF Windowed
<1>4. Spread(S, budget)
  <2> SUFFICES ASSUME NEW k \in 1..Len(S), NEW m \in 1..Len(S), m = k + 2 * budget PROVE S[k] + Window <= S[m]
    BY DEF Spread
  <2>1. k \in 1..Len(s)
    BY <1>1
  <2>2. CASE m \in 1..Len(s)
    BY <1>1, <2>1, <2>2 DEF Spread
  <2>3. CASE m = Len(s) + 1
    <3>1. k <= Len(s) - a - budget
      BY <1>1, <1>2, <2>3
    <3>2. s[k] + Window <= w /\ S[k] = s[k] /\ S[k] \in Nat
      BY <1>1, <1>2, <2>1, <3>1
    <3>3. S[m] = t
      BY <1>1, <2>3
    <3> QED BY <1>1, <3>2, <3>3
  <2>4. m \in 1..Len(s) \/ m = Len(s) + 1
    BY <1>1
  <2> QED BY <2>2, <2>3, <2>4
<1> QED BY <1>3, <1>4 DEF S

-----------------------------------------------------------------------------
\* Nobody has an account at first.
LEMMA AccountStart == Entering!AccountInit => AccountInv
<1> SUFFICES ASSUME Entering!AccountInit PROVE AccountInv
  OBVIOUS
<1>1. /\ now = 0 /\ accounts = {} /\ tries = 0 /\ session = [k \in Tokens |-> None]
      /\ bucket = [b \in Entering!Buckets |-> None] /\ attempt = [c \in Clients |-> Entering!NoAttempt]
      /\ admitted = [b \in Entering!Buckets |-> <<>>]
  BY DEF Entering!AccountInit
<1>2. \A b \in Entering!Buckets : Metered(b)
  <2> SUFFICES ASSUME NEW b \in Entering!Buckets PROVE Metered(b)
    OBVIOUS
  <2>1. bucket[b] = None /\ admitted[b] = <<>> /\ 1..Len(admitted[b]) = {}
    BY <1>1
  <2> QED BY <2>1 DEF Metered, Spread, Rested
<1>3. <<>> \in Seq(0..MaxNow) /\ 0 \in 0..MaxNow /\ 0 \in 0..MaxTries
  BY AccountConstants
<1> QED BY <1>1, <1>2, <1>3 DEF AccountInv

\* The properties follow.
LEMMA AccountProperties == AccountInv => Entering!AccountTypeOK /\ Entering!AttemptsAreBudgeted
<1> SUFFICES ASSUME AccountInv PROVE Entering!AccountTypeOK /\ Entering!AttemptsAreBudgeted
  OBVIOUS
<1>1. ASSUME NEW b \in Entering!Buckets, NEW k \in DOMAIN admitted[b], NEW m \in DOMAIN admitted[b],
             m = k + 2 * Entering!Budget[b[1]]
      PROVE  admitted[b][k] + Window <= admitted[b][m]
  <2>1. admitted[b] \in Seq(0..MaxNow) /\ Spread(admitted[b], Entering!Budget[b[1]])
    BY DEF AccountInv, Metered
  <2>2. k \in 1..Len(admitted[b]) /\ m \in 1..Len(admitted[b])
    BY <2>1
  <2> QED BY <1>1, <2>1, <2>2 DEF Spread
<1> QED BY <1>1 DEF AccountInv, Attempt, Entering!AccountTypeOK, Entering!AttemptsAreBudgeted

\* What a counter and its history carry.
LEMMA AccountTypes ==
  ASSUME AccountInv, NEW b \in Entering!Buckets
  PROVE  /\ now \in Nat /\ admitted[b] \in Seq(0..MaxNow) /\ admitted[b] \in Seq(Nat) /\ Entering!Budget[b[1]] \in Nat
         /\ bucket[b] # None => bucket[b] \in Entering!Counter /\ bucket[b].started \in Nat /\ bucket[b].attempts \in Nat
         /\ Window \in Nat /\ now \in 0..MaxNow
<1>1. now \in 0..MaxNow /\ admitted[b] \in Seq(0..MaxNow) /\ bucket[b] \in Entering!Counter \union {None}
  BY DEF AccountInv
<1>2. admitted[b] \in Seq(Nat)
  BY <1>1, AccountConstants
<1> QED BY <1>1, <1>2, AccountConstants DEF Entering!Counter

\* A charge keeps what is known of the bucket, whether the attempt passes or not.
LEMMA ChargeKeeps ==
  ASSUME AccountInv, NEW b \in Entering!Buckets, NEW charged, charged = Entering!Charge(b)
  PROVE  /\ charged \in Entering!Counter /\ charged # None /\ charged.started <= now
         /\ Windowed(admitted[b], Entering!Budget[b[1]], charged.attempts, charged.started)
         /\ ~Entering!OverBudget(charged, b) =>
              /\ Windowed(Append(admitted[b], now), Entering!Budget[b[1]], charged.attempts, charged.started)
              /\ Spread(Append(admitted[b], now), Entering!Budget[b[1]])
<1> DEFINE s == admitted[b] 
           budget == Entering!Budget[b[1]]
<1>1. Metered(b)
  BY DEF AccountInv
<1>2. s \in Seq(Nat) /\ budget \in Nat /\ now \in Nat /\ Window \in Nat
  BY AccountTypes
<1>3. Spread(s, budget) /\ \A k \in 1..Len(s) : s[k] <= now
  BY <1>1 DEF Metered
<1>4. CASE bucket[b] = None \/ Entering!RolledOver(b)
  <2>1. charged = [started |-> now, attempts |-> 1]
    BY <1>4 DEF Entering!Charge
  <2>2. charged.started = now /\ charged.attempts = 1 /\ charged \in Entering!Counter /\ charged # None /\ now <= now
    BY <2>1, AccountTypes, AccountConstants DEF Entering!Counter
  <2>3. Rested(s, budget, now)
    <3>1. CASE bucket[b] = None
      BY <1>1, <3>1 DEF Metered
    <3>2. CASE bucket[b] # None
      <4>1. bucket[b].started + Window <= now
        BY <1>4, <3>2 DEF Entering!RolledOver
      <4>2. Windowed(s, budget, bucket[b].attempts, bucket[b].started)
        BY <1>1, <3>2 DEF Metered
      <4>3. bucket[b].started \in Nat /\ bucket[b].attempts \in Nat
        BY <3>2, AccountTypes
      <4> QED BY <1>2, <4>1, <4>2, <4>3, RestedAfterAWindow
    <3> QED BY <3>1, <3>2
  <2>4. Windowed(s, budget, 1, now)
    BY <1>2, <1>3, <2>3, WindowBegins
  <2>5. ~Entering!OverBudget(charged, b) => 1 <= budget
    BY <1>2, <2>2 DEF Entering!OverBudget
  <2>6. 1 <= budget => Windowed(Append(s, now), budget, 1, now) /\ Spread(Append(s, now), budget)
    BY <1>2, <1>3, <2>3, WindowBeginsWithAnAttempt
  <2> QED BY <2>2, <2>4, <2>5, <2>6
<1>5. CASE ~(bucket[b] = None \/ Entering!RolledOver(b))
  <2>1. PICK r \in Entering!Counter : r = bucket[b]
    BY <1>5, AccountTypes
  <2>2. charged = [r EXCEPT !.attempts = @ + 1]
    BY <1>5, <2>1 DEF Entering!Charge
  <2>3. /\ r.started \in 0..MaxNow /\ r.started \in Nat /\ r.attempts \in Nat /\ charged.started = r.started
        /\ charged.attempts = r.attempts + 1 /\ charged \in Entering!Counter
    BY <2>2, AccountConstants DEF Entering!Counter
  <2>4. r.started <= now /\ Windowed(s, budget, r.attempts, r.started)
    BY <1>1, <1>5, <2>1 DEF Metered
  <2>5. Windowed(s, budget, r.attempts + 1, r.started)
    BY <1>2, <2>3, <2>4, WindowGoesOn
  <2>6. ~Entering!OverBudget(charged, b) => r.attempts + 1 <= budget
    BY <1>2, <2>3 DEF Entering!OverBudget
  <2>7. r.attempts + 1 <= budget => Windowed(Append(s, now), budget, r.attempts + 1, r.started) /\ Spread(Append(s, now), budget)
    BY <1>2, <1>3, <2>3, <2>4, WindowGoesOnWithAnAttempt
  <2> QED BY <2>3, <2>4, <2>5, <2>6, <2>7, AccountConstants
<1> QED BY <1>4, <1>5

\* An attempt is counted in each of its buckets, or refused.
LEMMA ConsumeKeeps ==
  ASSUME AccountInv, NEW c \in Clients, NEW B, NEW asked \in Attempt, Entering!Consume(c, B, asked)
  PROVE  AccountInv'
<1>1. /\ tries < MaxTries /\ tries' = tries + 1 /\ UNCHANGED <<now, accounts, session>>
      /\ bucket' = [b \in Entering!Buckets |-> IF b \in B THEN Entering!Charge(b) ELSE bucket[b]]
  BY DEF Entering!Consume
<1>2. /\ UNCHANGED <<attempt, admitted>>
      \/ /\ ~ \E b \in B : Entering!OverBudget(bucket'[b], b)
         /\ attempt' = [attempt EXCEPT ![c] = asked]
         /\ admitted' = [b \in Entering!Buckets |-> IF b \in B THEN Append(admitted[b], now) ELSE admitted[b]]
  BY DEF Entering!Consume
<1>3. bucket' \in [Entering!Buckets -> Entering!Counter \union {None}]
  <2>1. \A b \in Entering!Buckets : Entering!Charge(b) \in Entering!Counter
    BY ChargeKeeps
  <2> QED BY <1>1, <2>1 DEF AccountInv
<1>4. attempt' \in [Clients -> Attempt \union {Entering!NoAttempt}]
  BY <1>2 DEF AccountInv
<1>5. admitted' \in [Entering!Buckets -> Seq(0..MaxNow)]
  <2>1. \A b \in Entering!Buckets : Append(admitted[b], now) \in Seq(0..MaxNow)
    BY AccountTypes
  <2> QED BY <1>2, <2>1 DEF AccountInv
<1>6. ASSUME NEW b \in Entering!Buckets PROVE Metered(b)'
  <2>1. Metered(b)
    BY DEF AccountInv
  <2>2. CASE b \notin B
    <3>1. bucket'[b] = bucket[b] /\ admitted'[b] = admitted[b]
      BY <1>1, <1>2, <2>2 DEF AccountInv
    <3> QED BY <1>1, <2>1, <3>1 DEF Metered
  <2>3. CASE b \in B /\ UNCHANGED <<attempt, admitted>>
    <3>1. bucket'[b] = Entering!Charge(b)
      BY <1>1, <2>3
    <3> QED BY <1>1, <2>1, <2>3, <3>1, ChargeKeeps DEF Metered
  <2>4. CASE /\ b \in B /\ ~Entering!OverBudget(bucket'[b], b)
             /\ admitted' = [d \in Entering!Buckets |-> IF d \in B THEN Append(admitted[d], now) ELSE admitted[d]]
    <3>1. bucket'[b] = Entering!Charge(b) /\ admitted'[b] = Append(admitted[b], now)
      BY <1>1, <2>4
    <3>2. \A k \in 1..Len(admitted'[b]) : admitted'[b][k] <= now'
      <4>1. admitted[b] \in Seq(Nat) /\ now \in Nat
        BY AccountTypes
      <4>2. \A k \in 1..Len(admitted[b]) : admitted[b][k] <= now
        BY <2>1 DEF Metered
      <4> QED BY <1>1, <3>1, <4>1, <4>2
    <3> QED BY <1>1, <2>4, <3>1, <3>2, ChargeKeeps DEF Metered
  <2> QED BY <1>2, <2>2, <2>3, <2>4
<1>7. tries' \in 0..MaxTries
  BY <1>1, AccountConstants DEF AccountInv
<1> QED BY <1>1, <1>3, <1>4, <1>5, <1>6, <1>7 DEF AccountInv

\* Steps that leave the counters alone.
LEMMA EntersQuietly ==
  ASSUME AccountInv, UNCHANGED <<now, bucket, admitted, tries>>, accounts' \in SUBSET Emails,
         session' \in [Tokens -> [email : Emails, expires : Nat] \union {None}],
         attempt' \in [Clients -> Attempt \union {Entering!NoAttempt}]
  PROVE  AccountInv'
BY DEF AccountInv, Metered

\* A session is issued for an email.
LEMMA SessionsAreTyped ==
  ASSUME AccountInv, NEW e \in Emails, Entering!IssueSession(e)
  PROVE  session' \in [Tokens -> [email : Emails, expires : Nat] \union {None}]
<1>1. PICK k \in Tokens : session' = [session EXCEPT ![k] = [email |-> e, expires |-> now + Lifetime]]
  BY DEF Entering!IssueSession
<1>2. now + Lifetime \in Nat
  BY AccountConstants DEF AccountInv
<1> QED BY <1>1, <1>2 DEF AccountInv

\* An attempt under way has its email and its address.
LEMMA AttemptsAreTyped ==
  ASSUME AccountInv, NEW c \in Clients, attempt[c].at # "none"
  PROVE  attempt[c].email \in Emails /\ attempt[c].ip \in Ips
BY DEF AccountInv, Attempt, Entering!NoAttempt

\* Who signs in is forgiven the attempts of the window.
LEMMA SucceedKeeps == ASSUME AccountInv, NEW c \in Clients, Entering!Succeed(c) PROVE AccountInv'
<1>1. PICK B \in {Entering!LoginBuckets(attempt[c].email, attempt[c].ip)} : TRUE
  OBVIOUS
<1>2. /\ attempt[c].at = "verifying" /\ Entering!IssueSession(attempt[c].email)
      /\ bucket' = [b \in Entering!Buckets |-> IF b \in B THEN None ELSE bucket[b]]
      /\ admitted' = [b \in Entering!Buckets |-> IF b \in B THEN <<>> ELSE admitted[b]]
      /\ attempt' = [attempt EXCEPT ![c] = Entering!NoAttempt] /\ UNCHANGED <<now, accounts, tries>>
  BY <1>1 DEF Entering!Succeed, Entering!Respond
<1>3. session' \in [Tokens -> [email : Emails, expires : Nat] \union {None}]
  <2>1. attempt[c].email \in Emails
    BY <1>2, AttemptsAreTyped
  <2> QED BY <1>2, <2>1, SessionsAreTyped
<1>4. ASSUME NEW b \in Entering!Buckets PROVE Metered(b)'
  <2>1. Metered(b)
    BY DEF AccountInv
  <2>2. CASE b \notin B
    <3>1. bucket'[b] = bucket[b] /\ admitted'[b] = admitted[b]
      BY <1>2, <2>2
    <3> QED BY <1>2, <2>1, <3>1 DEF Metered
  <2>3. CASE b \in B
    <3>1. bucket'[b] = None /\ admitted'[b] = <<>> /\ 1..Len(<<>>) = {}
      BY <1>2, <2>3
    <3> QED BY <3>1 DEF Metered, Spread, Rested
  <2> QED BY <2>2, <2>3
<1>5. <<>> \in Seq(0..MaxNow)
  OBVIOUS
<1>6. /\ bucket' \in [Entering!Buckets -> Entering!Counter \union {None}]
      /\ admitted' \in [Entering!Buckets -> Seq(0..MaxNow)]
      /\ attempt' \in [Clients -> Attempt \union {Entering!NoAttempt}]
  BY <1>2, <1>5 DEF AccountInv
<1> QED BY <1>2, <1>3, <1>4, <1>6 DEF AccountInv

\* Counters whose window is over are swept.
LEMMA SweepCountersKeeps == AccountInv /\ Entering!SweepCounters => AccountInv'
<1> SUFFICES ASSUME AccountInv, Entering!SweepCounters PROVE AccountInv'
  OBVIOUS
<1>1. UNCHANGED <<now, accounts, session, attempt, admitted, tries>>
  BY DEF Entering!SweepCounters
<1>2. PICK b \in Entering!Buckets : Entering!Stale(b) /\ bucket' = [bucket EXCEPT ![b] = None]
  BY DEF Entering!SweepCounters
<1>3. Rested(admitted[b], Entering!Budget[b[1]], now)
  <2>1. /\ bucket[b].started \in Nat /\ bucket[b].attempts \in Nat /\ bucket[b].started + Window <= now
        /\ Windowed(admitted[b], Entering!Budget[b[1]], bucket[b].attempts, bucket[b].started)
    BY <1>2, AccountTypes DEF Entering!Stale, Entering!RolledOver, AccountInv, Metered
  <2> QED BY <2>1, AccountTypes, RestedAfterAWindow
<1>4. ASSUME NEW d \in Entering!Buckets PROVE Metered(d)'
  <2>1. Metered(d)
    BY DEF AccountInv
  <2>2. CASE d # b
    <3>1. bucket'[d] = bucket[d]
      BY <1>2, <2>2 DEF AccountInv
    <3> QED BY <1>1, <2>1, <3>1 DEF Metered
  <2>3. CASE d = b
    <3>1. bucket'[b] = None
      BY <1>2 DEF AccountInv
    <3> QED BY <1>1, <1>3, <2>1, <2>3, <3>1 DEF Metered
  <2> QED BY <2>2, <2>3
<1>5. bucket' \in [Entering!Buckets -> Entering!Counter \union {None}]
  BY <1>2 DEF AccountInv
<1> QED BY <1>1, <1>4, <1>5 DEF AccountInv

\* Time passes.
LEMMA PassKeeps == AccountInv /\ Entering!Pass => AccountInv'
<1> SUFFICES ASSUME AccountInv, Entering!Pass PROVE AccountInv'
  OBVIOUS
<1>1. now < MaxNow /\ now' = now + 1 /\ UNCHANGED <<accounts, session, bucket, attempt, admitted, tries>>
  BY DEF Entering!Pass
<1>2. now \in Nat /\ now' \in 0..MaxNow /\ now' \in Nat /\ now <= now'
  BY <1>1, AccountConstants DEF AccountInv
<1>3. ASSUME NEW b \in Entering!Buckets PROVE Metered(b)'
  <2>1. /\ Metered(b) /\ admitted[b] \in Seq(Nat) /\ Entering!Budget[b[1]] \in Nat
        /\ bucket[b] # None => bucket[b].started \in Nat
    BY AccountTypes DEF AccountInv
  <2>2. \A k \in 1..Len(admitted[b]) : admitted[b][k] <= now'
    <3>1. \A k \in 1..Len(admitted[b]) : admitted[b][k] <= now /\ admitted[b][k] \in Nat
      BY <2>1 DEF Metered
    <3> QED BY <1>1, <1>2, <3>1
  <2>3. bucket[b] = None => Rested(admitted[b], Entering!Budget[b[1]], now')
    BY <1>2, <2>1, RestedStays DEF Metered
  <2>4. bucket[b] # None => bucket[b].started <= now'
    BY <1>1, <1>2, <2>1 DEF Metered
  <2> QED BY <1>1, <2>1, <2>2, <2>3, <2>4 DEF Metered
<1> QED BY <1>1, <1>2, <1>3 DEF AccountInv

\* Every step on accounts keeps the invariant.
LEMMA AccountStep == AccountInv /\ [Entering!AccountNext]_accountVars => AccountInv'
<1> SUFFICES ASSUME AccountInv, [Entering!AccountNext]_accountVars PROVE AccountInv'
  OBVIOUS
<1>1. ASSUME NEW c \in Clients, NEW e \in Emails, NEW ip \in Ips, Entering!AskRegister(c, e, ip) \/ Entering!AskLogIn(c, e, ip)
      PROVE  AccountInv'
  <2>1. [at |-> "hashing", email |-> e, ip |-> ip] \in Attempt /\ [at |-> "verifying", email |-> e, ip |-> ip] \in Attempt
    BY DEF Attempt
  <2>2. CASE Entering!AskRegister(c, e, ip)
    BY <2>1, <2>2, ConsumeKeeps DEF Entering!AskRegister
  <2>3. CASE Entering!AskLogIn(c, e, ip)
    BY <2>1, <2>3, ConsumeKeeps DEF Entering!AskLogIn
  <2> QED BY <1>1, <2>2, <2>3
<1>2. ASSUME NEW c \in Clients, Entering!Register(c) PROVE AccountInv'
  <2>1. /\ attempt[c].at = "hashing" /\ UNCHANGED <<now, bucket, admitted, tries>>
        /\ attempt' = [attempt EXCEPT ![c] = Entering!NoAttempt]
    BY <1>2 DEF Entering!Register, Entering!Respond
  <2>2. attempt[c].email \in Emails /\ attempt' \in [Clients -> Attempt \union {Entering!NoAttempt}]
    BY <2>1, AttemptsAreTyped DEF AccountInv
  <2>3. CASE UNCHANGED <<accounts, session>>
    BY <2>1, <2>2, <2>3, EntersQuietly DEF AccountInv
  <2>4. CASE accounts' = accounts \union {attempt[c].email} /\ Entering!IssueSession(attempt[c].email)
    <3>1. accounts' \in SUBSET Emails
      BY <2>2, <2>4 DEF AccountInv
    <3>2. session' \in [Tokens -> [email : Emails, expires : Nat] \union {None}]
      BY <2>2, <2>4, SessionsAreTyped
    <3> QED BY <2>1, <2>2, <3>1, <3>2, EntersQuietly
  <2> QED BY <1>2, <2>3, <2>4 DEF Entering!Register
<1>3. ASSUME NEW c \in Clients, Entering!Succeed(c) PROVE AccountInv'
  BY <1>3, SucceedKeeps
<1>4. ASSUME NEW c \in Clients, Entering!Refuse(c) PROVE AccountInv'
  <2>1. UNCHANGED <<now, accounts, session, bucket, admitted, tries>> /\ attempt' = [attempt EXCEPT ![c] = Entering!NoAttempt]
    BY <1>4 DEF Entering!Refuse, Entering!Respond
  <2> QED BY <2>1, EntersQuietly DEF AccountInv
<1>5. ASSUME NEW k \in Tokens, Entering!LogOut(k) PROVE AccountInv'
  <2>1. UNCHANGED <<now, accounts, bucket, attempt, admitted, tries>> /\ session' = [session EXCEPT ![k] = None]
    BY <1>5 DEF Entering!LogOut
  <2> QED BY <2>1, EntersQuietly DEF AccountInv
<1>6. CASE Entering!SweepSessions
  <2>1. UNCHANGED <<now, accounts, bucket, attempt, admitted, tries>> /\ \E k \in Tokens : session' = [session EXCEPT ![k] = None]
    BY <1>6 DEF Entering!SweepSessions
  <2> QED BY <2>1, EntersQuietly DEF AccountInv
<1>7. CASE Entering!SweepCounters
  BY <1>7, SweepCountersKeeps
<1>8. CASE Entering!Pass
  BY <1>8, PassKeeps
<1>9. CASE UNCHANGED accountVars
  <2>1. UNCHANGED <<now, accounts, session, bucket, attempt, admitted, tries>>
    BY <1>9 DEF accountVars
  <2> QED BY <2>1, EntersQuietly DEF AccountInv
<1> QED BY <1>1, <1>2, <1>3, <1>4, <1>5, <1>6, <1>7, <1>8, <1>9 DEF Entering!AccountNext

-----------------------------------------------------------------------------
(* The nine of them, one to a behaviour.                                    *)

\* The invariant of whatever part moves.
ConnectionsInv ==
  /\ part = "inbox" => InboxInv
  /\ part = "views" => ViewInv
  /\ part = "holdings" => HoldingInv
  /\ part = "channels" => ChannelInv
  /\ part = "tracking" => TrackingInv
  /\ part = "installations" => InstallationInv
  /\ part = "handshakes" => HandshakeInv
  /\ part = "pulls" => PullInv
  /\ part = "accounts" => AccountInv

\* Every part begins in its invariant, and moves within it.
THEOREM ConnectionsInvHolds == Spec => []ConnectionsInv
<1>1. Init => ConnectionsInv
  BY InboxStart, ViewStart, HoldingStart, ChannelStart, TrackingStart, InstallationStart, HandshakeStart, PullStart, AccountStart DEF Init, ConnectionsInv
<1>2. ConnectionsInv /\ [Next]_vars => ConnectionsInv'
  <2> SUFFICES ASSUME ConnectionsInv, [Next]_vars PROVE ConnectionsInv'
    OBVIOUS
  <2>1. part' = part
    BY DEF Next, vars
  <2>2. ASSUME part = "inbox" PROVE InboxInv'
    <3>1. [Hearing!InboxNext]_inboxVars
      BY <2>2 DEF Next, vars, inboxVars
    <3> QED BY <2>2, <3>1, InboxStep DEF ConnectionsInv
  <2>3. ASSUME part = "views" PROVE ViewInv'
    <3>1. [Viewing!ViewNext]_viewVars
      BY <2>3 DEF Next, vars, viewVars
    <3> QED BY <2>3, <3>1, ViewStep DEF ConnectionsInv
  <2>4. ASSUME part = "holdings" PROVE HoldingInv'
    <3>1. [Holding!HoldingNext]_holdingVars
      BY <2>4 DEF Next, vars, holdingVars
    <3> QED BY <2>4, <3>1, HoldingStep DEF ConnectionsInv
  <2>5. ASSUME part = "channels" PROVE ChannelInv'
    <3>1. [Refreshing!ChannelNext]_channelVars
      BY <2>5 DEF Next, vars, channelVars
    <3> QED BY <2>5, <3>1, ChannelStep DEF ConnectionsInv
  <2>6. ASSUME part = "tracking" PROVE TrackingInv'
    <3>1. [Selecting!TrackingNext]_trackingVars
      BY <2>6 DEF Next, vars, trackingVars
    <3> QED BY <2>6, <3>1, TrackingStep DEF ConnectionsInv
  <2>7. ASSUME part = "installations" PROVE InstallationInv'
    <3>1. [Installing!InstallationNext]_installationVars
      BY <2>7 DEF Next, vars, installationVars
    <3> QED BY <2>7, <3>1, InstallationStep DEF ConnectionsInv
  <2>8. ASSUME part = "handshakes" PROVE HandshakeInv'
    <3>1. [Connecting!HandshakeNext]_handshakeVars
      BY <2>8 DEF Next, vars, handshakeVars
    <3> QED BY <2>8, <3>1, HandshakeStep DEF ConnectionsInv
  <2>9. ASSUME part = "pulls" PROVE PullInv'
    <3>1. [Pulls!PullNext]_pullVars
      BY <2>9 DEF Next, vars, pullVars
    <3> QED BY <2>9, <3>1, PullStep DEF ConnectionsInv
  <2>10. ASSUME part = "accounts" PROVE AccountInv'
    <3>1. [Entering!AccountNext]_accountVars
      BY <2>10 DEF Next, vars, accountVars
    <3> QED BY <2>10, <3>1, AccountStep DEF ConnectionsInv
  <2> QED BY <2>1, <2>2, <2>3, <2>4, <2>5, <2>6, <2>7, <2>8, <2>9, <2>10 DEF ConnectionsInv
<1> QED BY <1>1, <1>2, PTL DEF Spec

\* Who left keeps nothing but what was written while they went: no news, no subscription,
\* no view, no favourite, no project and no connection.
THEOREM LeaversTheorem == Spec => []LeaversKeepNothing
<1>1. ConnectionsInv => LeaversKeepNothing
  BY InboxProperties, ViewProperties DEF ConnectionsInv, LeaversKeepNothing, HoldingInv, Holding!LeaversHoldNothing
<1> QED BY <1>1, ConnectionsInvHolds, PTL

\* What a workspace lists was confirmed for it, by a handshake its own people began, or is what a
\* delivery lists that had found it before it let go of an installation, at whatever statement the
\* request met it; the default channel is there; and what a release named stays tracked.
THEOREM ListingsTheorem == Spec => []ListingsWereConfirmed
<1>1. ConnectionsInv => ListingsWereConfirmed
  BY InstallationProperties DEF ConnectionsInv, ListingsWereConfirmed, ChannelInv, TrackingInv, HandshakeInv, Refreshing!ShownChannelsWereListed, Refreshing!DefaultIsKept, Refreshing!ChannelTypeOK
<1> QED BY <1>1, ConnectionsInvHolds, PTL

\* Whatever order deliveries come in, a pull request is at the newest version applied, and a
\* repeated delivery moves nothing.
THEOREM PullRequestsTheorem == Spec => []PullRequestsAreFollowed
<1>1. ConnectionsInv => PullRequestsAreFollowed
  BY PullProperties DEF ConnectionsInv, PullRequestsAreFollowed
<1> QED BY <1>1, ConnectionsInvHolds, PTL

\* No stretch of a window lets a bucket pass more than twice its budget, unless one was right.
THEOREM BudgetTheorem == Spec => []AttemptsAreBudgeted
<1>1. ConnectionsInv => AttemptsAreBudgeted
  BY AccountProperties DEF ConnectionsInv, AttemptsAreBudgeted
<1> QED BY <1>1, ConnectionsInvHolds, PTL
=============================================================================
