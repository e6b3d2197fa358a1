----------------------------- MODULE Handshakes -----------------------------
(***************************************************************************)
(* Connecting a workspace to GitHub or to Slack from one browser: "begin"   *)
(* leaves a cookie and sends the browser to the provider, whose redirect    *)
(* comes back with the state and a code, late, twice or never.  Each        *)
(* provider has one cookie, so a second tab's handshake overwrites the      *)
(* first's, and an answer clears whatever is in the jar by then.  Meanwhile *)
(* people sign in and out and administrators come and go.                   *)
(***************************************************************************)
EXTENDS Naturals

CONSTANTS
  Providers, \* {"github", "slack"}, one to a behaviour
  Sessions,  \* session tokens, each with whose it is
  Owner,
  Tenants,   \* the workspaces
  Accounts,  \* GitHub's installations, Slack's teams
  Answers,   \* what a provider answers: the accounts of the grant, and the one named
  Callbacks, \* redirects served at once
  MaxBegun,  \* bound: handshakes
  None

VARIABLES
  provider,
  signed,    \* the session cookie
  ended,     \* sessions that were revoked
  jar,       \* the state cookie
  begun,     \* history: what each state was made for
  answer,    \* the provider's answer to each handshake
  spent,     \* the codes that were exchanged
  callback,  \* the redirects being served
  linked,    \* github_installations, slack_installations
  undone     \* history: codes whose claim was taken away

handshakeVars == <<provider, signed, ended, jar, begun, answer, spent, callback, linked, undone>>

Claimants == {Owner[s] : s \in Sessions}
States == 1..MaxBegun
Idle == [at |-> "idle"]
Cookies == [state : States, session : Sessions, tenant : Tenants]
Links == [account : Accounts, by : Claimants, code : States, confirmed : States \union {None}]

LegalHandshakeConstants ==
  /\ Providers \subseteq {"github", "slack"} /\ Owner \in [Sessions -> Claimants]
  /\ \A a \in Answers : a.grant \subseteq Accounts /\ a.named \in Accounts \union {None}
  /\ None \notin Accounts \union Tenants \union Sessions
  /\ None \notin Links \union Cookies \union [session : Sessions, tenant : Tenants]

HandshakeTypeOK ==
  /\ provider \in Providers /\ signed \in Sessions \union {None} /\ ended \subseteq Sessions
  /\ jar = None \/ jar \in Cookies
  /\ \A n \in States : begun[n] = None \/ begun[n] \in [session : Sessions, tenant : Tenants]
  /\ \A n \in States : answer[n] # None => begun[n] # None /\ answer[n] \in Answers
  /\ spent \subseteq States /\ undone \subseteq States
  /\ \A c \in Callbacks : callback[c].at # "idle" => callback[c].session \in Sessions
  /\ \A w \in Tenants : linked[w] = None \/ linked[w] \in Links

HandshakeInit ==
  /\ provider \in Providers
  /\ signed = None /\ ended = {} /\ jar = None
  /\ begun = [n \in States |-> None] /\ answer = begun
  /\ spent = {} /\ callback = [c \in Callbacks |-> Idle]
  /\ linked = [w \in Tenants |-> None] /\ undone = {}

-----------------------------------------------------------------------------
(* The browser, the people and the provider.                                *)
SignIn(s) ==
  /\ signed = None /\ s \notin ended /\ signed' = s
  /\ UNCHANGED <<provider, ended, jar, begun, answer, spent, callback, linked, undone>>

SignOut ==
  /\ signed # None /\ signed' = None /\ ended' = ended \union {signed}
  /\ UNCHANGED <<provider, jar, begun, answer, spent, callback, linked, undone>>

\* It expires; or the answer to a callback is late, or refuses it, and clears the
\* cookie of the next handshake.
Expire ==
  /\ jar # None /\ jar' = None
  /\ UNCHANGED <<provider, signed, ended, begun, answer, spent, callback, linked, undone>>

\* The person consents; the browser has a redirect that it may follow again.
Consent(n, a) ==
  /\ begun[n] # None /\ answer[n] = None
  /\ provider = "slack" => a.named = None
  /\ answer' = [answer EXCEPT ![n] = a]
  /\ UNCHANGED <<provider, signed, ended, jar, begun, spent, callback, linked, undone>>

\* An administrator disconnects the workspace.
Disconnect(w) ==
  /\ linked[w] # None /\ linked' = [linked EXCEPT ![w] = None]
  /\ undone' = undone \union {linked[w].code}
  /\ UNCHANGED <<provider, signed, ended, jar, begun, answer, spent, callback>>

-----------------------------------------------------------------------------
\* install, slack_oauth_start: a new state, over the cookie of another tab.
Begin(n, w) ==
  /\ begun[n] = None /\ \A m \in States : m < n => begun[m] # None
  /\ signed # None
  /\ begun' = [begun EXCEPT ![n] = [session |-> signed, tenant |-> w]]
  /\ jar' = [state |-> n, session |-> signed, tenant |-> w]
  /\ UNCHANGED <<provider, signed, ended, answer, spent, callback, linked, undone>>

\* _state_matches: the state in the redirect, and the session that began it.
StateMatches(cookie, n) == cookie # None /\ cookie.state = n /\ signed = cookie.session

\* The callback is over; its answer clears the cookie, if it reaches the browser.
Answered(c) == callback' = [callback EXCEPT ![c] = Idle] /\ jar' \in {jar, None}

\* The installation the redirect named, or the grant's only one.
Chosen(named, grant) ==
  IF named # None THEN {named} ELSE IF \E i \in grant : grant = {i} THEN grant ELSE {}

\* A code is good for one exchange, and the provider may fail to answer.
Grants(n) == {{}} \union (IF n \in spent THEN {} ELSE {answer[n].grant})

\* GitHub's callback exchanges the code before it asks who may, Slack's after.
Arrive(c, n) ==
  /\ callback[c] = Idle /\ answer[n] # None /\ StateMatches(jar, n)
  /\ \E grant \in IF provider = "github" THEN Grants(n) ELSE {{}} :
       callback' = [callback EXCEPT ![c] =
         [at |-> "serving", code |-> n, session |-> signed, tenant |-> jar.tenant,
          grant |-> grant, account |-> None]]
  /\ spent' = IF provider = "github" THEN spent \union {n} ELSE spent
  /\ UNCHANGED <<provider, signed, ended, jar, begun, answer, linked, undone>>

\* connect: the workspace's own row is replaced, and an account is connected once.
\* What Slack's grant shows of a team, a claim of an installation has yet to show.
Link(c) ==
  LET k == callback[c] IN
  /\ k.at = "serving" /\ k.session \notin ended
  /\ \E grant \in IF provider = "github" THEN {k.grant} ELSE Grants(k.code) :
     \E i \in Chosen(answer[k.code].named, grant) :
       /\ \A w \in Tenants \ {k.tenant} : linked[w] # None => linked[w].account # i
       /\ linked' = [linked EXCEPT ![k.tenant] =
            [account |-> i, by |-> Owner[k.session], code |-> k.code,
             confirmed |-> IF provider = "slack" THEN k.code ELSE None]]
       /\ undone' = undone \union {linked[w].code : w \in {k.tenant} \ {v \in Tenants : linked[v] = None}}
       /\ IF provider = "github" /\ i \in grant
          THEN callback' = [callback EXCEPT ![c] = [k EXCEPT !.at = "linked", !.account = i]] /\ UNCHANGED jar
          ELSE Answered(c)
  /\ spent' = spent \union {k.code}
  /\ UNCHANGED <<provider, signed, ended, begun, answer>>

\* confirm_claim names the installation, not the workspace: whoever claims it by then.
Confirm(c) ==
  LET k == callback[c] IN
  /\ k.at = "linked"
  /\ linked' = [w \in Tenants |->
       IF linked[w] # None /\ linked[w].account = k.account /\ linked[w].confirmed = None
       THEN [linked[w] EXCEPT !.confirmed = k.code] ELSE linked[w]]
  /\ Answered(c)
  /\ UNCHANGED <<provider, signed, ended, begun, answer, spent, undone>>

\* The person may not any more, nothing is granted, the account is another
\* workspace's, or the process dies.
Fail(c) ==
  /\ callback[c] # Idle /\ Answered(c)
  /\ spent' \in {spent, spent \union {callback[c].code}}
  /\ UNCHANGED <<provider, signed, ended, begun, answer, linked, undone>>

HandshakeNext ==
  \/ \E s \in Sessions : SignIn(s)
  \/ SignOut \/ Expire
  \/ \E n \in States, a \in Answers : Consent(n, a)
  \/ \E w \in Tenants : Disconnect(w)
  \/ \E n \in States, w \in Tenants : Begin(n, w)
  \/ \E c \in Callbacks, n \in States : Arrive(c, n)
  \/ \E c \in Callbacks : Link(c) \/ Confirm(c) \/ Fail(c)

HandshakeSpec == HandshakeInit /\ [][HandshakeNext]_handshakeVars

-----------------------------------------------------------------------------
(* A workspace is connected by the person who began the handshake, to the   *)
(* account of that handshake, and it is the workspace it was begun for,     *)
(* whatever other tabs and other people did in that browser.                *)
ConnectedAsBegun == \A w \in Tenants : linked[w] # None =>
  LET b == begun[linked[w].code]
  IN b.tenant = w /\ Owner[b.session] = linked[w].by

(* What is confirmed is in the grant of the code that confirmed it: the     *)
(* code that claimed it, or one whose own claim had been taken away.        *)
ConfirmedByAGrant == \A w \in Tenants :
  LET n == IF linked[w] = None THEN None ELSE linked[w].confirmed
  IN n # None => /\ linked[w].account \in answer[n].grant
                 /\ n = linked[w].code \/ n \in undone
=============================================================================
