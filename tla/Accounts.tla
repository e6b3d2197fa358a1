------------------------------ MODULE Accounts ------------------------------
(***************************************************************************)
(* Registering, logging in and out, and the fixed-window counters that are  *)
(* charged before a password is hashed and forgiven after it was right.     *)
(* now() is the start of a transaction; a statement on a counter is atomic. *)
(***************************************************************************)
EXTENDS Naturals, Sequences

CONSTANTS
  Emails, Ips, Tokens,
  Clients,
  Window,        \* RATE_LIMIT_WINDOW
  Lifetime,      \* SESSION_LIFETIME
  EmailBudget, IpBudget, RegisterBudget,
  MaxNow,        \* bound: instants
  MaxTries,      \* bound: attempts of any kind
  None

VARIABLES
  now,
  accounts,    \* users.email
  session,     \* sessions, by token: None, or [email, expires]
  bucket,      \* auth_rate_limits: None, or [started, attempts]
  attempt,     \* the request of each client
  admitted,    \* history: when a bucket let each attempt pass since it was forgiven
  tries

accountVars == <<now, accounts, session, bucket, attempt, admitted, tries>>

Budget == [scope \in {"login:email", "login:ip", "register:ip"} |->
             CASE scope = "login:email" -> EmailBudget [] scope = "login:ip" -> IpBudget [] OTHER -> RegisterBudget]
Buckets == ({"login:email"} \X Emails) \union ({"login:ip", "register:ip"} \X Ips)
LoginBuckets(e, ip) == {<<"login:email", e>>, <<"login:ip", ip>>}
RegisterBuckets(ip) == {<<"register:ip", ip>>}

NoAttempt == [at |-> "none"]
Counter == [started : 0..MaxNow, attempts : Nat]

LegalAccountConstants ==
  /\ Window \in Nat \ {0} /\ Lifetime \in Nat /\ MaxNow \in Nat /\ MaxTries \in Nat
  /\ EmailBudget \in Nat /\ IpBudget \in Nat /\ RegisterBudget \in Nat
  /\ None \notin Counter

AccountTypeOK ==
  /\ now \in 0..MaxNow /\ accounts \subseteq Emails
  /\ session \in [Tokens -> [email : Emails, expires : Nat] \union {None}]
  /\ bucket \in [Buckets -> Counter \union {None}]
  /\ attempt \in [Clients -> [at : {"hashing", "verifying"}, email : Emails, ip : Ips] \union {NoAttempt}]
  /\ admitted \in [Buckets -> Seq(0..MaxNow)]
  /\ tries \in 0..MaxTries

AccountInit ==
  /\ now = 0 /\ accounts = {} /\ tries = 0
  /\ session = [k \in Tokens |-> None]
  /\ bucket = [b \in Buckets |-> None]
  /\ attempt = [c \in Clients |-> NoAttempt]
  /\ admitted = [b \in Buckets |-> <<>>]

\* window_started_at <= now() - window.
RolledOver(b) == bucket[b].started + Window <= now
\* Mutant: every attempt begins a window.
ChargeRenewed(b) == [started |-> now, attempts |-> 1]
Charge(b) ==
  IF bucket[b] = None \/ RolledOver(b) THEN [started |-> now, attempts |-> 1]
  ELSE [bucket[b] EXCEPT !.attempts = @ + 1]

OverBudget(charged, b) == charged.attempts > Budget[b[1]]

\* consume, one upsert over all buckets of a request; then the attempt, or a refusal.
Consume(c, B, request) ==
  /\ attempt[c] = NoAttempt /\ tries < MaxTries
  /\ tries' = tries + 1
  /\ bucket' = [b \in Buckets |-> IF b \in B THEN Charge(b) ELSE bucket[b]]
  /\ IF \E b \in B : OverBudget(bucket'[b], b)
     THEN UNCHANGED <<attempt, admitted>>
     ELSE /\ attempt' = [attempt EXCEPT ![c] = request]
          /\ admitted' = [b \in Buckets |-> IF b \in B THEN Append(admitted[b], now) ELSE admitted[b]]
  /\ UNCHANGED <<now, accounts, session>>

AskRegister(c, e, ip) == Consume(c, RegisterBuckets(ip), [at |-> "hashing", email |-> e, ip |-> ip])
AskLogIn(c, e, ip) == Consume(c, LoginBuckets(e, ip), [at |-> "verifying", email |-> e, ip |-> ip])

IssueSession(e) ==
  \E k \in Tokens : session[k] = None
                    /\ session' = [session EXCEPT ![k] = [email |-> e, expires |-> now + Lifetime]]

Respond(c) == attempt' = [attempt EXCEPT ![c] = NoAttempt]

\* register: the unique index decides between two of one address.
Register(c) ==
  /\ attempt[c].at = "hashing"
  /\ IF attempt[c].email \in accounts THEN UNCHANGED <<accounts, session>>
     ELSE accounts' = accounts \union {attempt[c].email} /\ IssueSession(attempt[c].email)
  /\ Respond(c)
  /\ UNCHANGED <<now, bucket, admitted, tries>>

\* log_in with the right password: the session and the forgiveness in one transaction.
Succeed(c) ==
  /\ attempt[c].at = "verifying" /\ attempt[c].email \in accounts
  /\ IssueSession(attempt[c].email)
  /\ LET B == LoginBuckets(attempt[c].email, attempt[c].ip)
     IN /\ bucket' = [b \in Buckets |-> IF b \in B THEN None ELSE bucket[b]]
        /\ admitted' = [b \in Buckets |-> IF b \in B THEN <<>> ELSE admitted[b]]
  /\ Respond(c)
  /\ UNCHANGED <<now, accounts, tries>>

\* The password is wrong, or there is no such account and a decoy was verified.
Refuse(c) ==
  /\ attempt[c].at = "verifying"
  /\ Respond(c)
  /\ UNCHANGED <<now, accounts, session, bucket, admitted, tries>>

LogOut(k) ==
  /\ session[k] # None
  /\ session' = [session EXCEPT ![k] = None]
  /\ UNCHANGED <<now, accounts, bucket, attempt, admitted, tries>>

\* sweep_once, one statement at a time.
SweepSessions ==
  /\ \E k \in Tokens : session[k] # None /\ session[k].expires <= now
                       /\ session' = [session EXCEPT ![k] = None]
  /\ UNCHANGED <<now, accounts, bucket, attempt, admitted, tries>>

\* Mutant: every counter is stale.
StaleAtOnce(b) == bucket[b] # None
Stale(b) == bucket[b] # None /\ RolledOver(b)

SweepCounters ==
  /\ \E b \in Buckets : Stale(b) /\ bucket' = [bucket EXCEPT ![b] = None]
  /\ UNCHANGED <<now, accounts, session, attempt, admitted, tries>>

Pass ==
  /\ now < MaxNow /\ now' = now + 1
  /\ UNCHANGED <<accounts, session, bucket, attempt, admitted, tries>>

AccountNext ==
  \/ \E c \in Clients, e \in Emails, ip \in Ips : AskRegister(c, e, ip) \/ AskLogIn(c, e, ip)
  \/ \E c \in Clients : Register(c) \/ Succeed(c) \/ Refuse(c)
  \/ \E k \in Tokens : LogOut(k)
  \/ SweepSessions
  \/ SweepCounters
  \/ Pass

AccountSpec == AccountInit /\ [][AccountNext]_accountVars

-----------------------------------------------------------------------------
(* In any stretch of time as long as the window, a bucket lets no more than *)
(* twice its budget of attempts reach the password check unless one of them *)
(* was right: of any more of them, the first and the last are a window      *)
(* apart.  Two windows at most meet in a stretch, and neither the sweep nor *)
(* another address's success opens a third.                                 *)
AttemptsAreBudgeted ==
  \A b \in Buckets : \A k, m \in DOMAIN admitted[b] :
    m = k + 2 * Budget[b[1]] => admitted[b][k] + Window <= admitted[b][m]
=============================================================================
