---------------------------- MODULE SlackOutbox ----------------------------
(***************************************************************************)
(* The outbox of domain events and the processes that drain it to Slack.   *)
(*                                                                         *)
(* A row of domain_events is written by the transaction that caused it and *)
(* is delivered by whichever replica's run_delivery_loop claims it.  One   *)
(* delivery is three short transactions with nothing held in between:      *)
(* claim, post over the network, record.  The claim spends an attempt and  *)
(* moves the next one out by a backoff, which is the row's only lease: a   *)
(* process that stalls for longer finds another one at the same row.       *)
(* Time is counted in units of RETRY_DELAY.                                *)
(***************************************************************************)
EXTENDS Naturals, FiniteSets

CONSTANTS
    Events,         \* rows of domain_events, by their primary key
    Workers,        \* processes running run_delivery_loop
    MaxAttempts,    \* MAX_ATTEMPTS
    BackoffSteps,   \* BACKOFF_STEPS
    Losses,         \* bound: how many deliveries of one event are abandoned
    None            \* "no event"

ASSUME MaxAttemptsAssumption == MaxAttempts \in Nat \ {0}
ASSUME BackoffAssumption == BackoffSteps \in Nat \ {0}
ASSUME LossesAssumption == Losses \in Nat
ASSUME NoneAssumption == None \notin Events
ASSUME WorkersAssumption == IsFiniteSet(Workers)

VARIABLES
    state,      \* slack_state, "absent" before the row exists
    attempts,   \* slack_attempts
    wait,       \* delays left until slack_next_attempt_at, 0 when due
    step,       \* where each worker is in _deliver
    event,      \* the event it has claimed
    number,     \* the attempt counter its claim returned
    verdict,    \* the state it is about to record
    age,        \* how many delays ago it claimed, up to BackoffSteps
    acked,      \* history: events Slack answered ok for
    lost        \* history: deliveries abandoned, per event

rows == <<state, attempts, wait>>
workerVars == <<step, event, number, verdict, age>>
history == <<acked, lost>>
vars == <<state, attempts, wait, step, event, number, verdict, age, acked, lost>>

-----------------------------------------------------------------------------
Closed == {"delivered", "failed", "skipped"}
States == {"absent", "pending"} \cup Closed
Steps == {"idle", "routing", "posting", "acknowledged", "closing"}

TypeOK ==
    /\ state \in [Events -> States]
    /\ attempts \in [Events -> Nat]
    /\ wait \in [Events -> 0..BackoffSteps]
    /\ step \in [Workers -> Steps]
    /\ event \in [Workers -> Events \cup {None}]
    /\ number \in [Workers -> Nat]
    /\ verdict \in [Workers -> {"none", "failed", "skipped"}]
    /\ age \in [Workers -> 0..BackoffSteps]
    /\ acked \in SUBSET Events
    /\ lost \in [Events -> 0..Losses]

Init ==
    /\ state = [e \in Events |-> "absent"]
    /\ attempts = [e \in Events |-> 0]
    /\ wait = [e \in Events |-> 0]
    /\ step = [w \in Workers |-> "idle"]
    /\ event = [w \in Workers |-> None]
    /\ number = [w \in Workers |-> 0]
    /\ verdict = [w \in Workers |-> "none"]
    /\ age = [w \in Workers |-> 0]
    /\ acked = {}
    /\ lost = [e \in Events |-> 0]

AtMost(a, b) == IF a <= b THEN a ELSE b

\* Mutant: the LEAST of claim_next forgotten.
BackoffWithoutLeast(n) == n

\* The backoff the n-th claim of a row buys.
Backoff(n) == AtMost(n, BackoffSteps)

-----------------------------------------------------------------------------
\* Mutant: ON CONFLICT DO UPDATE instead of DO NOTHING.
RecordByUpsert(e) ==
    /\ state' = [state EXCEPT ![e] = "pending"]
    /\ UNCHANGED <<attempts, wait, workerVars, history>>

\* record_about_issue and its siblings, at the commit of the transaction that
\* writes them.  A second write of the same key conflicts and changes nothing.
Record(e) ==
    /\ state' = [state EXCEPT ![e] = IF @ = "absent" THEN "pending" ELSE @]
    /\ UNCHANGED <<attempts, wait, workerVars, history>>

\* A delay passes for every row and for every delivery under way.
Tick ==
    /\ wait' = [e \in Events |-> IF wait[e] = 0 THEN 0 ELSE wait[e] - 1]
    /\ age' = [w \in Workers |->
                IF event[w] = None THEN 0 ELSE AtMost(age[w] + 1, BackoffSteps)]
    /\ UNCHANGED <<state, attempts, step, event, number, verdict, history>>

\* Mutant: the attempt is counted and the next one is not moved out.
ClaimWithoutBackoff(w, e) ==
    /\ step[w] = "idle" /\ state[e] = "pending" /\ wait[e] = 0
    /\ attempts' = [attempts EXCEPT ![e] = @ + 1]
    /\ step' = [step EXCEPT ![w] = "routing"]
    /\ event' = [event EXCEPT ![w] = e]
    /\ number' = [number EXCEPT ![w] = attempts[e] + 1]
    /\ UNCHANGED <<state, wait, verdict, age, history>>

\* Mutant: a row out of attempts is never claimed again.
ClaimWithAttemptsLeft(w, e) ==
    /\ step[w] = "idle" /\ state[e] = "pending" /\ wait[e] = 0
    /\ attempts[e] < MaxAttempts
    /\ attempts' = [attempts EXCEPT ![e] = @ + 1]
    /\ wait' = [wait EXCEPT ![e] = Backoff(attempts[e] + 1)]
    /\ step' = [step EXCEPT ![w] = "routing"]
    /\ event' = [event EXCEPT ![w] = e]
    /\ number' = [number EXCEPT ![w] = attempts[e] + 1]
    /\ UNCHANGED <<state, verdict, age, history>>

\* claim_next, in a transaction of its own.  SKIP LOCKED makes two claims take
\* different rows or one after the other; any due row may come first.
Claim(w, e) ==
    /\ step[w] = "idle"
    /\ state[e] = "pending"
    /\ wait[e] = 0
    /\ attempts' = [attempts EXCEPT ![e] = @ + 1]
    /\ wait' = [wait EXCEPT ![e] = Backoff(attempts[e] + 1)]
    /\ step' = [step EXCEPT ![w] = "routing"]
    /\ event' = [event EXCEPT ![w] = e]
    /\ number' = [number EXCEPT ![w] = attempts[e] + 1]
    /\ UNCHANGED <<state, verdict, age, history>>

\* _route found an installation, an enabled preference, the scope, a channel
\* and a token.
FindRoute(w) ==
    /\ step[w] = "routing"
    /\ step' = [step EXCEPT ![w] = "posting"]
    /\ UNCHANGED <<rows, event, number, verdict, age, history>>

\* _route refuses: not connected, disabled or without a channel is "skipped",
\* a missing scope is "failed".
Refuse(w, v) ==
    /\ step[w] = "routing"
    /\ v \in {"failed", "skipped"}
    /\ step' = [step EXCEPT ![w] = "closing"]
    /\ verdict' = [verdict EXCEPT ![w] = v]
    /\ UNCHANGED <<rows, event, number, age, history>>

\* The worker is done with its event, or has died holding it.
LetGo(w) ==
    /\ step' = [step EXCEPT ![w] = "idle"]
    /\ event' = [event EXCEPT ![w] = None]
    /\ number' = [number EXCEPT ![w] = 0]
    /\ verdict' = [verdict EXCEPT ![w] = "none"]
    /\ age' = [age EXCEPT ![w] = 0]

\* post_message returns: Slack said ok.
Acknowledge(w) ==
    /\ step[w] = "posting"
    /\ acked' = acked \cup {event[w]}
    /\ step' = [step EXCEPT ![w] = "acknowledged"]
    /\ UNCHANGED <<rows, event, number, verdict, age, lost>>

\* post_message raises with a code: Slack refused the message.
Reject(w) ==
    /\ step[w] = "posting"
    /\ step' = [step EXCEPT ![w] = "closing"]
    /\ verdict' = [verdict EXCEPT ![w] = "failed"]
    /\ UNCHANGED <<rows, event, number, age, history>>

\* Mutant: every unreachable Slack is worth another attempt.
RetryForever(w) ==
    /\ step[w] = "posting"
    /\ LetGo(w)
    /\ UNCHANGED <<rows, acked, lost>>

\* Mutant: the exception is caught and the delivery recorded all the same.
DeliverRegardless(w) ==
    /\ step[w] = "posting"
    /\ step' = [step EXCEPT ![w] = "acknowledged"]
    /\ UNCHANGED <<rows, event, number, verdict, age, history>>

\* post_message raises slack_unreachable; the message may be in the channel all
\* the same.  Below MAX_ATTEMPTS _record_failure writes nothing and the row is
\* due again after its backoff.
Unreachable(w) ==
    /\ step[w] = "posting"
    /\ \/ number[w] < MaxAttempts /\ LetGo(w)
       \/ /\ number[w] >= MaxAttempts
          /\ step' = [step EXCEPT ![w] = "closing"]
          /\ verdict' = [verdict EXCEPT ![w] = "failed"]
          /\ UNCHANGED <<event, number, age>>
    /\ UNCHANGED <<rows, acked, lost>>

\* mark_delivered: by primary key, whatever state the row is in by now.
MarkDelivered(w) ==
    /\ step[w] = "acknowledged"
    /\ state' = [state EXCEPT ![event[w]] = "delivered"]
    /\ LetGo(w)
    /\ UNCHANGED <<attempts, wait, history>>

\* mark_not_delivered: by primary key, whatever state the row is in by now.
MarkNotDelivered(w) ==
    /\ step[w] = "closing"
    /\ state' = [state EXCEPT ![event[w]] = verdict[w]]
    /\ LetGo(w)
    /\ UNCHANGED <<attempts, wait, history>>

\* The process dies, is cancelled, or a step raises what run_delivery_loop only
\* logs (an unreadable token, a database error): the row is left as claimed.
Lose(w) ==
    /\ step[w] # "idle"
    /\ lost[event[w]] < Losses
    /\ lost' = [lost EXCEPT ![event[w]] = @ + 1]
    /\ LetGo(w)
    /\ UNCHANGED <<rows, acked>>

-----------------------------------------------------------------------------
\* What a worker does by itself once it holds an event.
Proceed(w) ==
    \/ FindRoute(w) \/ \E v \in {"failed", "skipped"} : Refuse(w, v)
    \/ Acknowledge(w) \/ Reject(w) \/ Unreachable(w)
    \/ MarkDelivered(w) \/ MarkNotDelivered(w)

Next ==
    \/ \E e \in Events : Record(e)
    \/ Tick
    \/ \E w \in Workers : (\E e \in Events : Claim(w, e)) \/ Proceed(w) \/ Lose(w)

Spec == Init /\ [][Next]_vars

\* Time passes; every loop polls, and every call it makes returns or raises.
Fairness ==
    /\ WF_vars(Tick)
    /\ \A w \in Workers :
        WF_vars(\E e \in Events : Claim(w, e)) /\ WF_vars(Proceed(w))

FairSpec == Spec /\ Fairness

-----------------------------------------------------------------------------
(***************************************************************************)
(* Properties                                                              *)
(***************************************************************************)
LastAttempts(e) == {w \in Workers : event[w] = e /\ number[w] >= MaxAttempts}

\* Two workers are at one event only after the earlier one has outstayed the
\* backoff its own claim bought: the claim is a lease on the row.
OverlapOnlyAfterBackoff ==
    \A v, w \in Workers :
        v # w /\ event[v] # None /\ event[v] = event[w] /\ number[v] <= number[w]
        => number[v] < number[w] /\ age[v] >= Backoff(number[v])

\* An event still pending has been claimed less than MAX_ATTEMPTS times, but for
\* the claims abandoned half-way and the last attempts still under way.
AttemptsAreAccountedFor ==
    \A e \in Events : state[e] = "pending" =>
        attempts[e] <= MaxAttempts - 1 + lost[e]
                       + Cardinality(LastAttempts(e))

\* A row says "delivered" only of an event Slack acknowledged, and a row that is
\* closed otherwise although Slack acknowledged it was tried more than once.
RecordsAreHonest ==
    \A e \in Events :
        /\ state[e] = "delivered" => e \in acked
        /\ e \in acked /\ state[e] \in {"failed", "skipped"} => attempts[e] > 1

\* Nothing reopens a closed event, neither a late worker nor a repeated write.
ClosedStaysClosed ==
    [][\A e \in Events : state[e] \in Closed => state'[e] \in Closed]_vars

\* Every event is closed in the end, whatever Slack answers, if only finitely
\* many deliveries are abandoned.
EveryEventIsClosed ==
    \A e \in Events : state[e] = "pending" ~> state[e] \in Closed

\* "a row can never carry a delivery instant it did not earn. Today nothing
\* could have set one": mark_not_delivered never meets a delivered row.
DeliveredStaysDelivered ==
    [][\A e \in Events : state[e] = "delivered" => state'[e] = "delivered"]_vars

\* "How many attempts a transient failure gets before it is recorded as one.
\* Counted at CLAIM time, so a process that dies between posting and recording
\* has spent an attempt", the comment on MAX_ATTEMPTS.
AttemptsAreBounded == \A e \in Events : attempts[e] <= MaxAttempts
=============================================================================
