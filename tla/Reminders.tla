----------------------------- MODULE Reminders -----------------------------
(***************************************************************************)
(* Warnings about issues coming due.  A sweep claims issues by inserting    *)
(* into the ledger of reminders and notifies in the same transaction, batch *)
(* after batch; issues are dated, closed and archived meanwhile.            *)
(***************************************************************************)
EXTENDS Naturals, FiniteSets

CONSTANTS
  Work,           \* issues, numbered in the order of their ids
  Clock, Sweepers,
  Dates,          \* bound: the due dates given
  LeadDays,       \* REMINDER_LEAD_DAYS
  ReminderBatch,
  MaxLosses,      \* bound: transactions that die
  None

VARIABLES
  today,
  due,       \* issues.due_date
  open,      \* neither archived nor in a terminal state
  ledger,    \* issue_due_reminders: <<issue, due date>>
  sweep,     \* the transaction of each sweep
  notified,  \* history: how often the people of an issue were told of a date
  losses

reminderVars == <<today, due, open, ledger, sweep, notified, losses>>

LegalReminderConstants ==
  /\ Work \subseteq Nat /\ IsFiniteSet(Work)
  /\ Clock # {} /\ Clock \subseteq Nat /\ Dates \subseteq Nat /\ None \notin Dates
  /\ LeadDays \in Nat /\ ReminderBatch \in Nat \ {0} /\ MaxLosses \in Nat

Idle == [at |-> "idle"]
Key(i) == <<i, due[i]>>
Keys == Work \X Dates

ReminderTypeOK ==
  /\ today \in Clock
  /\ due \in [Work -> Dates \union {None}] /\ open \in [Work -> BOOLEAN]
  /\ ledger \subseteq Keys
  /\ \A w \in Sweepers : sweep[w] = Idle \/ sweep[w] \in [at : {"selected", "holding"}, keys : SUBSET Keys]
  /\ notified \in [Keys -> Nat] /\ losses \in 0..MaxLosses

ReminderInit ==
  /\ today = CHOOSE d \in Clock : \A e \in Clock : d <= e
  /\ due = [i \in Work |-> None] /\ open = [i \in Work |-> TRUE]
  /\ ledger = {} /\ notified = [k \in Keys |-> 0]
  /\ sweep = [w \in Sweepers |-> Idle] /\ losses = 0

NextDay ==
  /\ \E d \in Clock : d > today /\ today' = d
  /\ UNCHANGED <<due, open, ledger, sweep, notified, losses>>

\* An edit of the due date, to any day or none.
SetDue(i, d) ==
  /\ due[i] # d /\ due' = [due EXCEPT ![i] = d]
  /\ UNCHANGED <<today, open, ledger, sweep, notified, losses>>

\* Completed, canceled, archived; or open again.
SetOpen(i) ==
  /\ open' = [open EXCEPT ![i] = ~@]
  /\ UNCHANGED <<today, due, ledger, sweep, notified, losses>>

\* Mutant: the anti-join with the ledger is left to ON CONFLICT DO NOTHING.
ComingDueOrTold(i) == open[i] /\ due[i] # None /\ due[i] >= today /\ due[i] <= today + LeadDays
\* What the SELECT of claim_due finds.
ComingDue(i) ==
  /\ open[i] /\ due[i] # None
  /\ due[i] >= today /\ due[i] <= today + LeadDays
  /\ Key(i) \notin ledger

Before(i, j) == due[i] < due[j] \/ (due[i] = due[j] /\ i < j)

\* ORDER BY due_date, id LIMIT.
Select(w) ==
  /\ sweep[w] = Idle
  /\ LET found == {i \in Work : ComingDue(i)}
         batch == {i \in found : Cardinality({j \in found : Before(j, i)}) < ReminderBatch}
     IN /\ batch # {}
        /\ sweep' = [sweep EXCEPT ![w] = [at |-> "selected", keys |-> {Key(i) : i \in batch}]]
  /\ UNCHANGED <<today, due, open, ledger, notified, losses>>

Inserted(w) == IF sweep[w].at = "holding" THEN sweep[w].keys ELSE {}

\* A key somebody else has inserted and not committed is waited for.
Waited(w) == \A v \in Sweepers \ {w} : sweep[w].keys \intersect Inserted(v) = {}

\* Mutant: what was selected is what is notified.
ConflictingIgnored(w) == {}
\* ON CONFLICT DO NOTHING RETURNING: the rows that were really inserted.
Conflicting(w) == sweep[w].keys \intersect ledger

Insert(w) ==
  /\ sweep[w].at = "selected" /\ Waited(w)
  /\ sweep' = [sweep EXCEPT ![w] = [at |-> "holding", keys |-> @.keys \ Conflicting(w)]]
  /\ UNCHANGED <<today, due, open, ledger, notified, losses>>

\* notify_about_issue for each, and the commit of the ledger with the notifications.
Notify(w) ==
  /\ sweep[w].at = "holding"
  /\ ledger' = ledger \union sweep[w].keys
  /\ notified' = [k \in Keys |-> IF k \in sweep[w].keys THEN notified[k] + 1 ELSE notified[k]]
  /\ sweep' = [sweep EXCEPT ![w] = Idle]
  /\ UNCHANGED <<today, due, open, losses>>

\* A notification fails, or the process dies: the batch rolls back.
LoseBatch(w) ==
  /\ sweep[w] # Idle /\ losses < MaxLosses
  /\ losses' = losses + 1 /\ sweep' = [sweep EXCEPT ![w] = Idle]
  /\ UNCHANGED <<today, due, open, ledger, notified>>

ReminderNext ==
  \/ NextDay
  \/ \E i \in Work, d \in Dates \union {None} : SetDue(i, d)
  \/ \E i \in Work : SetOpen(i)
  \/ \E w \in Sweepers : Select(w) \/ Insert(w) \/ Notify(w) \/ LoseBatch(w)

\* run_forever: every pass is followed by another, and survives any exception.
ReminderFairness == \A w \in Sweepers : WF_reminderVars(Select(w) \/ Insert(w) \/ Notify(w))

ReminderSpec == ReminderInit /\ [][ReminderNext]_reminderVars /\ ReminderFairness

-----------------------------------------------------------------------------
(* The people of an issue are told of a due date once, and for good when    *)
(* the ledger says so, although sweeps of several replicas overlap and roll *)
(* back and dates move away and back.                                       *)
Announcing == INSTANCE OnceOnly WITH Errands <- Keys, done <- ledger, runs <- notified
RemindersAreOnceOnly == Announcing!OnceSpec

(* An issue that is coming due is reminded of, whatever else is waiting in  *)
(* the order of the claim, unless it is changed or its day passes while the *)
(* sweeps are still behind.                                                 *)
DueIssuesAreReminded ==
  \A i \in Work, d \in Dates :
    (due[i] = d /\ ComingDue(i)) ~> (<<i, d>> \in ledger \/ due[i] # d \/ ~open[i] \/ today > d)
=============================================================================
