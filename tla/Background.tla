----------------------------- MODULE Background -----------------------------
(***************************************************************************)
(* What each process does on its own: the migrations it applies when it     *)
(* boots, the worker of the semantic index, and the schedule's loop, which  *)
(* files recurring issues and warns of due ones.  They share no table, so   *)
(* they are put side by side, one to a behaviour: "part" names the one that *)
(* moves.  (The delivery to Slack is large enough for a run of its own.)    *)
(***************************************************************************)
EXTENDS EmbeddingQueue, Integers

CONSTANTS
  Sweepers, Clock,
  Templates, Rules, RecurrenceBatch, MaxSaves,
  Work, LeadDays, ReminderBatch, MaxLosses, DueClock, Dates,
  Runners, Checkouts, Aspects,
  Backlog, Wording, Loner   \* a second instance of the queue: issues, texts, worker

VARIABLES
  part,
  today, schedule, saves, pass, filed, again,
  day, due, open, ledger, sweep, notified, losses,
  versions, table, ran, runner, lock, booted,
  words, shelved, index, jobs, phase, hand, seen

Recurrences == INSTANCE Recurring
Reminding   == INSTANCE Reminders WITH Clock <- DueClock, today <- day
Sweeping    == INSTANCE EmbeddingQueue WITH
                 Issues <- Backlog, Texts <- Wording, Workers <- Loner, Clients <- {},
                 text <- words, archived <- shelved, vector <- index, job <- jobs,
                 stage <- phase, work <- hand, read <- seen
Migrating   == INSTANCE Migrations WITH ledger <- versions

queueVars == vars
recurringVars == <<today, schedule, saves, pass, filed, again>>
reminderVars == <<day, due, open, ledger, sweep, notified, losses>>
migrationVars == <<versions, table, ran, runner, lock, booted>>
backlogVars == <<words, shelved, index, jobs, phase, hand, seen>>
backgroundVars == <<part, queueVars, backlogVars, recurringVars, reminderVars, migrationVars>>

BackgroundInit ==
  /\ part \in {"queue", "backlog", "recurring", "reminders", "migrations"}
  /\ Init /\ Sweeping!Init /\ Recurrences!RecurringInit /\ Reminding!ReminderInit
  /\ Migrating!MigrationInit /\ (part # "migrations" => table = None)

\* A loop takes a step of its own; the others rest, and so do those of the
\* schedule when the days of the instance run out.
BackgroundNext ==
  /\ UNCHANGED part
  /\ \/ part = "queue" /\ Next
     \/ part # "queue" /\ UNCHANGED queueVars
  /\ \/ part = "backlog" /\ Sweeping!Next
     \/ part # "backlog" /\ UNCHANGED backlogVars
  /\ \/ part = "recurring" /\ Recurrences!RecurringNext
     \/ UNCHANGED recurringVars
  /\ \/ part = "reminders" /\ Reminding!ReminderNext
     \/ UNCHANGED reminderVars
  /\ \/ part = "migrations" /\ Migrating!MigrationNext
     \/ part # "migrations" /\ UNCHANGED migrationVars

\* Each loop runs for ever and survives its exceptions; and time passes.
Fairness ==
  /\ \A w \in Workers : WF_queueVars(part = "queue" /\ Pass(w))
  /\ \A i \in Issues : WF_queueVars(part = "queue" /\ ComeDue(i))
  /\ \A w \in Loner : WF_backlogVars(part = "backlog" /\ Sweeping!Pass(w))
  /\ \A i \in Backlog : WF_backlogVars(part = "backlog" /\ Sweeping!ComeDue(i))
  /\ \A w \in Sweepers :
       WF_reminderVars(part = "reminders" /\ (Reminding!Select(w) \/ Reminding!Insert(w) \/ Reminding!Notify(w)))

BackgroundSpec == BackgroundInit /\ [][BackgroundNext]_backgroundVars /\ Fairness

-----------------------------------------------------------------------------
(* What the components assume of their constants.                           *)
ASSUME LegalConstants ==
  /\ Recurrences!LegalRecurringConstants
  /\ Reminding!LegalReminderConstants
  /\ Migrating!LegalMigrationConstants

(* Every table of the part that moves is well typed, and what a sweep holds  *)
(* locked is there.                                                         *)
BackgroundTypeOK ==
  /\ part = "queue" => TypeOK
  /\ part = "recurring" => Recurrences!RecurringTypeOK
  /\ part = "reminders" => Reminding!ReminderTypeOK
  /\ part = "migrations" => Migrating!MigrationTypeOK

(* The next date of a schedule is the first its rule names after the day it *)
(* was computed from; one occurrence is filed once, and one due date        *)
(* announced once, and then for good, whatever the replicas do.             *)
SchedulesAreKept ==
  /\ [](part = "recurring" => Recurrences!NextIsTheFirst)
  /\ Recurrences!FilingIsOnceOnly /\ Reminding!RemindersAreOnceOnly

(* Where a sweep's batch is smaller than what is stale, the queue settles    *)
(* every issue nevertheless.                                                *)
BacklogSettles == Sweeping!EveryIssueSettles

(* An issue that comes due is announced in the end.                         *)
DueIssuesAreReminded == Reminding!DueIssuesAreReminded

(* The migrations' ledger tells the schema, and who booted has its own.     *)
SchemaIsWhatTheLedgerSays ==
  part = "migrations" => Migrating!LedgerTellsTheSchema /\ Migrating!BootMeansApplied
=============================================================================
