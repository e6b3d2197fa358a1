# A TLA+ model of Vector

Vector is an issue tracker: a Python service (`app/`, FastAPI and GraphQL over
asyncpg) on PostgreSQL 18, with a React client. `k8s/30-api.yaml` runs two API
replicas, and each of them runs four background tasks beside its requests
(`app/main.py`, `lifespan`). The replicas share nothing but the database, every
transaction runs under READ COMMITTED, and no request is retried by the server.
So what is hard to get right, and hard to test, is nearly always of one kind: a
statement reads, something else commits, a later statement writes. This
directory models the parts where that happens and where no constraint of the
schema would notice.

Paths are relative to the repository; `services/`, `repositories/`, `domain/`,
`graphql/` and `rest/` are directories of `app/`.

## Inventory

| Component | State | Operations | Where it is hard | Module |
|---|---|---|---|---|
| Membership and invitations (`services/memberships.py`, `repositories/invitations.py`) | `workspace_members` (role, `removed_at`), `workspace_invitations`; what a member leads, owns or connected | found, authorize, change role, remove, invite, revoke, accept | authority is read in one statement and used in another; the last-owner rule counts rows it has locked; holdings are probed before the row is written | `Membership`, `Holdings` |
| Domain events and Slack delivery (`repositories/events.py`, `services/notifications.py`) | `domain_events`: state, attempts, next attempt | record, claim, route, post, mark delivered or not | the network call happens with nothing held; a replica may stall or die between any two steps | `SlackOutbox` |
| Hierarchies (`services/relations.py`, `services/initiatives.py`, `services/projects.py`) | `issues.parent_id`, `initiatives.parent_initiative_id`, `project_dependencies` | set and clear a parent, add and remove a dependency, create, delete | no constraint refuses a loop; the walk and the write are two statements; removals take no lock | `Hierarchies`, `AcyclicGraph` |
| Semantic index (`services/embedding_jobs.py`, `repositories/embeddings.py`, `services/search.py`) | issue texts, `issue_embeddings`, `embedding_jobs` | sweep, claim, embed, store, fail, refresh; file, edit, archive | the text changes while a model runs; leases run out; sweeps race | `EmbeddingQueue` |
| Schedule (`services/schedule.py`, `domain/recurrence.py`, `repositories/reminders.py`) | recurrences with `next_run_on`, a ledger of reminders | claim due, advance, file; remind | advance and file are separate transactions; short months; a schedule saved again | `Recurring`, `Reminders`, `OnceOnly` |
| Migration runner (`scripts/apply_migration.py`) | `schema_migrations` with checksums | `--all`, one file, adoption | two containers boot at once from different checkouts and may die | `Migrations` |
| Issues, activity, bulk, numbering, triage (`services/issues.py`, `services/bulk.py`, `services/triage.py`) | issues, activity log, `issue_counter` | file, patch, place, archive, bulk edit, triage, change team | logs are differences against a snapshot; number allocation; lock order | `IssueTracking` |
| Relations, duplicates (`services/relations.py`, `services/triage.py`) | `issue_relations` | relate, unrelate, mark duplicate | a symmetric pair is stored once, named from either end | `Relations` |
| Teams, boards, scales, cycles (`services/teams.py`, `services/cycles.py`) | teams, workflow states, scales, cycles, estimates | found, choose a scale, plan and move a cycle, size an issue | the scale is read in one statement, the estimate written in another | `TeamBoards` |
| Projects, milestones, health (`services/projects.py`, `services/initiatives.py`) | projects, milestones, placements, updates | create, append, place, report, delete | `MAX + 1` under READ COMMITTED; overlapping reports; deletion statement by statement | `Planning`, `HealthReports`, `Deletions` |
| Accounts, sessions, rate limits (`services/auth.py`, `repositories/rate_limits.py`) | users, sessions, buckets | register, log in, log out, sweep, consume, clear | attempts are counted before the slow hash, forgiven after it | `Accounts` |
| Slack connection and channels (`services/slack.py`, `rest/slack.py`) | installation, channels | connect, list, choose, disconnect | the network between two statements; a list refreshed twice at once | `SlackChannels`, `Handshakes` |
| GitHub (`services/github.py`, `rest/github.py`) | installations, repositories, pull requests, links, deliveries, automations | claim, confirm, webhooks, tracking, automation | redelivery, reordering, a workspace resolved before it changes | `GithubInstallations`, `GithubPulls`, `Tracking`, `Handshakes` |
| Documents (`services/documents.py`) | documents, revisions, comments | edit, restore, comment, delete | whether an edit starts a revision | `Documents` |
| Labels and groups (`services/labels.py`) | labels, groups, copies of a rule on each attachment | attach, detach, regroup, flip | a denormalised key is copied while its source moves | `Labels` |
| Comments, subscribers, inbox (`services/comments.py`, `services/activity.py`) | subscriptions, notifications | comment, assign, subscribe, read | recipients are chosen while people leave | `Inbox` |
| Saved views, favourites (`services/saved_views.py`) | views, favourites | create, patch, share, star, discard | visibility is read, the favourite written later | `SavedViews` |
| Templates (`services/templates.py`) | templates, labels, a schedule | create, edit, schedule, apply, discard | one draft is written by several statements and applied by several transactions | `Templates` |
| Releases (`services/releases.py`) | releases, frozen commits, deployments | cut, deploy, fail, delete | commits arrive late, deployments out of order | `Releases` |
| Lists and analytics (`domain/pagination.py`, `services/analytics.py`) | none of their own | pages, the analytics page | every page and panel is a snapshot of its own | `KeysetPages`, `Lists`, `Analytics` |
| GraphQL layer (`graphql/context.py`, `graphql/loaders/`, `graphql/limits.py`) | per document: viewer, scopes, loaders, measurements | resolve, batch, measure | fields run side by side; one statement answers many keys | `GraphqlRequests`, `OperationLimits` |
| Search; workspaces; frontend; deployment | – | – | – | see "Not modelled" |

Interactions. Services own the transactions and call repositories with an open
connection. Issue, project and GitHub services write domain events in the
transaction of the change (the outbox `SlackOutbox` starts from), activity
entries and notifications likewise (`IssueTracking`, `Inbox`). The index only
reads issues: an edit changes the digest and nothing else, and the next sweep
finds it. A recurring template files through the template service
(`Recurring`, `Templates`). A departure touches nearly every table: it probes
what is shared (`Holdings`), deletes what is personal (`SavedViews`, `Inbox`),
unassigns issues (`Inbox`), and ends the membership (`Membership`), in one
transaction; these modules keep their own copy of it, each with the statements
of its own tables in the code's order. A deletion is modelled the same way
(`Deletions` for what refers to a row, `Planning` for placements, `Hierarchies`
for children). Webhooks meet requests in `GithubInstallations`, `Tracking`
and `GithubPulls`.

What makes each component correct is what its properties say, below.

## How the code is read

*Statements under READ COMMITTED.* A statement sees what had committed when it
started. An `UPDATE` by key therefore is one step that reads the newest row. A
`SELECT ... FOR UPDATE` over several rows is several steps: its snapshot fixes
which rows it visits (`Begin` in `Membership`), then each row is waited for and
its predicate is evaluated again on the newest version (`LockOwner`). So is an
`UPDATE` over a set where that matters (`Update`, `Visit` and `Commit` in
`Tracking`; `Refresh` and its hiding statement in `SlackChannels`). An
`INSERT ... SELECT ... ON CONFLICT DO UPDATE` whose conflicting row may be
written in between is two steps (`Sweep` and `Enqueue`, `Read` and `Store` in
`EmbeddingQueue`). `FOR UPDATE SKIP LOCKED ... LIMIT` hands different rows to
different callers, so a claim is one step. An insertion that finds the same
unique key uncommitted waits for it (`Relations`, `Templates`).

*Foreign keys* are guards where they decide something: an insertion that refers
to a row takes a key lock on it, and a deletion of a row something refers to
fails (every key of the schema that is modelled is RESTRICT, or the module
says otherwise).

*Commit.* Effects that only become visible at the commit are applied in the last
step of the transaction. `Rollback`, `Lose` and `Abandon` stand for whatever
ends a transaction or a pass early: a refusal, a timeout, a lost connection, a
deadlock victim, a killed process.

*History variables.* A module that says "but for what was under way" has a
variable, commented "history", that no guard reads: it records who had read
what when something changed. They make the exact strength of a promise a
checkable statement, where the plain promise does not hold.

*Mutants.* Definitions commented "Mutant:" are variants of the definition below
them with a plausible bug, unused by the specification. Each property is known
to fail when one of them replaces its original, so that no property holds by the
shape of its model.

*Several components in one run.* `Tracker` puts nineteen components that
requests and deliveries drive side by side, `Background` what every process does
on its own, and `Reads` what is read. Each part is complete for the tables it is
about, and what two of them touch (a departure, a deletion) is in each with the
statements that bear on its own tables, in the code's order. No guard of one part
reads a variable of another, so an interleaving of two of them is a product that
tells nothing new: a behaviour of the union moves one part, chosen by `part` in
the initial state. Each union names its parts and conjoins, per property, the
properties of the components it speaks of. Components that do read what another
writes are one module, not two.

## Modules

### Membership

One workspace; every statement of the two repositories names one workspace id.
`role` and `current` are the columns of `workspace_members`, `lock` and `claim`
the row locks. A request goes `idle`, `scoped` (`authorized_scope_for_slug` and
`require_workspace_admin`), `locking` (`lock_owner_ids`), then `UpdateRole`, or
`FindUnheld` and `RemoveMember`; an acceptance goes `claimed` then `Grant`. `scope` is the
role the request was authorized with, which may be stale.

* `CountedOwnersStayOwners`: whoever a request counted as owner stays one, and
  stays locked, until the request ends.
* `LastOwnerLostOnlyUnseen`: the exact strength of the last-owner rule. The last
  owner can go only by a request whose locking statement did not visit that owner.
* `OwnershipComesFromAnOwner`, `InvitationBuysOneMembership`,
  `JoiningNeverChangesARole`: action properties over roles and invitations.
* `AlwaysAnOwner`, `OnlyOwnersActOnOwners`: what the message and the docstring
  promise. Both fail, see the findings.

`Holdings` is the other half of a departure: `shared_holdings` asks in one
statement whether the member leads, owns or connected anything, and the row is
ended later. `LeaversHoldNothing`: what is left with them was given after they
were asked. The foreign keys of `projects`, `initiatives` and the rest refer to
the membership's row, which a departure keeps, so they refuse nobody who was
ever a member.

### SlackOutbox

One row per event, any number of replicas. Time is counted in `RETRY_DELAY`s:
`wait` is how many are left until `slack_next_attempt_at`, `age` how many a
worker has held its event for, up to the longest backoff. `Claim` is
`claim_next`; `FindRoute` and `Refuse` are `_route`; `Acknowledge`, `Reject`,
`Unreachable` the three ways `post_message` ends; the marks are updates by
primary key. `acked` and `lost` are history: what Slack acknowledged, and how
many deliveries of an event were abandoned half-way.

* `OverlapOnlyAfterBackoff`: the claim is a lease for exactly its backoff.
* `AttemptsAreAccountedFor`: a pending row's attempts exceed `MAX_ATTEMPTS - 1`
  only by abandoned deliveries and last attempts under way.
* `RecordsAreHonest`, `ClosedStaysClosed`; and `EveryEventIsClosed` (liveness).
* `DeliveredStaysDelivered`, `AttemptsAreBounded`: documented, and violated.

### Hierarchies and AcyclicGraph

`AcyclicGraph` is the promise: an atomic graph that gains an arrow only if the
arrow closes no loop, and may lose arrows at any time. `Hierarchies` is the
code, for the three tables at once (`kind`): `Ask`, `Lock` (the advisory lock of
the table and workspace), one of the three walks (`AllowSubIssue`,
`AllowInitiative`, `AllowDependency`), and the write. Removal and deletion take
no lock. The initiatives' walks are cut off at `MAX_INITIATIVE_DEPTH` as in
`inspect_parenting`, so the depths they give may be short of the truth.

* `AllowedStaysAllowed`: an answer a walk gave is still true when it is used.
* `InitiativesStayShallow`: the depth bound holds in every reachable forest.
* `LoopsAreRefusedAtomically`: `Hierarchies` implements `AcyclicGraph`, arrows
  for arrows (`INSTANCE AcyclicGraph` with the variable `edges` in common).
* `NoLoop`.

A write to a deleted row is refused by its key. For an initiative the children's
clearing and the row's deletion are one step: a child nested in between makes
the code's `DELETE` fail on its foreign key, which leaves everything as it was.

### Background: EmbeddingQueue, Recurring, Reminders, Migrations

*EmbeddingQueue.* Issues carry a text; a digest is a function of the text, so
the text stands for both. `vector[i].digest` is what is stored, `vector[i].of`
what was really embedded. `job[i].when` is `next_attempt_at`: due, later (leased
or backing off) or never. A worker's pass is `Sweep`, `Enqueue`, `Claim`, then
one of `Fail`, `Decline`, or `Read` and `Store`, per issue claimed. A client's
`Refresh` writes vectors beside the queue. `File`, `Edit` and `Archive` are the
issue statements the index reads.

* `VectorsAreHonest`: what search takes for current was made from the present text.
* `AttemptsStaySmall`: late workers charge a job at most once each past the bound.
* `AttemptsAreNotDiscarded`: for one text, attempts never decrease and
  retirement is final, though sweeps race.
* `EveryIssueSettles`, `BacklogSettles` (liveness): once issues are left alone
  and processes stop being interrupted, each live issue is indexed or retired,
  and no job is left over for an archived one; also where a sweep's budget is
  smaller than the backlog.
* `ErrorsDescribeTheText`: documented, and violated.

*Recurring* begins with `domain/recurrence.py`, as operators on day numbers since
Monday 1 January 2024: the scan for the next day, with its clamp and its cut-off,
and beside it the same schedule in closed form (`Occurrences`). The rest is the
loop around it: schedules saved, claimed and advanced in one transaction, filed
in others, by replicas that may die. *Reminders* is the ledger of due-date
warnings: `Select`, `Insert ... ON CONFLICT DO NOTHING`, `Notify`, with issues
dated, closed and reopened in between. *OnceOnly* is what both loops promise:
an errand is run at most once, and what is done is done.

* `BackgroundTypeOK`: the tables of all the parts, the queue's among them.
* `SchedulesAreKept`: `next_run_on` is the first day the closed form names
  (`NextIsTheFirst`); both loops implement `OnceOnly` by the refinement mappings
  in the modules (`FilingIsOnceOnly`, `RemindersAreOnceOnly`).
* `DueIssuesAreReminded` (liveness): an issue that comes due is told of,
  whatever else stands before it in the claim's order, unless it is changed or its
  day passes while the sweeps are still behind.

A claimed occurrence whose filing dies is lost, which the code accepts
(`services/schedule.py:43`): OnceOnly is at most once.

*Migrations*: containers that boot with `--all` and operators who apply one
file, each with a checkout of their own, meet at the advisory lock and the
ledger; a database older than the ledger is adopted; a run may end anywhere.
`SchemaIsWhatTheLedgerSays`: what the ledger names was executed, once and nothing
else, and a container that got through has the migrations of its checkout.

### Tracker

| Part | Module | What moves | Property (in the union's) |
|---|---|---|---|
| issues | `IssueTracking` | filing with the team's counter, patches under the row lock, placing, archiving, bulk updates and archivings, triage, moves to another team; the log of three columns, each entry dated by the start of its transaction, and `completed_at` | `NumbersIdentify`, `TheLogTellsTheStory`, `BulkEditsDoNotDeadlock` (`RowsAreTakenInOrder`) |
| accounts | `Accounts` | registrations, logins with the charge before and the clearing after the hash, sessions, the sweep, the window | `AttemptsAreBudgeted`: at most twice the budget in any stretch of a window's length, as `services/auth.py:143` says |
| documents | `Documents` | edits with the boundary rule, snapshots, restores, comments | `NoVersionIsLost` (`EditsAreKeptWhole`) |
| pulls | `GithubPulls` | a pull request's versions, delivered late, twice, in any order or never; its links, merge events, moved issues | `TheRowIsTheNewestVersion`, `DeliveriesActOnce` (`PullRequestsAreFollowed`) |
| installations | `GithubInstallations` | claims, confirmations; deliveries statement by statement, behind whatever a request did since they found their workspace | `ForeignRepositoriesWereInFlight` (`ListingsWereConfirmed`) |
| tracking | `Tracking` | selections saved row by row, releases, deliveries that restate the rows, a team's automation | `ReleasedStayTracked` (`ListingsWereConfirmed`); `SelectionsAreWhole`, violated |
| handshakes | `Handshakes` | two tabs, one cookie per provider, redirects late or twice, sessions and roles that end | `ConnectedAsBegun`, `ConfirmedByAGrant` (`ListingsWereConfirmed`) |
| channels | `SlackChannels` | overlapping refreshes, the default channel, reconnecting | `ShownChannelsWereListed`, `DefaultIsKept` (`ListingsWereConfirmed`) |
| labels | `Labels` | attaching one or many, detaching, regrouping, flipping a group's exclusivity | `OneLabelOfAnExclusiveGroup`, `CapIsNearlyKept` (`AnnotationsAreKept`) |
| relations | `Relations` | relations named from either end, duplicates declined in triage | `RelationsReadAsNamed`, `OriginalsStay` (`AnnotationsAreKept`) |
| boards | `TeamBoards` | founding a team, scales, estimates, cycles, an issue's team | `EstimatesFit`, `BoardsAreWhole`, `CyclesAreTheTeams` (`AnnotationsAreKept`) |
| plans | `Planning` | projects, appended and moved milestones, placements, deletions | `PlacesAreThere`, `MilestonesAreAppended` (`AnnotationsAreKept`) |
| inbox | `Inbox` | comments, assignments, moves, subscriptions, reading, departures and returns | `LeaversHearNothing` (`LeaversKeepNothing`) |
| views | `SavedViews` | views with the encoding of their filters, sharing, stars, departures | `LeaversOwnNothing`, `StarsWereVisible`, `ViewsReadAsSaved` (`LeaversKeepNothing`) |
| holdings | `Holdings` | above | `LeaversHoldNothing` (`LeaversKeepNothing`) |
| releases | `Releases` | cutting over a derived or explicit boundary, freezing commits, statuses, deletion | `MissingWorkHasAReason` |
| health | `HealthReports` | overlapping reports: the row, the decision to announce, the stamp | `HealthFollowsTheLog` |
| deletions | `Deletions` | clearing statement by statement, references added meanwhile, row locks | `RefusedForAReason`, `DeletionsDoNotDeadlock` (`RowsAreTakenInOrder`) |
| templates | `Templates` | editing whole, scheduling, discarding, applying in several transactions | `TemplateIsOneDraft`, `ScheduleFits`, `IssueFollowsOneDraft` (`EditsAreKeptWhole`) |

*Dates of the log.* `issue_activity.created_at` defaults to `now()`, which is when
the transaction began, and the log is read by it (`repositories/activity.py:141`).
So `Open` and `Begin` are steps of their own that take a stamp, the statement that
waits for the row comes later, and `told` is the entry with the newest stamp, not
the one written last. `latest` is the stamp of the one written last: where it is the
older of the two, the log tells what the request that began later had written, and
`TheLogTellsTheStory` says that nothing else makes it wrong. Stamps are distinct
numbers; two transactions that begin in one microsecond are told apart by the id.

*Deliveries.* `Resolve` is the plain read of the workspace, `Name`, `Clear` and
`Store` are `set_account_login`, the deletes and the inserts, `Uninstall` the three
deletes of "deleted". `Miss` is what a request that deletes the row does to
a delivery whose `UPDATE` waits for it: the `UPDATE` matches nothing, its count is
not looked at, and the delivery goes on. A payload that names no account skips the
statement. What is inserted then needs a row of the workspace, of whatever kind
(`github_repositories_installation_fk`). Requests lock what they delete and commit,
so each of theirs is one step between the statements of the deliveries: a statement
that waits for them meets the outcome, and they wait for what a delivery holds.

*Pull requests.* Every delivery modelled has an id of at most
`DELIVERY_ID_MAX_LENGTH`: one without is applied without the ledger
(`services/github.py:1576`), and `DeliveriesActOnce` does not speak of it. Versions
have an `updated_at` (a NULL is compared with nothing and always written), and
`converted_to_draft` and `synchronize`, which write the same columns and ask for no
move, are not told apart.

Where a plain promise would be false the property says what is true: a leaver
hears nothing told after they left, and holds nothing unless it was written
after the departure's own deletes; a health is the newest report's unless
reports overlapped; a label cap is passed by the attaches under way. The module's
comment at each property says so, and the notes below say where.

### Reads

`Reads` extends `Membership` (whose run it shares) with five parts.

* *KeysetPages* (pages): the list of issues by any sort key, NULLs where
  PostgreSQL sorts them, pages as statements of their own. `WalkIsComplete`: a row
  that stays as it was is returned, once.
* *Lists* (lists): every other paginated list, each with its own filter and
  direction. `ListsAreComplete`, the same with rows that appear behind a cursor.
* *Analytics* (analytics): the twelve statements of the page, each with a
  snapshot of its own, and the limits of four of them: the busiest people, teams
  and projects, and the latest cycles. `PanelsAgree`: panels that count the same
  issues differ by issues changed meanwhile only, where no limit cut a table: the
  teams' is compared with the cycle times if no more teams than `TEAM_LIMIT`
  delivered, the people's likewise. `ChartHoldsEveryRow`.
* *GraphqlRequests* (requests): the shared viewer, the scopes, the loaders.
  `BatchesAnswerAsAlone`, `EndsAgree`, `OneViewer`.
* *OperationLimits* (prices): `graphql/limits.py`, the measuring walk with its
  memo. `FragmentsBuyNothing`: a measured operation costs exactly what its
  document written out costs, computed without recursion over fragments' costs
  (a set of ways from the root, and sums over it); `AdmittedIsAffordable`: what
  is admitted brings no more leaf values than the budget whatever the variables
  hold, list fields without a page size counted once (see the notes).

`ReadsAreComplete` conjoins those of the first four parts, `DocumentsAreCharged`
those of the last. That a batch's project has both ends of a dependency in one
workspace is the composite foreign key of `project_dependencies`
(`migrations/022_initiatives.sql:417-454`), an invariant of the rows (`Straight`).
The walk of `OperationLimits` is a function by recursion on what is left of a
selection, the memo and the fragments under way, as the source threads them.

## Runs

| Run | Instance | Distinct states |
|---|---|---|
| `Membership` (module `MCReads`) | membership: 3 users, 2 requests, 1 invitation, symmetric. pages: 3 issues by 2 values or NULL, pages of 1 and 2. lists: 3 rows, 2 keys. analytics: 2 issues, none or both of them filed before, 2 days, 1 part, limit 1, 2 changes. requests: 2 fields, 2 ids, 3 workspaces of which 2 joined, 1 write. prices: two operations, up to 2 fragments of 9 bodies | 717,720 |
| `AlwaysAnOwner`, `OnlyOwnersActOnOwners` | 3 users, 2 requests, 1 invitation; violation expected | – |
| `SlackOutbox` | 2 events, 2 workers, 2 attempts, backoff of 1 delay, 1 loss per event, fair | 272,000 |
| `DeliveredStaysDelivered`, `AttemptsAreBounded` | 1 event; violation expected | – |
| `Hierarchies` (no module of its own) | 4 rows, 2 requests, depth bound 2, symmetric, all three kinds | 16,000 |
| `EmbeddingQueue` (module `MCBackground`) | queue: 1 issue, 2 texts, 2 workers, 1 client, 2 attempts. backlog: 2 issues, 1 text, 1 worker, sweeps of 1. recurring: 2 replicas, 5 rules, days around the ends of January and of a short February, 2 saves. reminders: 2 replicas, 2 issues, 1 date, batches of 1, 1 loss. migrations: 2 runners, 5 checkouts of 3 versions. Fair | 115,523 |
| `ErrorsDescribeTheText` | 1 issue, 2 texts, 2 workers, 1 client; violation expected | – |
| `Tracker` (module `MCTracker`) | below | 865,970 |
| `SelectionsAreWhole` | 2 repositories, 2 admins; violation expected | – |
| `OpenIssuesAreUndated` | `Tracker`'s instance; violation expected | – |

`Tracker`, part by part: 2 issues of 2 teams, 2 clients, batches of both issues, 4 transactions;
1 address, 1 email, a window of 2 instants, 5 tries; 1 document, 2 editors, 2
texts, 2 revisions; 1 pull request with 3 changes, 1 move by hand; 2 workspaces,
2 installations, one of them with a repository, 1 delivery under way; 2 channels, 2 refreshes; 3 labels of which
2 attached in bulk, 1 group, a cap of 1; 2 people, 1 issue, 1 thing told; 2
commits, 3 releases, a range limit of 1; 3 reports of 2 reporters; 2 people, 1
view; 2 handshakes, 2 callbacks, of each provider; 1 row of each of the 5 tables
deleted, 2 references at once; 2 drafts, 2 editors, 1 who applies; 2 issues, 2
requests that relate them; 2 repositories, 2 admins, 3 deliveries; 2 teams, 1
issue, 2 cycles over 3 instants, 1 founder, 3 strokes; 2 projects, 2 milestones,
1 issue, 2 requests; 2 people, 3 tables of holdings.

Why the bounds are enough. Two transactions are what a race needs: while one
waits, the other may begin and end any number of times. Three users are an
owner, the owner somebody acts on and a third who acts; with two the last-owner
rule never has a bystander. With one invitation, the first member to join beside
the founder has used it up, so in this run nobody but an owner ever has an
invitation left to issue; the clause of `OwnershipComesFromAnOwner` about who
issued an invitation is therefore carried by `OwnershipTheorem`, which has no
bounds (two invitations hold as well, at 2.3 million states). Two workers and two
events let one process outstay its backoff while the other closes both; two
attempts are the least that have a retry and a last one. Four rows make loops of
every length up to four and trees one deeper than the bound of two, so that a
truncated walk gives a wrong number. One issue with two texts is every race
about an issue; the backlog is only there for starvation, with a sweep's budget
of one. The days of `Recurring` hold a month of 31 days, a short one, the day
after each, and a rule every 52 months, the longest the scan must reach. Three
changes of a pull request are the least with two that arrive in the wrong order
and one that repeats; two in one second are told apart by nothing, and that is
among them. A range limit of one has a release trimmed. Three rows and pages of
one and two put a row before, on and behind a cursor, and a page that is full and
one that is not. Three reports are two that overlap and one that follows. Two
fragments make a spread of a spread, a fragment spread twice, and a cycle, which
is the document the walk must end on and promises nothing about.

Symmetry is used only in runs with no liveness property. `CHECK_DEADLOCK FALSE`
stands in the membership run and the run of `Tracker`, and in the violation runs
of their components: a workspace without administrators, with no invitation left,
has no next step, which is the consequence of a finding; a document that was
measured is done; and the parts of `Tracker` come to the end of what their bounds
let happen (a number, a day, a revision, a report). The other models never stop.

### Fairness

`SlackOutbox`: time passes, an idle loop claims what is due
(`run_delivery_loop` polls for ever and survives any exception), and a worker that
holds an event goes on (every call has a timeout: `command_timeout`, the HTTP
client's). Weak fairness on each: nothing disables a due claim but a claim of
another worker. `Lose` is bounded per event by `Losses` because no event is
closed if every process dies holding it, and is never forced.

`Background`: each worker's pass goes on (`run_forever` loops and survives
exceptions) and a job's time comes, for both instances of the queue. No client
need come. `EveryIssueSettles` and `BacklogSettles` assume in their own
statement that changes and interruptions cease. A reminder sweep goes on from
select to insert to notify (`run_forever` of the schedule, every
`POLL_INTERVAL_SECONDS`). Days pass without being asked: nothing is promised of a
day that ends while the sweeps are behind.

Everything else promises nothing about progress: a request may always be
abandoned, a delivery never come.

## Findings

Seven statements of the repository do not hold of its code. Each is a run that
expects the violation; PROJECT.json quotes the lines.

1. *A workspace must always have at least one owner* (`services/memberships.py:112`).
   While a request waits in `lock_owner_ids`, somebody it will not visit becomes an owner and
   those it will visit cease to be: it counts an empty list and demotes the only owner.
2. *Only an owner may create an owner or act on one* (`services/memberships.py:761`).
   The same gap lets an administrator act on a fresh owner.
3. *A row can never carry a delivery instant it did not earn; today nothing could
   have set one* (`repositories/events.py:440`). A late worker's failure replaces a
   delivery.
4. *How many attempts ... counted at claim time* (`services/notifications.py:84`).
   The claim counts and never compares, so deaths between claim and record go
   past `MAX_ATTEMPTS`.
5. *A non-NULL value always describes the attempts currently counted*
   (`migrations/028_embedding_jobs.sql:209`). `fail` charges by key a job that was reset.
6. *Moving an issue out of a terminal state clears it* (`completed_at`,
   `migrations/031_analytics.sql:25`). `TriageRepository.change_team` moves an issue to
   the default state of another team and leaves the date.
7. *... would let two saves interleave into a set neither admin chose*
   (`services/github.py:1242`, of the alternative). Two selections saved at once
   each pass over the rows that agreed with their snapshot, and do just that.

### Notes

What the models show besides, where the text of the repository promises nothing,
acknowledges the gap, or promises something no run of its own checks:

* *Departures.* A write that overlaps a departure leaves a notification, a
  subscription or a holding behind; `repositories/memberships.py`
  (`unassign_issues`) says so of assignments. The docstring of
  `ProjectService.create` says the key on the lead "is what refuses a
  non-member, with no window"; the key refers to the row a departure keeps.
  `repositories/memberships.py:496` says of favourites that a leaver's own are the
  only ones that can reference a personal view; a colleague's star on a shared
  view that was made personal later is another, and the departure then fails on
  the foreign key.
* *GitHub.* A delivery that resolved its workspace before a disconnection writes
  under what was connected since; a late "deleted" removes the new connection.
  `migrations/016_github_installation_trust.sql:113-120` says that writing the account
  first guards the repositories: a delivery for an unconfirmed row "would abort here".
  One whose `UPDATE` waited for the row a new claim replaces matches no row instead,
  and one whose payload names no account skips it: both list repositories under the
  claim. `ForeignRepositoriesWereInFlight` excepts exactly them. A
  merge delivery overtaken by a newer event of the pull request is dropped. A
  release cut between the probe and the `UPDATE` of a selection, or on a
  repository a delivery added meanwhile, may end on an untracked one; a save that
  leaves an already untracked repository with a release unticked is refused; a
  restated repository comes back tracked. A repository with a release cannot be
  removed, and the webhook does not translate the refusal.
* *Activity.* A request that began first and waited for the issue's row writes last
  and is dated before what it overwrote, so the newest entry by `created_at` may name
  an earlier value (`repositories/activity.py:141`).
* *Handshakes.* A redirect followed again after its code was spent claims again,
  and leaves a confirmed connection pending. `confirm_claim` names only the
  installation, so it may promote another workspace's later claim. A late answer
  clears a newer handshake's cookie, whose redirect is then refused.
* *Slack.* Connecting is an upsert in place, so an earlier team's channels stay
  until the next refresh; of two refreshes the later commit wins, whatever Slack
  was asked first.
* *Health.* `migrations/022_initiatives.sql:288` says there is no committed state
  in which a log and the stamped health disagree; overlapping reports reach one,
  and may announce a move twice or not at all.
* *Labels, milestones.* Attaching in bulk ignores `LABELS_PER_ISSUE_MAX`, which one
  by one is passed by the attaches in flight (`services/labels.py:46`). Two
  milestones may share a position, by design.
* *Estimates.* A bulk edit writes an estimate without asking the team's scale
  (`services/bulk.py:619`). Moving a triaged issue that sits in a cycle is refused
  by `issues_cycle_fk`, and the service does not translate it.
* *Deletions.* `ProjectService.delete` clears "everything that hangs off it" but
  not templates, favourites and documents; documents stop an initiative's
  deletion, templates a cycle's and a label's. The key refuses, and the service
  does not translate it.
* *Templates.* An edit writes row then labels, a deletion labels then row: two of
  them may deadlock, and the database ends one. A template given another team
  after it was scheduled makes every firing fail, which is logged. Saving a
  schedule again starts from its first occurrence, which may be past.
* *Views.* A patch of the grouping alone may hit the CHECK on the sub-grouping
  untranslated.
* *Relations.* Mutual blocking and longer circles of duplicates are allowed
  (`migrations/010_issue_relations.sql` calls the first a judgement of the
  product). Declining a duplicate is logged on the declined issue's timeline only.
* *Reads.* The panels of the analytics page see different snapshots
  (`services/analytics.py:76`); its overdue panel omits issues finding 6 left dated;
  past `TEAM_LIMIT` (50) delivering teams the teams' table holds less than the cycle
  times, past `WORKLOAD_LIMIT` (20) people the workload less than the open issues.
  A client that resumes an oldest-first list from its last cursor may miss a row
  whose transaction began before the cursor's and committed after. A loader is
  never cleared, so a later mutation of one document may answer with an earlier
  reading. `graphql/limits.py:373` says that no field of the schema fans out
  without `first` or `last`; the labels of an issue (`graphql/types/issue.py:437`)
  and the milestones and updates of a project (`graphql/types/project.py:203`) do,
  and are charged once.
* *Migrations.* Different checkouts may apply their versions in another order.

## Proofs

Seven `X_proofs` modules prove, for every value of the constants that satisfies
the named assumptions, an inductive invariant of `X` and what follows from it.
Every leaf is checked; nothing is assumed but the ASSUMEs of the models: a sentinel
is not a value, sets of rows and workers are finite where they are counted, bounds are
naturals (positive where zero would make no sense), rules are those the CHECK
constraints admit, ids and sort keys are numbers, and the texts of a document are
closed under taking what is inside them. That a rule has a next day within the
scan is no assumption any more: the comment on the window
(`domain/recurrence.py:56-61`) is `ScanTheorem`.

| Theorem | Says | Argument |
|---|---|---|
| `Reads_proofs`: `TypeCorrect`, `CountedOwnersCorrect`, `LastOwnerTheorem`, `OwnershipTheorem`, `JoiningTheorem`, `InvitationTheorem` | the corresponding properties | a row lock freezes the ownership of its row for everybody but its holder. `StageInv` ties the answer of the locking statement to the rows visited, `InviteInv` ties a claimed invitation to its claimant: without them neither the count nor the role granted is inductive |
| `Reads_proofs`: `ReadsTheorem`, pages and lists | `WalkIsComplete` and `ListsAreComplete`, for any rows, keys, NULLs and page sizes | a page is the rows that fewer than `first` others precede (`RanksAreDense`, `FirstHolds`: with more rows than that it has `first` of them, closed under what precedes). What stands still has been returned exactly when the cursor is past it (`PageInv`, `ListInv`); what was returned under a key it still has is behind the cursor, so it is not met again |
| `Reads_proofs`: `ReadsTheorem`, analytics | `PanelsAgree`, `ChartHoldsEveryRow`, for any window and limit, of tables no limit cuts | a table its limit does not cut holds every part there is. Not that two panels agree, which no single step keeps, but that each panel agrees with what its condition counts *now* up to `touched` (`PanelHolds`): a change adds its issue to `touched`, a statement reads what is counted now, and two panels that agree with one set agree with each other |
| `Reads_proofs`: `ReadsTheorem`, requests | `BatchesAnswerAsAlone`, `EndsAgree`, `OneViewer`, for any keys, limits and number of writes | what a key would be answered now is among what it would have been since it was asked for (`TruthInv`), and what a statement of several rows returns for one of them is what a statement for it alone would (`FetchAnswersAlone`: `row_number() <= limit` over a partition takes the first of each, `LeastIsFirst`); so every key a flight has read holds an answer of its time (`FlightOK`). No field is past the viewer before there is one (`ViewerInv`) |
| `SlackOutbox_proofs`: `TypeCorrect`, `LeaseTheorem`, `AccountTheorem`, `HonestTheorem`, `ClosedTheorem` | the corresponding properties | claims of one row are numbered, so two holders have different numbers (`LeaseInv`); the age of a claim and the wait of its row together cover the backoff; `RepeatInv` says a closed or acknowledged event still held has been tried twice |
| `Hierarchies_proofs`: `TypeCorrect`, `AllowedTheorem`, `NoLoopTheorem`, `RefinementTheorem` | acyclicity and the refinement, for graphs of any size | removing arrows only shortens walks (`ReachMonotone`), adding one needs the lock (`LockInv`), `ArrowLemma` shows that an arrow whose walk met nothing closes no loop, and `DepthGuardIsEnough` that a loop too long for the truncated walk is caught by the depth rule |
| `Hierarchies_proofs`: `ShallowTheorem` | the depth bound | in a forest what is above a row is a chain, so its size is the row's depth. While a request is between its walk and its write, the two halves it measured still fit (`RoomInv`): meanwhile rows only come loose, which shortens chains |
| `Background_proofs`: `TypeCorrect`, `HonestTheorem`, `AttemptsTheorem`, `AttemptsKeptTheorem`, `QueueTheorem` | the queue's properties, alone and as a part of `Background` | a vector carries the digest its upsert compared (`HonestInv`), a job that is out of attempts is never handed out (`RetiredInv`), so attempts plus the workers that may still charge it stay below the bound (`ChargeInv`) |
| `Background_proofs`: `BackgroundTypeCorrect`, `OnceTheorem` | typing, the queue's too; `FilingIsOnceOnly` and `RemindersAreOnceOnly`, step by step | what a saved schedule has claimed lies before its next day (`OverInv`), versions of a template are never used again (`VersionsInv`), and the claims of two replicas are disjoint (`ClaimsInv`); what a reminder sweep inserted is in no other's hands (`HeldInv`). |
| `Background_proofs`: `ScheduleTheorem` | a schedule waits for the first day its rule names after the day it was computed from | a sweep computes from a day at or past the schedule's, hence not before the rule's first (`WaitsInv`), and there the scan finds the first day (`ScanFindsTheFirst`, `NextIsLater`) |
| `Background_proofs`: `ScanTheorem` | every rule has a day within `MAX_SCAN_DAYS`: `UnreachableRecurrenceError` is never raised | the next multiple of the interval is at most an interval away (`NextMultiple`); months follow each other without a gap, leap years included (`MonthFollows`), `interval` of them are at most 31 days each (`MonthsAreShort`), and the clamp keeps the day in its month |
| `Background_proofs`: `SchedulesTheorem` | `SchedulesAreKept` | the scan's test of a day and the closed form name the same days (`RuleDays`), for each frequency: `DailyDays`, `WeeklyDays`, `MonthlyDays`. Below them is the calendar: every day is of one month and `date.month` finds it (`DaysHaveAMonth`, `DaysHaveOneMonth`). Induction over months and days is by the least counterexample (`LeastNatural`) |
| `Background_proofs`: `SchemaTheorem` | `SchemaIsWhatTheLedgerSays` | whoever is inside has the advisory lock and has seen the ledger as it is (`LockInv`); a schema older than the ledger holds the first migration alone until it is adopted (`OlderInv`) |
| `Tracker_proofs`: `AnnotationsTheorem` | `AnnotationsAreKept`, part by part | labels: a worn label carries its group's key, and the cascades keep the copies equal (`PinsInv`), attached labels and attaches under way together stay below the cap (`CapInv`); relations: no two edges or requests have one row (`RelationRowsInv`); boards: who will write an estimate has seen that it fits the scale it read, and scales change only past their estimates (`SizingInv`); plans: two appends with one position overlap (`AppendsInv`) |
| `Connections_proofs`: `LeaversTheorem` | `LeaversKeepNothing` | a departure's record covers what its statements have found, but for what was written since (`GoingInv`, `DepartureInv`, `HoldingInv`) |
| `Connections_proofs`: `ListingsTheorem` | `ListingsWereConfirmed` | what a callback, a delivery, a refresh or a selection holds in its hands is tied to what it read when it began: `OfItsHandshake` and `RowsCarryNumbers`, `ChannelInv`, `TrackingInv`. A delivery past its read is of an installation its workspace has, by this very delivery perhaps, or has let go of since (`SoundlyBound`); what it lists and what it holds deleted are of that one, and nobody else has the rows it keeps locked (`Listable`) |
| `Connections_proofs`: `PullRequestsTheorem` | `PullRequestsAreFollowed` | what moved an issue is a version some delivery spent, so a second delivery of it finds itself in the ledger (`PullInv`) |
| `Connections_proofs`: `BudgetTheorem` | `AttemptsAreBudgeted`, for any window, budget and clock | the attempts of the present window are within the budget, those before came before it began, and all but a budget's worth a window earlier (`Windowed`); a bucket that was swept is rested (`Rested`); so `2 * budget` attempts on, a window has passed (`Spread`) |
| `Changes_proofs`: `NumbersTheorem`, `LogTheorem`, and issues in `OrderTheorem` | `NumbersIdentify`, `TheLogTellsTheStory`, `RowsAreTakenInOrder` | whoever takes a number holds the counter alone (`NumbersInv`); every stamp is of a transaction that began, the stamps of two under way differ, and the newest entry is no older than the one written last (`DatesInv`), so the two are one entry unless the last writer had begun earlier; what a bulk edit saw is what is in the rows it locked (`LocksInv`), so what it logs is true; a bulk edit has locked the first of its issues, so whom it waits for is ahead of it |
| `Changes_proofs`: deletions in `OrderTheorem` | the same | what the earlier statements were about is gone, or was added since (`Cleared`); so the statement two deletions would wait at is both before and after the other's |
| `Changes_proofs`: `EditsTheorem` | `EditsAreKeptWhole` | the document is as its locker read it (`DocumentInv`); the labels a writer of a template is about to put back are those it deleted, and a schedule checked against a team knows when the team moved (`EditsInv`, `FilingsInv`) |
| `Changes_proofs`: `MissingWorkTheorem` | `MissingWorkHasAReason` | a release ships its commits back to a boundary behind which everything is shipped or excused (`Ships`, `Behind`), also while others are cut and deployed (`Ahead`) |
| `Changes_proofs`: `HealthTheorem` | `HealthFollowsTheLog` | a project's row lock orders the stamps; who compared did so with the report that ended last (`Compared`) |
| `Tracker_proofs`: `TypeCorrect` | every table of every part of `Tracker` is well typed | the invariants above; `ChangesInvHolds`, `ConnectionsInvHolds` and `AnnotationsInvHolds` divide the parts among them |

The proofs of `Tracker` are in three modules for their length only: each has one
lemma per action (`XKeeps`), one for the initial state (`XStart`) and one for the
part's step (`XStep`), and a theorem that puts the parts together. A part that does
not move keeps its invariant because its variables do not change.

Acyclicity and reachability are stated through closed sets rather than by
recursion, which is what makes them provable. For the same reason `Accounts`
keeps the admitted attempts as a sequence of instants: that a stretch holds at most
`n` of them says that any `n` in a row later, a window has passed.

Model-checked only:

* the liveness properties (`EveryEventIsClosed`, `EveryIssueSettles`,
  `BacklogSettles`, `DueIssuesAreReminded`): the prover has no fairness;
* `DocumentsAreCharged`: the walk over a document, the ways through it and the
  sums over them are recursions over data, and what such a definition computes for
  every input takes an induction whose theorem the installed provers cannot
  instantiate. The instance has fragments spread twice, within each other and in a
  circle.

`Reads_proofs` holds the theorems of `Membership` as well, which `Reads` extends.

## Plan

1. An induction over documents, once a prover for it is there: `FragmentsBuyNothing`
   for every document, from `_measure` alone.
2. Slack preferences and the ledger of inbound events, once something acts on it;
   the content of documents (`domain/documents.py`), as a grammar.

## Not modelled

* Contents and wording: messages, payload parsing, the syntax of a document's
  content, ranking in search, percentages in analytics. They read and do not decide.
* Columns that no rule relates to another (names, icons, colours, dates, the
  priority of an issue), written by single statements; `project_teams` and
  `initiative_projects`, whose statements the keys decide alone; Slack
  preferences; editing and deleting a comment; renaming a workspace or a team.
* The GraphQL types, inputs and mutations and the REST routes beyond the two
  callbacks: they translate requests into calls of the services and hold no state.
* Cryptography: hashing, signatures, sealed tokens are predicates that hold or not.
* Scripts that seed or inspect a database; the frontend; deployment.
* The database itself is taken at its word: isolation, locks, constraints and
  durability are what PostgreSQL documents. Deadlocks it breaks are `Rollback`s.
