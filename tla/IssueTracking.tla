--------------------------- MODULE IssueTracking ---------------------------
(***************************************************************************)
(* The issues table under everything that writes it: filing, patching,     *)
(* placing in a project, bulk edits, archiving, triage, the pull-request   *)
(* automation, and the statements that take a project or a person away     *)
(* from many issues at once.  Requests run in transactions, one action per *)
(* statement that can wait, under READ COMMITTED; and an entry of the log   *)
(* is dated by the start of the transaction that writes it.                *)
(***************************************************************************)
EXTENDS Naturals, FiniteSets

CONSTANTS
  Work,       \* issues, numbered in the order of their ids
  Teams,
  Members,    \* people an issue can be assigned to
  Projects,
  None,       \* NULL
  Clients,    \* concurrent requests
  Patches,    \* the patches tried, see Patch
  Batches,    \* the sets of issues edited in bulk
  MaxNumber,  \* bound: issue numbers each team gives out
  MaxStarts   \* bound: transactions begun

VARIABLES
  counter,    \* teams.issue_counter
  row,        \* the issues table; None is an issue not filed yet
  told,       \* the newest activity entry about a column, and what it says that became
  latest,     \* history: the date of the entry about a column that was written last
  silent,     \* history: columns changed since by a statement that logs nothing
  named,      \* history: every <<number, issue>> a team has given out
  tx,         \* the transaction of each client
  starts      \* transactions begun: the clock that dates them

issueVars == <<counter, row, told, latest, silent, named, tx, starts>>

Terminal == {"completed", "canceled"}
Categories == {"unstarted"} \union Terminal
Logged == {"state", "assignee", "project"}
Keep == "keep"

\* BulkIssuePatch and IssuePatch: Keep is UNSET.
Patch == [state : Categories \union {Keep},
          assignee : Members \union {None, Keep},
          project : Projects \union {None, Keep}]

LegalIssueConstants ==
  /\ Work \subseteq Nat /\ IsFiniteSet(Work)
  /\ Patches \subseteq Patch /\ Batches \subseteq SUBSET Work
  /\ MaxNumber \in [Teams -> Nat] /\ MaxStarts \in Nat
  /\ None \notin Members \union Projects /\ Keep \notin Members \union Projects

Row == [team : Teams, number : Nat, state : Categories,
        dated : BOOLEAN,              \* completed_at IS NOT NULL
        assignee : Members \union {None}, project : Projects \union {None},
        stage : {"live", "triage", "archived"}]

NoTx == [kind |-> "none"]

Tx(c) == tx[c].kind # "none"
Held(c) == IF tx[c].kind = "bulk" THEN DOMAIN tx[c].seen ELSE {}
Free(i) == \A c \in Clients : i \notin Held(c)
Filed(i) == row[i] # None
Live(i) == Filed(i) /\ row[i].stage # "archived"
End(c) == tx' = [tx EXCEPT ![c] = NoTx]

IssueTypeOK ==
  /\ \A t \in Teams : counter[t] \in 0..MaxNumber[t]
  /\ row \in [Work -> Row \union {None}]
  /\ told \in [Work -> [Logged -> [born : 0..starts, to : Categories \union Members \union Projects \union {None}]]]
  /\ latest \in [Work -> [Logged -> 0..starts]] /\ starts \in 0..MaxStarts
  /\ silent \subseteq Work \X Logged
  /\ named \in [Teams -> SUBSET (Nat \X Work)]
  /\ \A c \in Clients :
       \/ tx[c] = NoTx
       \/ tx[c] \in [kind : {"open"}, born : 1..starts, wants : SUBSET Work]
       \/ tx[c] \in [kind : {"number"}, born : 1..starts, wants : SUBSET Work, team : Teams]
       \/ /\ tx[c].kind = "bulk" /\ tx[c].born \in 1..starts /\ tx[c].wants \in SUBSET Work
          /\ Held(c) \subseteq tx[c].wants /\ \A i \in Held(c) : Filed(i) /\ tx[c].seen[i] \in Row

IssueInit ==
  /\ counter = [t \in Teams |-> 0]
  /\ row = [i \in Work |-> None]
  /\ told = [i \in Work |-> [f \in Logged |-> [born |-> 0, to |-> None]]]
  /\ latest = [i \in Work |-> [f \in Logged |-> 0]] /\ starts = 0
  /\ silent = {}
  /\ named = [t \in Teams |-> {}]
  /\ tx = [c \in Clients |-> NoTx]

-----------------------------------------------------------------------------
(* A transaction begins, and its first statement waits for a row.  It knows *)
(* the issue it is about, but for a filing, and for a delivery from GitHub,  *)
(* which reads the issues named in it.                                       *)

Start(c, x) ==
  /\ tx[c] = NoTx
  /\ starts < MaxStarts /\ starts' = starts + 1
  /\ \A i \in x.wants : Filed(i)
  /\ tx' = [tx EXCEPT ![c] = x]
  /\ UNCHANGED <<counter, row, told, latest, silent, named>>

Open(c, S) == Start(c, [kind |-> "open", born |-> starts + 1, wants |-> S])

\* A bulk edit, update_many or archive_many, of a batch.
Begin(c, S) ==
  /\ S \in Batches /\ S # {}
  /\ Start(c, [kind |-> "bulk", born |-> starts + 1, wants |-> S, seen |-> <<>>])

Serves(c, S) == tx[c].kind = "open" /\ tx[c].wants = S

-----------------------------------------------------------------------------
(* Activity: entries are read by created_at, which is when their            *)
(* transaction began, and not in the order they were written.               *)

\* Client c writes an entry about each column of L, of what is in it now.
Log(c, L) ==
  /\ told' = [i \in Work |-> [f \in Logged |->
       IF <<i, f>> \in L /\ told[i][f].born < tx[c].born THEN [born |-> tx[c].born, to |-> row'[i][f]]
       ELSE told[i][f]]]
  /\ latest' = [i \in Work |-> [f \in Logged |-> IF <<i, f>> \in L THEN tx[c].born ELSE latest[i][f]]]
  /\ silent' = silent \ L

\* record_changes compares two snapshots of the issues of S and logs what differs.
RecordChanges(c, S, before, after) ==
  Log(c, {p \in S \X Logged : before[p[1]][p[2]] # after[p[1]][p[2]]})

\* The entry of a triage move: what the state became, without what it was.
RecordState(c, i) == Log(c, {<<i, "state">>})

-----------------------------------------------------------------------------
(* Filing, and moving to another team: both begin by taking a number.       *)

\* allocate_issue_number: the UPDATE keeps the team's row locked until the end.
Allocate(c, t) ==
  /\ tx[c].kind = "open"
  /\ counter[t] < MaxNumber[t]
  /\ \A d \in Clients : tx[d].kind = "number" => tx[d].team # t
  /\ tx' = [tx EXCEPT ![c] = [kind |-> "number", born |-> tx[c].born, wants |-> tx[c].wants, team |-> t]]
  /\ UNCHANGED <<counter, row, told, latest, silent, named, starts>>

\* Mutant: the number is the count of the team's present issues, plus one.
NumberByCount(i, t) ==
  LET n == Cardinality({j \in Work : Filed(j) /\ row[j].team = t}) + 1 IN
  /\ counter' = [counter EXCEPT ![t] = n]
  /\ named' = [named EXCEPT ![t] = @ \union {<<n, i>>}]
Number(i, t) ==
  /\ counter' = [counter EXCEPT ![t] = @ + 1]
  /\ named' = [named EXCEPT ![t] = @ \union {<<counter[t] + 1, i>>}]

\* IssueService.create: default state, number, row and entry commit together.
Create(c, i, assignee) ==
  /\ tx[c].kind = "number" /\ tx[c].wants = {} /\ ~Filed(i)
  /\ LET t == tx[c].team
         r == [team |-> t, number |-> counter[t] + 1, state |-> "unstarted", dated |-> FALSE,
               assignee |-> assignee, project |-> None, stage |-> "live"]
     IN /\ Number(i, t)
        /\ row' = [row EXCEPT ![i] = r]
        /\ Log(c, {i} \X Logged)
  /\ End(c)
  /\ UNCHANGED starts

\* TriageService.change_team: team, number and state move, completed_at stays.
ChangeTeam(c, i) ==
  /\ tx[c].kind = "number" /\ tx[c].wants = {i}
  /\ Filed(i) /\ Free(i) /\ row[i].stage = "triage"
  /\ LET t == tx[c].team IN
     /\ Number(i, t)
     /\ row' = [row EXCEPT ![i].team = t, ![i].number = counter[t] + 1, ![i].state = "unstarted"]
  /\ RecordState(c, i)
  /\ End(c)
  /\ UNCHANGED starts

-----------------------------------------------------------------------------
(* Bulk edits: lock_snapshots, one UPDATE, the log.                          *)

Unlocked(c) == tx[c].wants \ Held(c)

See(c, i) == tx' = [tx EXCEPT ![c].seen = [j \in Held(c) \union {i} |->
                                             IF j = i THEN row[i] ELSE tx[c].seen[j]]]

\* Mutant: FOR UPDATE in whatever order the rows come.
InAnyOrder(c, i) == TRUE
\* ORDER BY id FOR UPDATE: the rows are locked in the order of their ids.
InOrder(c, i) == \A j \in Unlocked(c) : i <= j

\* Mutant: the snapshot is a plain SELECT.
AvailableUnlocked(i) == TRUE
\* FOR UPDATE waits for the row.
Available(i) == Free(i)

\* The next row of the locking SELECT; bulk skips archived rows, and then refuses.
LockIssue(c, i) ==
  /\ tx[c].kind = "bulk"
  /\ i \in Unlocked(c) /\ InOrder(c, i) /\ Available(i)
  /\ IF Live(i) THEN See(c, i) ELSE End(c)
  /\ UNCHANGED <<counter, row, told, latest, silent, named, starts>>

\* completed_at, recomputed on every update from the state the row ends up in.
Dated(state) == state \in Terminal

New(old, value) == IF value = Keep THEN old ELSE value

Patched(r, p) ==
  LET s == New(r.state, p.state)
  IN [r EXCEPT !.state = s, !.dated = Dated(s), !.assignee = New(@, p.assignee),
               !.project = New(@, p.project)]

\* The UPDATE and record_changes, in the transaction that holds the rows.
Write(c, after) ==
  /\ tx[c].kind = "bulk" /\ Unlocked(c) = {}
  /\ row' = after
  /\ RecordChanges(c, Held(c), tx[c].seen, after)
  /\ End(c)
  /\ UNCHANGED <<counter, named, starts>>

\* BulkService.update_many: the same patch for every issue, all or none.
UpdateMany(c, p) == Write(c, [i \in Work |-> IF i \in Held(c) THEN Patched(row[i], p) ELSE row[i]])

\* BulkService.archive_many; an issue in triage is refused by the table.
ArchiveMany(c) ==
  /\ \A i \in Held(c) : row[i].stage = "live"
  /\ Write(c, [i \in Work |-> IF i \in Held(c) THEN [row[i] EXCEPT !.stage = "archived"] ELSE row[i]])

-----------------------------------------------------------------------------
(* Statements that clear a column of many issues and log nothing.           *)

\* clear_project of a project that goes, unassign_issues of a member who does: the
\* rows its snapshot found; one that began to point at it since may be left over.
Clear(column, S) ==
  /\ S # {} /\ \A i \in S : Filed(i) /\ Free(i) /\ row[i][column] # None
  /\ Cardinality({row[i][column] : i \in S}) = 1
  /\ row' = [i \in Work |-> IF i \in S THEN [row[i] EXCEPT ![column] = None] ELSE row[i]]
  /\ silent' = silent \union (S \X {column})
  /\ UNCHANGED <<counter, told, latest, named, tx, starts>>

-----------------------------------------------------------------------------
(* Requests about one issue.  Its row is held from the first statement to   *)
(* the commit and nothing else is read, so once the row is free that is one  *)
(* step of the transaction.                                                  *)

Move(c, i, stage, r) ==
  /\ Filed(i) /\ Free(i) /\ row[i].stage = stage
  /\ row' = [row EXCEPT ![i] = r]
  /\ RecordState(c, i)
  /\ End(c)
  /\ UNCHANGED <<counter, named, starts>>

Enter(c, i) == Serves(c, {i}) /\ Move(c, i, "live", [row[i] EXCEPT !.stage = "triage"])

Accept(c, i, s) ==
  /\ Serves(c, {i})
  /\ Move(c, i, "triage", [row[i] EXCEPT !.stage = "live", !.state = s, !.dated = Dated(s)])

Decline(c, i) ==
  /\ Serves(c, {i})
  /\ Move(c, i, "triage", [row[i] EXCEPT !.stage = "live", !.state = "canceled", !.dated = TRUE])

\* move_issues_for_automation: forward only, and never out of a terminal state.
Automate(c, i) ==
  /\ Serves(c, {}) /\ Filed(i) /\ row[i].state = "unstarted"
  /\ \E stage \in {"live", "triage"} :
       Move(c, i, stage, [row[i] EXCEPT !.state = "completed", !.dated = Dated("completed")])

Edit(c, i, after) ==
  /\ Serves(c, {i}) /\ Free(i)
  /\ row' = [row EXCEPT ![i] = after]
  /\ RecordChanges(c, {i}, row, row')
  /\ End(c)
  /\ UNCHANGED <<counter, named, starts>>

\* IssueService.update.
Update(c, i, p) == Live(i) /\ p.project = Keep /\ Edit(c, i, Patched(row[i], p))

\* set_project and set_cycle: one column, whatever the stage, and completed_at as it is.
Place(c, i, project) == Filed(i) /\ Edit(c, i, [row[i] EXCEPT !.project = project])

\* IssueService.archive: its entry is about no column.
Archive(i) ==
  /\ Filed(i) /\ Free(i) /\ row[i].stage = "live"
  /\ row' = [row EXCEPT ![i].stage = "archived"]
  /\ UNCHANGED <<counter, told, latest, silent, named, tx, starts>>

\* An error, a lost connection, or PostgreSQL ending a deadlock.
Rollback(c) ==
  /\ Tx(c) /\ End(c)
  /\ UNCHANGED <<counter, row, told, latest, silent, named, starts>>

IssueNext ==
  \/ \E c \in Clients :
       \/ Open(c, {}) \/ ArchiveMany(c) \/ Rollback(c)
       \/ \E t \in Teams : Allocate(c, t)
       \/ \E S \in Batches : Begin(c, S)
       \/ \E p \in Patches : UpdateMany(c, p)
       \/ \E i \in Work :
            \/ Open(c, {i}) \/ LockIssue(c, i) \/ ChangeTeam(c, i)
            \/ Enter(c, i) \/ Decline(c, i) \/ Automate(c, i)
            \/ \E a \in Members \union {None} : Create(c, i, a)
            \/ \E p \in Patches : Update(c, i, p)
            \/ \E project \in Projects \union {None} : Place(c, i, project)
            \/ \E s \in Categories : Accept(c, i, s)
  \/ \E column \in {"assignee", "project"}, S \in SUBSET Work : Clear(column, S)
  \/ \E i \in Work : Archive(i)

IssueSpec == IssueInit /\ [][IssueNext]_issueVars

-----------------------------------------------------------------------------
(* A number names one issue of its team for ever, and none is skipped,      *)
(* although requests that took one roll back and issues change teams.       *)
NumbersIdentify ==
  \A t \in Teams :
    /\ {p[1] : p \in named[t]} = 1..counter[t]
    /\ \A p, q \in named[t] : p[1] = q[1] => p = q

(* The newest activity entry about a column tells what is in it, unless a   *)
(* statement that logs nothing has cleared the column since, or the entry    *)
(* written last is an older one: its transaction began first, and waited.    *)
TheLogTellsTheStory ==
  \A i \in Work, f \in Logged : Filed(i) /\ <<i, f>> \notin silent =>
    told[i][f].to = row[i][f] \/ latest[i][f] < told[i][f].born

Waits(c, d) == tx[c].kind = "bulk" /\ c # d /\ \E i \in Unlocked(c) \intersect Held(d) : \A j \in Unlocked(c) : InOrder(c, i)

(* Bulk edits never wait for each other in a circle of two.                 *)
BulkEditsDoNotDeadlock == \A c, d \in Clients : ~(Waits(c, d) /\ Waits(d, c))

(* An issue whose completion has a date is in a terminal state.             *)
OpenIssuesAreUndated == \A i \in Work : Filed(i) /\ row[i].dated => row[i].state \in Terminal
=============================================================================
