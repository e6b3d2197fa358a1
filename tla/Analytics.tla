----------------------------- MODULE Analytics -----------------------------
(***************************************************************************)
(* The analytics page: twelve statements, each with a snapshot of its own,  *)
(* while issues are filed, finished, reopened and moved.  A panel is the    *)
(* set of issues it counts; a day is a UTC date.                            *)
(***************************************************************************)
EXTENDS Integers, FiniteSets, Sequences

CONSTANTS
  Counted,     \* issues
  Old,         \* those filed before the instance begins, unless none is
  Due,         \* the due date of each
  Shares,      \* what an issue may be part of: it stands for its team, of which None
               \* is one more, and for its assignee, project and cycle
  Span,        \* first and last day of each, as a cycle
  Limit,       \* WORKLOAD_LIMIT, TEAM_LIMIT, PROJECT_LIMIT, CYCLE_LIMIT
  Ranges,      \* days asked for
  MaxDay, MaxChanges,
  None

VARIABLES
  day,      \* the clock
  fact,     \* issues
  page,     \* today and range_start, as the request has read them, and days
  at,       \* statements run
  panel,    \* what they answered
  touched,  \* history: issues changed since the page was begun
  changes

analyticsVars == <<day, fact, page, at, panel, touched, changes>>

LegalAnalyticsConstants ==
  /\ Old \subseteq Counted /\ IsFiniteSet(Counted)
  /\ Due \in [Counted -> Int] /\ Span \in [Shares -> Int \X Int] /\ None \notin Shares \union Int
  /\ Limit \in Nat \ {0} /\ Ranges \subseteq Nat \ {0} /\ MaxDay \in Nat \ {0} /\ MaxChanges \in Nat

TERMINAL == {"completed", "canceled"}
Categories == {"unstarted", "started"} \union TERMINAL
FactType == [created : 1..MaxDay, category : Categories, completed_at : (1..MaxDay) \union {None},
             archived : BOOLEAN, part : Shares \union {None}]
Statements == <<"creation", "completion", "lead_time", "cycle_time", "issue_age", "state_mix", "priority_mix",
                "workload", "overdue", "teams", "projects", "cycles">>
Run == {Statements[n] : n \in 1..at}

AnalyticsTypeOK ==
  /\ day \in 1..MaxDay /\ at \in 0..Len(Statements) /\ changes \in 0..MaxChanges /\ touched \subseteq Counted
  /\ fact \in [Counted -> FactType \union {None}]
  /\ page # None => page.days \in Ranges /\ page.today \in 1..day /\ page.start = page.today - page.days + 1
  /\ DOMAIN panel = Run

Filed(s) == [created |-> day, category |-> "unstarted", completed_at |-> None, archived |-> FALSE, part |-> s]

AnalyticsInit ==
  /\ day = 1
  /\ \E T \in {{}, Old} : \E s \in [T -> Shares \union {None}] :
       fact = [i \in Counted |-> IF i \in T THEN Filed(s[i]) ELSE None]
  /\ page = None /\ at = 0
  /\ panel = [s \in {} |-> {}] /\ touched = {} /\ changes = 0

-----------------------------------------------------------------------------
(* Issues, as IssueTracking has them in detail.                             *)

Live(i) == fact[i] # None /\ ~fact[i].archived
Becomes(i, f) ==
  /\ at < Len(Statements) /\ changes < MaxChanges /\ changes' = changes + 1
  /\ fact' = [fact EXCEPT ![i] = f]
  /\ touched' = IF page = None THEN {} ELSE touched \union {i}
  /\ UNCHANGED <<day, page, at, panel>>

File(i, s) == fact[i] = None /\ Becomes(i, Filed(s))
\* A move stamps completed_at, keeps the stamp it finds, or clears it.
Move(i, c) ==
  /\ Live(i) /\ c # fact[i].category
  /\ Becomes(i, [fact[i] EXCEPT !.category = c,
       !.completed_at = IF c \notin TERMINAL THEN None ELSE IF @ = None THEN day ELSE @])
\* change_team, from triage, leaves it alone.
ChangeTeam(i, s) == Live(i) /\ Becomes(i, [fact[i] EXCEPT !.category = "unstarted", !.part = s])
Share(i, s) == Live(i) /\ s # fact[i].part /\ Becomes(i, [fact[i] EXCEPT !.part = s])
Archive(i) == Live(i) /\ Becomes(i, [fact[i] EXCEPT !.archived = TRUE])
Midnight == day < MaxDay /\ day' = day + 1 /\ UNCHANGED <<fact, page, at, panel, touched, changes>>

-----------------------------------------------------------------------------
\* analytics_window: the last of `days` days is today.
analytics_window(days, today) == today - (days - 1)
\* window_bounds, half-open.
window_bounds == [start |-> page.start, end |-> page.start + page.days]
Within(d) == d # None /\ window_bounds.start <= d /\ d < window_bounds.end

\* _STATE_JOIN, and the conditions the statements share.
Issues == {i \in Counted : fact[i] # None}
Alive == {i \in Counted : Live(i)}
Open == {i \in Alive : fact[i].category \notin TERMINAL}
Stopped(c) == {i \in Issues : Within(fact[i].completed_at) /\ fact[i].category = c}

creation_series == {<<i, fact[i].created>> : i \in {j \in Issues : Within(fact[j].created)}}
completion_series == UNION {{<<i, fact[i].completed_at, c>> : i \in Stopped(c)} : c \in TERMINAL}
\* dense_throughput, and throughput_totals after it, keep the days of the window.
dense_throughput(rows) == {r \in rows : \E n \in 0..(page.days - 1) : r[2] = page.start + n}

lead_time == Stopped("completed")
cycle_time == {i \in Issues : Within(fact[i].completed_at)} \intersect {i \in Issues : fact[i].category = "completed"}
issue_age == Open
priority_mix == UNION {{i \in Open : fact[i].part = s} : s \in Shares \union {None}}
state_mix == {<<i, fact[i].category>> : i \in Alive}
overdue(today) == {i \in Alive : fact[i].completed_at = None /\ Due[i] < today}
team_completion == {i \in Issues : fact[i].category = "completed" /\ Within(fact[i].completed_at)}
project_progress == {i \in Alive : fact[i].part # None}
cycle_progress ==
  {i \in project_progress : LET s == Span[fact[i].part] IN s[1] < window_bounds.end /\ s[2] >= window_bounds.start}

\* The groups of a panel, the first of them up to the limit, and their number.
Groups(S) == {fact[i].part : i \in S}
Size(S, g) == Cardinality({i \in S : fact[i].part = g})
BySize(S) == [g \in Groups(S) |-> Size(S, g)]
ByStart(S) == [g \in Groups(S) |-> Span[g][1]]
\* ORDER BY rank DESC LIMIT: a tie is broken by a key, which is left open.
First(S, rank, T) ==
  /\ T \subseteq Groups(S)
  /\ Cardinality(T) = IF Cardinality(Groups(S)) < Limit THEN Cardinality(Groups(S)) ELSE Limit
  /\ \A g \in T, h \in Groups(S) \ T : rank[g] >= rank[h]
Cut(S, rank) == {[total |-> Cardinality(Groups(S)), of |-> {i \in S : fact[i].part \in T}] :
                   T \in {T \in SUBSET Groups(S) : First(S, rank, T)}}

Answers(s) ==
  CASE s = "creation" -> {creation_series} [] s = "completion" -> {completion_series}
    [] s = "lead_time" -> {lead_time} [] s = "cycle_time" -> {cycle_time}
    [] s = "issue_age" -> {issue_age} [] s = "state_mix" -> {state_mix}
    [] s = "priority_mix" -> {priority_mix} [] s = "workload" -> Cut(Open, BySize(Open))
    [] s = "overdue" -> {overdue(page.today)} [] s = "teams" -> Cut(team_completion, BySize(team_completion))
    [] s = "projects" -> Cut(project_progress, BySize(project_progress))
    [] s = "cycles" -> Cut(cycle_progress, ByStart(cycle_progress))

\* overview: the clock is read once, and the statements run in this order.
Begin(days) ==
  /\ page = None
  /\ page' = [today |-> day, start |-> analytics_window(days, day), days |-> days]
  /\ UNCHANGED <<day, fact, at, panel, touched, changes>>

overview ==
  /\ page # None /\ at < Len(Statements) /\ at' = at + 1
  /\ \E a \in Answers(Statements[at + 1]) :
       panel' = [s \in Run \union {Statements[at + 1]} |-> IF s \in Run THEN panel[s] ELSE a]
  /\ UNCHANGED <<day, fact, page, touched, changes>>

AnalyticsNext ==
  \/ \E i \in Counted :
       \/ \E s \in Shares \union {None} : File(i, s) \/ Share(i, s) \/ ChangeTeam(i, s)
       \/ \E c \in Categories : Move(i, c)
       \/ Archive(i)
  \/ Midnight
  \/ \E n \in Ranges : Begin(n)
  \/ overview

AnalyticsSpec == AnalyticsInit /\ [][AnalyticsNext]_analyticsVars

-----------------------------------------------------------------------------
(* The panels that count the same issues by statements of their own differ  *)
(* by issues changed while the page was read, and by nothing else: not by   *)
(* a midnight that passes, nor by groups beyond a limit that is not reached.*)
(* A table that is cut, of teams say, shows some of what the others count.  *)
Agree(S, T) == (S \ T) \union (T \ S) \subseteq touched
Completed(rows) == {r[1] : r \in {q \in rows : q[3] = "completed"}}
StillOpen(rows) == {r[1] : r \in {q \in rows : q[2] \notin TERMINAL}}
PanelsAgree == at = Len(Statements) =>
  /\ Agree(Completed(dense_throughput(panel["completion"])), panel["lead_time"])
  /\ Agree(panel["lead_time"], panel["cycle_time"])
  /\ Agree(panel["issue_age"], panel["priority_mix"]) /\ Agree(panel["issue_age"], StillOpen(panel["state_mix"]))
  /\ panel["workload"].total <= Limit => Agree(panel["workload"].of, panel["issue_age"])
  /\ panel["workload"].of \subseteq panel["issue_age"] \union touched
  /\ panel["teams"].total <= Limit => Agree(panel["teams"].of, panel["cycle_time"])
  /\ panel["teams"].of \subseteq panel["cycle_time"] \union touched
  /\ panel["overdue"] \subseteq panel["issue_age"] \union touched
  /\ panel["projects"].of \union panel["cycles"].of \subseteq {r[1] : r \in panel["state_mix"]} \union touched

(* Every row the series' statements count falls on a day of the chart.      *)
ChartHoldsEveryRow ==
  \A s \in Run \intersect {"creation", "completion"} : dense_throughput(panel[s]) = panel[s]
=============================================================================
