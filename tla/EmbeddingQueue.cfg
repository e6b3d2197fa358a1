SPECIFICATION BackgroundSpec
CONSTANTS
  None = None
  Issues <- OneIssue
  Texts = {x, y}
  Workers = {w1, w2}
  Clients = {c1}
  MaxAttempts = 2
  EnqueueBatch = 1
  Sweepers = {w1, w2}
  Clock <- SomeDays
  Templates = {template}
  Rules <- SomeRules
  RecurrenceBatch = 1
  MaxSaves = 2
  Work <- TwoIssues
  LeadDays = 1
  ReminderBatch = 1
  MaxLosses = 1
  DueClock <- ThreeDays
  Dates <- OneDate
  Runners = {r1, r2}
  Checkouts <- SomeCheckouts
  Aspects = {"columns", "index"}
  Backlog <- TwoIssues
  Wording = {x}
  Loner = {w1}
INVARIANTS VectorsAreHonest AttemptsStaySmall BackgroundTypeOK SchemaIsWhatTheLedgerSays
PROPERTIES AttemptsAreNotDiscarded EveryIssueSettles BacklogSettles SchedulesAreKept DueIssuesAreReminded
