CONSTANTS
  None = None
  Clients = {c1, c2}
  Work <- TwoIssues
  Teams = {"eng", "des"}
  Members = {}
  Projects = {apollo}
  Patches <- SomePatches
  Batches <- AllBatches
  MaxNumber <- Numbers
  MaxStarts = 4
  Emails = {email}
  Ips = {ip}
  Tokens = {token}
  Window = 2
  Lifetime = 1
  EmailBudget = 1
  IpBudget = 2
  RegisterBudget = 1
  MaxNow = 3
  MaxTries = 5
  Editors = {ada, bob}
  Texts = {x1, x2}
  Comments = {m1}
  MaxRevisions = 2
  Mentioned = {issue}
  MaxEvents = 3
  MaxMoves = 1
  Workspaces = {v1, v2}
  Installations = {"acme", "zeta"}
  Repositories <- RepositoriesOf
  Deliveries = {d1}
  Ttl = 1
  Channels = {general, random}
  Tags = {"bug", "chore", "urgent"}
  Groups = {"kind"}
  Bundles <- OneBundle
  Cap = 1
  Commits <- TwoIssues
  Slots <- ThreeIssues
  Cutters = {q1}
  RangeLimit = 1
  Healths = {"onTrack", "atRisk"}
  Reporters = {c1, c2}
  MaxReports = 3
  People = {ada, bob}
  Creator = ada
  Writers = {q1}
  MaxNews = 1
  Boards = {1}
  Filters <- OneFilter
  Unset = Unset
  Providers = {"github", "slack"}
  Logins = {"sa", "sb"}
  Owner <- OwnerOf
  Tenants = {v1, v2}
  Granted = {"acme", "zeta"}
  Answers <- TwoAnswers
  Callbacks = {q1, q2}
  MaxBegun = 2
  Targets = {"project", "initiative", "template", "cycle", "label"}
  Ids = {1}
  Deleters = {q1, q2}
  MaxRefs = 2
  Drafts <- TwoDrafts
  Squads = {"eng", "des"}
  Menders = {q1, q2}
  Appliers = {c1}
  Pair <- TwoIssues
  Linkers = {q1, q2}
  Covered = {1, 2}
  Listings <- ThreeListings
  Admins = {q1, q2}
  StartedStates = {1}
  CompletedStates = {}
  Crews = {"eng", "des"}
  Sized = {1}
  Sprints = {1, 2}
  Numerals = {1, 2}
  LastInstant = 2
  Units = {"none", "tshirt"}
  Guesses = {0, 3}
  Founders = {q1}
  MaxStrokes = 3
  Plans = {"apollo", "gemini"}
  Milestones = {"alpha", "beta"}
  Placeable = {1}
  Planners = {q1, q2}
  Wanted = {1}
  MaxPosition = 1
  Colleagues = {ada, bob}
  Shares = {"projects_lead_fk", "saved_views_creator_fk", "github_installations_connected_by_fk"}
SPECIFICATION Spec
INVARIANT OpenIssuesAreUndated
CHECK_DEADLOCK FALSE
