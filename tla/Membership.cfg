SPECIFICATION ReadSpec
CONSTANTS
    ada = ada
    bob = bob
    cyd = cyd
    t1 = t1
    t2 = t2
    Free = Free
    Users <- MCUsers
    Requests <- MCRequests
    Invitations = {i1}
    None = None
    Listing <- ThreeIssues
    SortKeys = {1, 2}
    PageSizes = {1, 2}
    Records <- ThreeIssues
    Keys = {1, 2}
    Place = place
    Firsts = {1, 2}
    Counted <- TwoIssues
    Old = {1, 2}
    Due <- DueDates
    Shares = {"cycle"}
    Span <- OneCycle
    Limit = 1
    Ranges = {1}
    MaxDay = 2
    MaxChanges = 2
    Fields = {f1, f2}
    Slugs = {"u", "v", "w"}
    Joined = {"v", "w"}
    Keyed <- TwoIssues
    Home <- Homes
    Most = 1
    MaxWrites = 1
    Texts <- EveryText
    Fragments = {"f", "g"}
    Bodies <- NineBodies
    Operations <- PairsOfAsks
    DeclaredSize = 2
    ASSUMED_PAGE_SIZE = 3
    MAX_DEPTH = 2
    MAX_ALIASES = 2
    MAX_SELECTIONS = 4
    MAX_COMPLEXITY = 6
SYMMETRY MCSymmetry
INVARIANTS
    TypeOK
    CountedOwnersStayOwners
    ReadsAreComplete
    DocumentsAreCharged
PROPERTIES
    LastOwnerLostOnlyUnseen
    OwnershipComesFromAnOwner
    InvitationBuysOneMembership
    JoiningNeverChangesARole
\* A workspace that has lost every administrator has no next step.
CHECK_DEADLOCK FALSE
