------------------------------ MODULE Tracker ------------------------------
(***************************************************************************)
(* Components that keep tables of their own and meet only through keys      *)
(* that no step of the others moves.  They are put side by side, one to a   *)
(* behaviour: "part" names the one that moves.                              *)
(***************************************************************************)
EXTENDS Integers, FiniteSets

CONSTANTS
  None, Clients,
  Work, Teams, Members, Projects, Patches, Batches, MaxNumber, MaxStarts,
  Emails, Ips, Tokens, Window, Lifetime, EmailBudget, IpBudget, RegisterBudget, MaxNow, MaxTries,
  Editors, Texts, Comments, MaxRevisions,
  Mentioned, MaxEvents, MaxMoves,
  Workspaces, Installations, Repositories, Deliveries, Ttl,
  Channels,
  Tags, Groups, Bundles, Cap,
  People, Creator, Writers, MaxNews,
  Commits, Slots, Cutters, RangeLimit,
  Healths, Reporters, MaxReports,
  Boards, Filters, Unset,
  Providers, Logins, Owner, Tenants, Granted, Answers, Callbacks, MaxBegun,
  Targets, Ids, Deleters, MaxRefs,
  Drafts, Squads, Menders, Appliers,
  Pair, Linkers,
  Covered, Listings, Admins, StartedStates, CompletedStates,
  Crews, Sized, Sprints, Numerals, LastInstant, Units, Guesses, Founders, MaxStrokes,
  Plans, Milestones, Placeable, Planners, Wanted, MaxPosition,
  Colleagues, Shares

VARIABLES
  part,
  counter, row, told, latest, silent, named, tx, starts,
  now, accounts, session, bucket, attempt, admitted, tries,
  document, revisions, comments, request, owed, born,
  history, spent, tracked, stored, linked, category, live, announced, applied, moved, redone, moves,
  claim, repositories, delivery, overtaken,
  connected, known, offered, default, refresh, choice, between, recent,
  exclusive, group, copy, worn, single, ask,
  here, assignee, watching, inbox, unread, writing, leaving, sent, heard, since,
  commits, release, cutting, deployments, last, reach, excused,
  health, log, report, reported, ticks,
  present, serving, view, star, deleting, departing, wrote, hidden,
  provider, signed, ended, jar, begun, answer, codes, callback, joined, undone,
  target, exists, refs, deletions, added, refused,
  template, labels, schedule, edits, applying, filed, saved, retargeted,
  edges, linking, queued, copies,
  selected, released, saving, rules, detached,
  crew, sprint, sheet, sizing, unfit, strokes,
  plans, milestone, place, planner, together, shifted,
  member, holder, acting, probed, later

Issues      == INSTANCE IssueTracking
Entering    == INSTANCE Accounts
Editing     == INSTANCE Documents
Pulls       == INSTANCE GithubPulls WITH Work <- Mentioned, again <- redone
Installing  == INSTANCE GithubInstallations WITH row <- claim, listed <- repositories
Refreshing  == INSTANCE SlackChannels WITH shown <- offered
Labelling   == INSTANCE Labels WITH Work <- Mentioned
Hearing     == INSTANCE Inbox WITH told <- heard
Releasing   == INSTANCE Releases WITH stored <- commits
Reporting   == INSTANCE HealthReports
Viewing     == INSTANCE SavedViews WITH here <- present, leaving <- departing, since <- wrote, admitted <- serving
Connecting  == INSTANCE Handshakes WITH Accounts <- Granted, Sessions <- Logins, spent <- codes, linked <- joined
Deleting    == INSTANCE Deletions WITH tx <- deletions, since <- added
Shaping     == INSTANCE Templates WITH tx <- edits, moved <- retargeted, applied <- applying
Relating    == INSTANCE Relations
Selecting   == INSTANCE Tracking WITH tracked <- selected
Founding    == INSTANCE TeamBoards
Placing     == INSTANCE Planning
Holding     == INSTANCE Holdings

issueVars == <<counter, row, told, latest, silent, named, tx, starts>>
accountVars == <<now, accounts, session, bucket, attempt, admitted, tries>>
documentVars == <<document, revisions, comments, request, owed, born>>
pullVars == <<history, spent, tracked, stored, linked, category, live, announced, applied, moved, redone, moves>>
installationVars == <<claim, repositories, delivery, overtaken>>
channelVars == <<connected, known, offered, default, refresh, choice, between, recent>>
labelVars == <<exclusive, group, copy, worn, single, ask>>
inboxVars == <<here, assignee, watching, inbox, unread, writing, leaving, sent, heard, since>>
releaseVars == <<commits, release, cutting, deployments, last, reach, excused>>
healthVars == <<health, log, report, reported, ticks>>
viewVars == <<present, serving, view, star, deleting, departing, wrote, hidden>>
handshakeVars == <<provider, signed, ended, jar, begun, answer, codes, callback, joined, undone>>
deletionVars == <<target, exists, refs, deletions, added, refused>>
templateVars == <<template, labels, schedule, edits, applying, filed, saved, retargeted>>
relationVars == <<edges, linking, queued, copies>>
trackingVars == <<selected, released, saving, rules, detached>>
boardVars == <<crew, sprint, sheet, sizing, unfit, strokes>>
planVars == <<plans, milestone, place, planner, together, shifted>>
holdingVars == <<member, holder, acting, probed, later>>
vars == <<part, issueVars, accountVars, documentVars, pullVars, installationVars, channelVars, labelVars, inboxVars, releaseVars, healthVars, viewVars, handshakeVars, deletionVars, templateVars, relationVars, trackingVars, boardVars, planVars, holdingVars>>

Parts == {"issues", "accounts", "documents", "pulls", "installations", "channels", "labels", "inbox", "releases", "health", "views", "handshakes", "deletions", "templates", "relations", "tracking", "boards", "plans", "holdings"}

-----------------------------------------------------------------------------
Init ==
  /\ part \in Parts
  /\ Issues!IssueInit
  /\ Entering!AccountInit /\ Editing!DocumentInit /\ Pulls!PullInit
  /\ Installing!InstallationInit /\ Refreshing!ChannelInit
  /\ Labelling!LabelInit /\ (part # "labels" => \A g \in Groups : exclusive[g])
  /\ Hearing!InboxInit
  /\ Releasing!ReleaseInit
  /\ Reporting!HealthInit
  /\ Viewing!ViewInit
  /\ Connecting!HandshakeInit /\ (part # "handshakes" => provider = "github")
  /\ Deleting!DeletionInit /\ (part # "deletions" => target = "project")
  /\ Shaping!TemplateInit
  /\ Relating!RelationInit
  /\ Selecting!TrackingInit
  /\ Founding!BoardInit
  /\ Placing!PlanInit
  /\ Holding!HoldingInit

\* A component takes a step of its own, or rests.
Next ==
  /\ UNCHANGED part
  /\ \/ part = "issues" /\ Issues!IssueNext
     \/ part # "issues" /\ UNCHANGED issueVars
  /\ \/ part = "accounts" /\ Entering!AccountNext
     \/ part # "accounts" /\ UNCHANGED accountVars
  /\ \/ part = "documents" /\ Editing!DocumentNext
     \/ part # "documents" /\ UNCHANGED documentVars
  /\ \/ part = "pulls" /\ Pulls!PullNext
     \/ part # "pulls" /\ UNCHANGED pullVars
  /\ \/ part = "installations" /\ Installing!InstallationNext
     \/ part # "installations" /\ UNCHANGED installationVars
  /\ \/ part = "channels" /\ Refreshing!ChannelNext
     \/ part # "channels" /\ UNCHANGED channelVars
  /\ \/ part = "labels" /\ Labelling!LabelNext
     \/ part # "labels" /\ UNCHANGED labelVars
  /\ \/ part = "inbox" /\ Hearing!InboxNext
     \/ part # "inbox" /\ UNCHANGED inboxVars
  /\ \/ part = "releases" /\ Releasing!ReleaseNext
     \/ part # "releases" /\ UNCHANGED releaseVars
  /\ \/ part = "health" /\ Reporting!HealthNext
     \/ part # "health" /\ UNCHANGED healthVars
  /\ \/ part = "views" /\ Viewing!ViewNext
     \/ part # "views" /\ UNCHANGED viewVars
  /\ \/ part = "handshakes" /\ Connecting!HandshakeNext
     \/ part # "handshakes" /\ UNCHANGED handshakeVars
  /\ \/ part = "deletions" /\ Deleting!DeletionNext
     \/ part # "deletions" /\ UNCHANGED deletionVars
  /\ \/ part = "templates" /\ Shaping!TemplateNext
     \/ part # "templates" /\ UNCHANGED templateVars
  /\ \/ part = "relations" /\ Relating!RelationNext
     \/ part # "relations" /\ UNCHANGED relationVars
  /\ \/ part = "tracking" /\ Selecting!TrackingNext
     \/ part # "tracking" /\ UNCHANGED trackingVars
  /\ \/ part = "boards" /\ Founding!BoardNext
     \/ part # "boards" /\ UNCHANGED boardVars
  /\ \/ part = "plans" /\ Placing!PlanNext
     \/ part # "plans" /\ UNCHANGED planVars
  /\ \/ part = "holdings" /\ Holding!HoldingNext
     \/ part # "holdings" /\ UNCHANGED holdingVars

Spec == Init /\ [][Next]_vars

-----------------------------------------------------------------------------
(* What the components assume of their constants.                           *)
ASSUME LegalConstants ==
  /\ Issues!LegalIssueConstants
  /\ Entering!LegalAccountConstants
  /\ Editing!LegalDocumentConstants
  /\ Pulls!LegalPullConstants
  /\ Installing!LegalInstallationConstants
  /\ Refreshing!LegalChannelConstants
  /\ Labelling!LegalLabelConstants
  /\ Hearing!LegalInboxConstants
  /\ Releasing!LegalReleaseConstants
  /\ Reporting!LegalHealthConstants
  /\ Viewing!LegalViewConstants
  /\ Connecting!LegalHandshakeConstants
  /\ Deleting!LegalDeletionConstants
  /\ Shaping!LegalTemplateConstants
  /\ Relating!LegalRelationConstants
  /\ Selecting!LegalTrackingConstants
  /\ Founding!LegalBoardConstants
  /\ Placing!LegalPlanConstants
  /\ Holding!LegalHoldingConstants

(* Every table of the part that moves is well typed.                        *)
TypeOK ==
  /\ part = "issues" => Issues!IssueTypeOK
  /\ part = "accounts" => Entering!AccountTypeOK
  /\ part = "documents" => Editing!DocumentTypeOK
  /\ part = "pulls" => Pulls!PullTypeOK
  /\ part = "installations" => Installing!InstallationTypeOK
  /\ part = "channels" => Refreshing!ChannelTypeOK
  /\ part = "labels" => Labelling!LabelTypeOK
  /\ part = "inbox" => Hearing!InboxTypeOK
  /\ part = "releases" => Releasing!ReleaseTypeOK
  /\ part = "health" => Reporting!HealthTypeOK
  /\ part = "views" => Viewing!ViewTypeOK
  /\ part = "handshakes" => Connecting!HandshakeTypeOK
  /\ part = "deletions" => Deleting!DeletionTypeOK
  /\ part = "templates" => Shaping!TemplateTypeOK
  /\ part = "relations" => Relating!RelationTypeOK
  /\ part = "tracking" => Selecting!TrackingTypeOK
  /\ part = "boards" => Founding!BoardTypeOK
  /\ part = "plans" => Placing!PlanTypeOK
  /\ part = "holdings" => Holding!HoldingTypeOK

(* Each of a team's numbers names one issue, for ever, though creations and *)
(* moves roll back.                                                         *)
NumbersIdentify == part = "issues" => Issues!NumbersIdentify

(* An issue that is not done has no completion date, migration 031 says: not*)
(* so where triage hands a finished issue to another team.                  *)
OpenIssuesAreUndated == part = "issues" => Issues!OpenIssuesAreUndated

(* The newest entry of an issue's activity tells what is in the column,     *)
(* but for the statements that clear one and log nothing, and for a request *)
(* that wrote after one that began later.                                   *)
TheLogTellsTheStory == part = "issues" => Issues!TheLogTellsTheStory

(* Two bulk edits never wait for each other; two deletions only for a       *)
(* reference added since one began, which is also all that refuses one.     *)
RowsAreTakenInOrder ==
  /\ part = "issues" => Issues!BulkEditsDoNotDeadlock
  /\ part = "deletions" => Deleting!DeletionsDoNotDeadlock /\ Deleting!RefusedForAReason

(* A stretch of one window's length lets pass twice the budget at most.     *)
AttemptsAreBudgeted == part = "accounts" => Entering!AttemptsAreBudgeted

(* A document's version handed over, left to rest or snapshotted is in the  *)
(* history.  A template is one of its drafts, and so is what is filed from  *)
(* it, as far as it goes; its schedule files into its team.                 *)
EditsAreKeptWhole ==
  /\ part = "documents" => Editing!NoVersionIsLost
  /\ part = "templates" => /\ Shaping!TemplateIsOneDraft /\ Shaping!ScheduleFits
                           /\ Shaping!IssueFollowsOneDraft

(* A pull request's row and links are those of the newest version applied, *)
(* and a repeated delivery moves no issue again.                            *)
PullRequestsAreFollowed ==
  part = "pulls" => Pulls!TheRowIsTheNewestVersion /\ Pulls!DeliveriesActOnce

(* A workspace lists the repositories of the installation GitHub confirmed  *)
(* for it, but for a delivery that had found it before it let go of another  *)
(* one: that lists late, even under a claim nobody confirmed.  A channel is  *)
(* offered only if the last refresh, or one it met, listed it, and the one   *)
(* messages go to is still there.  A workspace was connected by who began    *)
(* the handshake, as the provider confirmed; and no selection untracks a     *)
(* repository a release named when it began.                                 *)
ListingsWereConfirmed ==
  /\ part = "handshakes" => Connecting!ConnectedAsBegun /\ Connecting!ConfirmedByAGrant
  /\ part = "installations" => Installing!ForeignRepositoriesWereInFlight
  /\ part = "channels" => Refreshing!ShownChannelsWereListed /\ Refreshing!DefaultIsKept
  /\ part = "tracking" => Selecting!ReleasedStayTracked

(* No issue wears two labels of an exclusive group; and labels attached one *)
(* at a time pass the cap by no more than the attaches under way.  Relations*)
(* read at each end as they were named, and of two issues one is an original.*)
(* An issue's cycle is its team's, cycles of a team do not overlap, a team  *)
(* is seen with its board, and an estimate means something on its scale.    *)
(* An issue stands at a milestone of its project, and milestones in order.  *)
AnnotationsAreKept ==
  /\ part = "labels" => Labelling!OneLabelOfAnExclusiveGroup /\ Labelling!CapIsNearlyKept
  /\ part = "relations" => Relating!RelationsReadAsNamed /\ Relating!OriginalsStay
  /\ part = "boards" => Founding!CyclesAreTheTeams /\ Founding!BoardsAreWhole /\ Founding!EstimatesFit
  /\ part = "plans" => Placing!PlacesAreThere /\ Placing!MilestonesAreAppended

(* Who left hears nothing that was told after, and keeps no subscription,   *)
(* favourite or view but what was written while they went; a favourite      *)
(* points at a view one could see, and a view filters as it was saved.  Nor *)
(* do they lead a project or hold a connection, but what was given them late.*)
LeaversKeepNothing ==
  /\ part = "inbox" => Hearing!LeaversHearNothing
  /\ part = "views" => /\ Viewing!LeaversOwnNothing /\ Viewing!StarsWereVisible
                       /\ Viewing!ViewsReadAsSaved
  /\ part = "holdings" => Holding!LeaversHoldNothing

(* Work behind a commit that reached an environment was announced, or there *)
(* is a reason why not.                                                     *)
MissingWorkHasAReason == part = "releases" => Releasing!MissingWorkHasAReason

(* A project's health is its newest report's, but for reports that overlap. *)
HealthFollowsTheLog == part = "health" => Reporting!HealthFollowsTheLog
=============================================================================
