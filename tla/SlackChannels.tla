--------------------------- MODULE SlackChannels ---------------------------
(***************************************************************************)
(* The channel list of one workspace.  A refresh asks Slack with no         *)
(* connection held and then records the answer in one transaction: it       *)
(* upserts what was listed, and then hides whatever else it finds shown.    *)
(* Rows it has written are locked until it commits, unseen by the others.   *)
(***************************************************************************)

CONSTANTS
  Channels,   \* the channels of the Slack workspace
  Clients,    \* administrators at work at once
  None        \* nobody, no channel

VARIABLES
  connected,  \* slack_installations holds a row
  known,      \* slack_channels: rows that are committed
  shown,      \* those that are accessible
  default,    \* slack_notification_settings
  refresh,    \* sync_channels, by client
  choice,     \* set_default_channel: the channel it has read
  between,    \* history: what refreshes listed that committed since a client looked
  recent      \* history: what the last refresh listed, and those it met

channelVars == <<connected, known, shown, default, refresh, choice, between, recent>>

LegalChannelConstants == None \notin Channels

Idle == [stage |-> "idle", list |-> {}, others |-> {}]
ChannelTypeOK ==
  /\ connected \in BOOLEAN
  /\ shown \subseteq known /\ known \subseteq Channels /\ default \in known \union {None}
  /\ refresh \in [Clients -> [stage : {"idle", "listed", "written", "hiding"},
                              list : SUBSET Channels, others : SUBSET Channels]]
  /\ choice \in Channels \union {None}
  /\ between \in [Clients -> SUBSET Channels] /\ recent \subseteq Channels

ChannelInit ==
  /\ connected = FALSE /\ known = {} /\ shown = {} /\ default = None
  /\ refresh = [c \in Clients |-> Idle] /\ choice = None
  /\ between = [c \in Clients |-> {}] /\ recent = {}

Writing(c) == refresh[c].stage \in {"written", "hiding"}
Locked(c) == UNION {refresh[d].list : d \in {d \in Clients \ {c} : Writing(d)}}

-----------------------------------------------------------------------------
\* connect: an upsert, so channels and choices stay.
Connect ==
  /\ ~connected /\ connected' = TRUE
  /\ UNCHANGED <<known, shown, default, refresh, choice, between, recent>>

\* disconnect: the dependents first.  A refresh that has written holds rows of
\* theirs and of the installation: the deletion waits for it, or fails.
Disconnect ==
  /\ connected /\ \A c \in Clients : ~Writing(c)
  /\ connected' = FALSE /\ known' = {} /\ shown' = {} /\ default' = None /\ recent' = {}
  /\ UNCHANGED <<refresh, choice, between>>

\* conversations_list: whatever Slack lists at that moment.
List(c, S) ==
  /\ connected /\ refresh[c].stage = "idle"
  /\ refresh' = [refresh EXCEPT ![c] = [Idle EXCEPT !.stage = "listed", !.list = S]]
  /\ UNCHANGED <<connected, known, shown, default, choice, between, recent>>

\* The first statement of replace_channels waits for the rows it names.
Upsert(c) ==
  /\ refresh[c].stage = "listed" /\ connected
  /\ refresh[c].list \intersect Locked(c) = {}
  /\ refresh' = [refresh EXCEPT ![c].stage = "written"]
  /\ UNCHANGED <<connected, known, shown, default, choice, between, recent>>

\* Mutant: rows that another refresh holds are skipped.
LookPast(c) == shown \ (refresh[c].list \union Locked(c))
\* What the second statement finds shown, and committed, when it starts.
Others(c) == shown \ refresh[c].list

Look(c) ==
  /\ refresh[c].stage = "written"
  /\ refresh' = [refresh EXCEPT ![c].stage = "hiding", ![c].others = Others(c)]
  /\ UNCHANGED <<connected, known, shown, default, choice, between, recent>>

\* It waits for those rows, hides the ones still shown, and the refresh commits.
Hide(c) ==
  LET r == refresh[c] IN
  /\ r.stage = "hiding" /\ r.others \intersect Locked(c) = {}
  /\ known' = known \union r.list
  /\ shown' = (shown \ r.others) \union r.list
  /\ recent' = r.list \union between[c]
  /\ between' = [d \in Clients |-> IF d # c /\ refresh[d].stage = "hiding" THEN between[d] \union r.list ELSE {}]
  /\ refresh' = [refresh EXCEPT ![c] = Idle]
  /\ UNCHANGED <<connected, default, choice>>

\* Slack does not answer, or the transaction ends early: a deadlock, a disconnection.
Fail(c) ==
  /\ refresh[c].stage # "idle" /\ refresh' = [refresh EXCEPT ![c] = Idle]
  /\ between' = [between EXCEPT ![c] = {}]
  /\ UNCHANGED <<connected, known, shown, default, choice, recent>>

\* set_default_channel: find_channel, and the upsert of the choice afterwards.
Choose(x) ==
  /\ connected /\ choice = None /\ x \in shown
  /\ choice' = x
  /\ UNCHANGED <<connected, known, shown, default, refresh, between, recent>>

\* Mutant: no foreign key refuses a channel that is gone.
ChosenGone == choice
\* The foreign key wants the row of the channel, hidden or not.
Chosen == IF choice \in known THEN choice ELSE default

Settle ==
  /\ choice # None /\ choice' = None
  /\ default' = Chosen
  /\ UNCHANGED <<connected, known, shown, refresh, between, recent>>

ChannelNext ==
  \/ Connect \/ Disconnect
  \/ \E c \in Clients :
       \/ \E S \in SUBSET Channels : List(c, S)
       \/ Upsert(c) \/ Look(c) \/ Hide(c) \/ Fail(c)
  \/ \E x \in Channels : Choose(x)
  \/ Settle

ChannelSpec == ChannelInit /\ [][ChannelNext]_channelVars

-----------------------------------------------------------------------------
(* A channel is offered only if the last refresh listed it, or one that     *)
(* committed while that refresh was waiting to hide the rest: no refresh    *)
(* leaves behind what an earlier one had shown.                             *)
ShownChannelsWereListed == shown \subseteq recent

(* The channel messages go to is one the connection knows, although it was  *)
(* looked up in one statement and chosen in a later one: a disconnection in  *)
(* between takes the choice away.                                            *)
DefaultIsKept == default # None => connected /\ default \in known
=============================================================================
