------------------------------- MODULE Reads -------------------------------
(***************************************************************************)
(* Membership, which says who may read, and what is read: the pages of      *)
(* issues, every other list, the analytics page, and a GraphQL document's   *)
(* price and batches.  They share no table that a read writes, so they are   *)
(* put side by side, one to a behaviour: "part" names the one that moves.   *)
(***************************************************************************)
EXTENDS Membership, Integers

CONSTANTS
  None,
  Listing, SortKeys, PageSizes,
  Records, Keys, Place, Firsts,
  Counted, Old, Due, Shares, Span, Limit, Ranges, MaxDay, MaxChanges,
  Fields, Slugs, Joined, Keyed, Home, Most, MaxWrites,
  Texts, Fragments, Bodies, Operations, DeclaredSize,
  ASSUMED_PAGE_SIZE, MAX_DEPTH, MAX_ALIASES, MAX_SELECTIONS, MAX_COMPLEXITY

VARIABLES
  part,
  key, listed, descending, cursor, shown, repeated, steady,
  list, rec, asked, resume, got, twice, replaced, stable,
  day, fact, page, at, panel, touched, changes,
  loader, hang, alive, viewer, field, cache, flights, truth, writes,
  fragment, operation, measured, price, broken

Pages   == INSTANCE KeysetPages WITH Work <- Listing
Walking == INSTANCE Lists
Drawing == INSTANCE Analytics
Asking  == INSTANCE GraphqlRequests
Pricing == INSTANCE OperationLimits

membershipVars == vars
pageVars == <<key, listed, descending, cursor, shown, repeated, steady>>
listVars == <<list, rec, asked, resume, got, twice, replaced, stable>>
analyticsVars == <<day, fact, page, at, panel, touched, changes>>
graphqlVars == <<loader, hang, alive, viewer, field, cache, flights, truth, writes>>
limitVars == <<fragment, operation, measured, price, broken>>
readVars == <<part, membershipVars, pageVars, listVars, analyticsVars, graphqlVars, limitVars>>

ReadInit ==
  /\ part \in {"membership", "pages", "lists", "analytics", "requests", "prices"}
  /\ Init
  /\ Pages!PageInit /\ (part # "pages" => descending /\ \A i \in Listing : key[i] = None)
  /\ Walking!ListInit
  /\ part # "lists" => /\ list = "activity" /\ asked = [of |-> {Place}, open |-> FALSE]
                       /\ \A r \in Records : rec[r] = None
  /\ Drawing!AnalyticsInit /\ (part # "analytics" => \A i \in Counted : fact[i] = None)
  /\ Asking!RequestInit /\ (part # "requests" => loader = "issue" /\ \A i \in Keyed : hang[i] = {})
  /\ IF part = "prices" THEN Pricing!LimitInit
     ELSE fragment = <<>> /\ operation = <<>> /\ measured = [f \in Fragments |-> None] /\ price = <<>> /\ broken = {}

ReadNext ==
  /\ UNCHANGED part
  /\ \/ part = "membership" /\ Next
     \/ part # "membership" /\ UNCHANGED membershipVars
  /\ \/ part = "pages" /\ Pages!PageNext
     \/ part # "pages" /\ UNCHANGED pageVars
  /\ \/ part = "lists" /\ Walking!ListNext
     \/ part # "lists" /\ UNCHANGED listVars
  /\ \/ part = "analytics" /\ Drawing!AnalyticsNext
     \/ part # "analytics" /\ UNCHANGED analyticsVars
  /\ \/ part = "requests" /\ Asking!RequestNext
     \/ part # "requests" /\ UNCHANGED graphqlVars
  /\ \/ part = "prices" /\ Pricing!Measure
     \/ part # "prices" /\ UNCHANGED limitVars

ReadSpec == ReadInit /\ [][ReadNext]_readVars

-----------------------------------------------------------------------------
(* What the components assume of their constants.                           *)
ASSUME LegalReadConstants ==
  /\ Pages!LegalPageConstants
  /\ Walking!LegalListConstants
  /\ Drawing!LegalAnalyticsConstants
  /\ Asking!LegalRequestConstants
  /\ Pricing!LegalLimitConstants

(* Whatever is committed between two pages, a walk meets what stayed in the *)
(* list, once; the panels of the analytics page differ by what changed as   *)
(* it was read; and a batch answers each of its keys as a statement of its  *)
(* own would have, for one viewer.                                          *)
ReadsAreComplete ==
  /\ part = "pages" => Pages!PageTypeOK /\ Pages!WalkIsComplete
  /\ part = "lists" => Walking!ListTypeOK /\ Walking!ListsAreComplete
  /\ part = "analytics" => Drawing!AnalyticsTypeOK /\ Drawing!PanelsAgree /\ Drawing!ChartHoldsEveryRow
  /\ part = "requests" => /\ Asking!RequestTypeOK /\ Asking!BatchesAnswerAsAlone
                          /\ Asking!EndsAgree /\ Asking!OneViewer

(* Of a document that can execute, each operation is charged for all that   *)
(* it asks for, however its fragments share what was measured of them; and  *)
(* what is let through brings no more values than the budget.               *)
DocumentsAreCharged ==
  part = "prices" => Pricing!LimitTypeOK /\ Pricing!FragmentsBuyNothing /\ Pricing!AdmittedIsAffordable
=============================================================================
