---------------------------- MODULE MCBackground ----------------------------
(* One issue that is edited under two processes and a client; a template    *)
(* with rules of every frequency; two issues that come due on one day; and  *)
(* four branches' checkouts and an edited one, for two containers.          *)
EXTENDS Background, TLC

OneIssue == {1}
TwoIssues == 1..2

\* Days around the ends of January and of a short February.
SomeDays == {29, 31, 59, 60}
ThreeDays == {30, 31, 32}
OneDate == {31}
SomeRules == {
  [frequency |-> "daily", intervalCount |-> 3, startsOn |-> 28],
  [frequency |-> "weekly", intervalCount |-> 2, startsOn |-> 23, weekdays |-> {2, 7}],
  [frequency |-> "monthly", intervalCount |-> 1, startsOn |-> 30, dayOfMonth |-> 31],
  [frequency |-> "monthly", intervalCount |-> 52, startsOn |-> 30, dayOfMonth |-> 31],
  [frequency |-> "monthly", intervalCount |-> 1, startsOn |-> 20, dayOfMonth |-> 1]}

SomeCheckouts == {1 :> "a", 1 :> "a" @@ 2 :> "a", 1 :> "a" @@ 2 :> "b", 1 :> "a" @@ 3 :> "a",
                  1 :> "b" @@ 2 :> "a" @@ 3 :> "a"}
=============================================================================
