----------------------------- MODULE MCTracker -----------------------------
(* The instance of each component, small and with its interesting cases.    *)
EXTENDS Tracker, TLC

TwoIssues == 1..2
ThreeIssues == 1..3
Numbers == [t \in Teams |-> IF t = "eng" THEN 2 ELSE 1]
AllBatches == {TwoIssues}
SomePatches == {[state |-> "completed", assignee |-> "keep", project |-> "keep"],
                [state |-> "unstarted", assignee |-> "keep", project |-> "keep"]}

RepositoriesOf == "acme" :> {"acme/api"} @@ "zeta" :> {}
OneBundle == {{"bug", "chore"}}

OneFilter == {[assignee |-> None, priority |-> Unset]}
OwnerOf == "sa" :> "ada" @@ "sb" :> "bob"
TwoAnswers == {[grant |-> {"acme"}, named |-> None], [grant |-> {"zeta"}, named |-> "acme"]}
TwoDrafts == {[team |-> "eng", project |-> "apollo", labels |-> {"bug"}],
              [team |-> None, project |-> None, labels |-> {}]}

ThreeListings == {[kind |-> "delta", added |-> {1}, removed |-> {}], [kind |-> "delta", added |-> {}, removed |-> {2}],
                  [kind |-> "full", added |-> {1, 2}, removed |-> {}]}
=============================================================================
