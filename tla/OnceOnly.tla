------------------------------ MODULE OnceOnly ------------------------------
(***************************************************************************)
(* What the background loops promise: a set of errands, each run at most    *)
(* once and for good, whoever runs them and whatever fails in between.      *)
(***************************************************************************)
EXTENDS Naturals

CONSTANT Errands
VARIABLES
  done,   \* the errands there is no going back on
  runs    \* how often each was run

OnceInit == done = {} /\ runs = [k \in Errands |-> 0]

\* Only what is not done is run, and running it is what makes it done.
OnceNext ==
  /\ done \subseteq done' /\ done' \subseteq Errands
  /\ runs' = [k \in Errands |-> IF k \in done' \ done THEN runs[k] + 1 ELSE runs[k]]

OnceSpec == OnceInit /\ [][OnceNext]_<<done, runs>>
=============================================================================
