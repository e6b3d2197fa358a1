------------------------- MODULE SlackOutbox_proofs -------------------------
(***************************************************************************)
(* Proofs about SlackOutbox for any number of events and replicas, and any *)
(* retry constants.  The argument: claims of one row are numbered, so two  *)
(* holders of a row hold different numbers; the holder of the latest one   *)
(* has waited, together with the row, for the backoff it bought; and every *)
(* number past MAX_ATTEMPTS belongs to a delivery that was abandoned or is *)
(* still under way.                                                        *)
(***************************************************************************)
EXTENDS SlackOutbox, FiniteSetTheorems, TLAPS

\* What a worker holds, and what it has learnt about it.
WorkerInv ==
    \A w \in Workers :
        /\ step[w] = "idle" <=> event[w] = None
        /\ event[w] # None => number[w] \in 1..attempts[event[w]]
        /\ event[w] # None => state[event[w]] # "absent"
        /\ step[w] = "acknowledged" => event[w] \in acked
        /\ step[w] = "closing" => verdict[w] # "none"

\* A row nobody wrote has not been claimed, and what was acknowledged has been.
RowInv ==
    \A e \in Events :
        /\ state[e] = "absent" => attempts[e] = 0
        /\ e \in acked => attempts[e] >= 1

\* Claims are numbered, and the age of each covers its backoff.
LeaseInv ==
    /\ \A v, w \in Workers :
        v # w /\ event[v] # None /\ event[v] = event[w] => number[v] # number[w]
    /\ \A w \in Workers : event[w] # None =>
        /\ age[w] + wait[event[w]] >= Backoff(number[w])
        /\ number[w] < attempts[event[w]] => age[w] >= Backoff(number[w])

\* A second delivery of an event is under way only by a second attempt.
RepeatInv ==
    \A w \in Workers :
        /\ event[w] # None
        /\ \/ state[event[w]] \in Closed
           \/ event[w] \in acked /\ step[w] # "acknowledged"
        => attempts[event[w]] > 1

\* The inductive invariant of the outbox.
IInv ==
    /\ TypeOK /\ WorkerInv /\ RowInv /\ LeaseInv /\ RepeatInv
    /\ AttemptsAreAccountedFor /\ RecordsAreHonest

-----------------------------------------------------------------------------
\* Backoffs stay within the range of the columns they are compared with.
LEMMA BackoffRange ==
    ASSUME NEW n \in Nat
    PROVE  Backoff(n) \in 0..BackoffSteps /\ Backoff(n) <= n
BY BackoffAssumption DEF Backoff, AtMost

\* Type correctness.
LEMMA TypeStep == ASSUME TypeOK, WorkerInv, [Next]_vars PROVE TypeOK'
<1> USE NoneAssumption, BackoffAssumption, LossesAssumption
    DEF TypeOK, States, Closed, Steps, rows, workerVars, history, LetGo
<1>1. ASSUME NEW e \in Events, Record(e) PROVE TypeOK'
  BY <1>1 DEF Record
<1>2. ASSUME Tick PROVE TypeOK'
  BY <1>2 DEF Tick, AtMost
<1>3. ASSUME NEW w \in Workers, NEW e \in Events, Claim(w, e) PROVE TypeOK'
  <2>1. attempts[e] + 1 \in Nat /\ Backoff(attempts[e] + 1) \in 0..BackoffSteps
    BY BackoffRange
  <2> QED BY <1>3, <2>1 DEF Claim
<1>4. ASSUME NEW w \in Workers, FindRoute(w) PROVE TypeOK'
  BY <1>4 DEF FindRoute
<1>5. ASSUME NEW w \in Workers, NEW v \in {"failed", "skipped"}, Refuse(w, v)
      PROVE  TypeOK'
  BY <1>5 DEF Refuse
<1>6. ASSUME NEW w \in Workers, Acknowledge(w) PROVE TypeOK'
  BY <1>6 DEF Acknowledge, WorkerInv
<1>7. ASSUME NEW w \in Workers, Reject(w) PROVE TypeOK'
  BY <1>7 DEF Reject
<1>8. ASSUME NEW w \in Workers, Unreachable(w) PROVE TypeOK'
  BY <1>8 DEF Unreachable
<1>9. ASSUME NEW w \in Workers, MarkDelivered(w) PROVE TypeOK'
  BY <1>9 DEF MarkDelivered, WorkerInv
<1>10. ASSUME NEW w \in Workers, MarkNotDelivered(w) PROVE TypeOK'
  BY <1>10 DEF MarkNotDelivered, WorkerInv
<1>11. ASSUME NEW w \in Workers, Lose(w) PROVE TypeOK'
  BY <1>11 DEF Lose, WorkerInv
<1>12. CASE UNCHANGED vars
  BY <1>12 DEF vars
<1> QED
  BY <1>1, <1>2, <1>3, <1>4, <1>5, <1>6, <1>7, <1>8, <1>9, <1>10, <1>11, <1>12
  DEF Next, Proceed

-----------------------------------------------------------------------------
\* A row leaves "absent" once, and its counter never goes back.
LEMMA WorkerStep ==
    ASSUME IInv, TypeOK', [Next]_vars
    PROVE  WorkerInv' /\ RowInv'
<1> USE NoneAssumption
    DEF IInv, TypeOK, WorkerInv, RowInv, Closed, rows, workerVars, history, LetGo
<1>1. ASSUME NEW e \in Events, Record(e) PROVE WorkerInv' /\ RowInv'
  BY <1>1 DEF Record
<1>2. ASSUME Tick PROVE WorkerInv' /\ RowInv'
  BY <1>2 DEF Tick
<1>3. ASSUME NEW w \in Workers, NEW e \in Events, Claim(w, e)
      PROVE  WorkerInv' /\ RowInv'
  BY <1>3 DEF Claim
<1>4. ASSUME NEW w \in Workers, FindRoute(w) PROVE WorkerInv' /\ RowInv'
  BY <1>4 DEF FindRoute
<1>5. ASSUME NEW w \in Workers, NEW v \in {"failed", "skipped"}, Refuse(w, v)
      PROVE  WorkerInv' /\ RowInv'
  BY <1>5 DEF Refuse
<1>6. ASSUME NEW w \in Workers, Acknowledge(w) PROVE WorkerInv' /\ RowInv'
  BY <1>6 DEF Acknowledge
<1>7. ASSUME NEW w \in Workers, Reject(w) PROVE WorkerInv' /\ RowInv'
  BY <1>7 DEF Reject
<1>8. ASSUME NEW w \in Workers, Unreachable(w) PROVE WorkerInv' /\ RowInv'
  BY <1>8 DEF Unreachable
<1>9. ASSUME NEW w \in Workers, MarkDelivered(w) PROVE WorkerInv' /\ RowInv'
  BY <1>9 DEF MarkDelivered, WorkerInv
<1>10. ASSUME NEW w \in Workers, MarkNotDelivered(w) PROVE WorkerInv' /\ RowInv'
  BY <1>10 DEF MarkNotDelivered
<1>11. ASSUME NEW w \in Workers, Lose(w) PROVE WorkerInv' /\ RowInv'
  BY <1>11 DEF Lose, WorkerInv
<1>12. CASE UNCHANGED vars
  BY <1>12 DEF vars
<1> QED
  BY <1>1, <1>2, <1>3, <1>4, <1>5, <1>6, <1>7, <1>8, <1>9, <1>10, <1>11, <1>12
  DEF Next, Proceed

-----------------------------------------------------------------------------
\* A lease is as old as its backoff before the row is due again.
LEMMA LeaseStep ==
    ASSUME IInv, TypeOK', WorkerInv', [Next]_vars
    PROVE  LeaseInv'
<1> USE NoneAssumption, BackoffAssumption
    DEF IInv, TypeOK, WorkerInv, LeaseInv, rows, workerVars, history, LetGo,
        Backoff, AtMost
<1>1. ASSUME NEW e \in Events, Record(e) PROVE LeaseInv'
  BY <1>1 DEF Record
<1>2. ASSUME Tick PROVE LeaseInv'
  BY <1>2 DEF Tick
<1>3. ASSUME NEW w \in Workers, NEW e \in Events, Claim(w, e) PROVE LeaseInv'
  BY <1>3 DEF Claim
<1>4. ASSUME NEW w \in Workers, FindRoute(w) PROVE LeaseInv'
  BY <1>4 DEF FindRoute
<1>5. ASSUME NEW w \in Workers, NEW v \in {"failed", "skipped"}, Refuse(w, v)
      PROVE  LeaseInv'
  BY <1>5 DEF Refuse
<1>6. ASSUME NEW w \in Workers, Acknowledge(w) PROVE LeaseInv'
  BY <1>6 DEF Acknowledge
<1>7. ASSUME NEW w \in Workers, Reject(w) PROVE LeaseInv'
  BY <1>7 DEF Reject
<1>8. ASSUME NEW w \in Workers, Unreachable(w) PROVE LeaseInv'
  BY <1>8 DEF Unreachable
<1>9. ASSUME NEW w \in Workers, MarkDelivered(w) PROVE LeaseInv'
  BY <1>9 DEF MarkDelivered
<1>10. ASSUME NEW w \in Workers, MarkNotDelivered(w) PROVE LeaseInv'
  BY <1>10 DEF MarkNotDelivered
<1>11. ASSUME NEW w \in Workers, Lose(w) PROVE LeaseInv'
  BY <1>11 DEF Lose
<1>12. CASE UNCHANGED vars
  BY <1>12 DEF vars
<1> QED
  BY <1>1, <1>2, <1>3, <1>4, <1>5, <1>6, <1>7, <1>8, <1>9, <1>10, <1>11, <1>12
  DEF Next, Proceed

-----------------------------------------------------------------------------
\* What the rows say of deliveries, and when they can be wrong about them.
LEMMA HonestStep ==
    ASSUME IInv, TypeOK', WorkerInv', RowInv', LeaseInv', [Next]_vars
    PROVE  RepeatInv' /\ RecordsAreHonest'
<1> USE NoneAssumption
    DEF IInv, TypeOK, WorkerInv, RowInv, RepeatInv, RecordsAreHonest, Closed,
        rows, workerVars, history, LetGo
<1>0. \A v, w \in Workers :
        v # w /\ event[v] # None /\ event[v] = event[w]
        => attempts[event[w]] > 1
  BY DEF LeaseInv
<1>1. ASSUME NEW e \in Events, Record(e) PROVE RepeatInv' /\ RecordsAreHonest'
  BY <1>1 DEF Record
<1>2. ASSUME Tick PROVE RepeatInv' /\ RecordsAreHonest'
  BY <1>2 DEF Tick
<1>3. ASSUME NEW w \in Workers, NEW e \in Events, Claim(w, e)
      PROVE  RepeatInv' /\ RecordsAreHonest'
  BY <1>3 DEF Claim
<1>4. ASSUME NEW w \in Workers, FindRoute(w)
      PROVE  RepeatInv' /\ RecordsAreHonest'
  BY <1>4 DEF FindRoute
<1>5. ASSUME NEW w \in Workers, NEW v \in {"failed", "skipped"}, Refuse(w, v)
      PROVE  RepeatInv' /\ RecordsAreHonest'
  BY <1>5 DEF Refuse
<1>6. ASSUME NEW w \in Workers, Acknowledge(w)
      PROVE  RepeatInv' /\ RecordsAreHonest'
  <2>1. \A v \in Workers : v # w /\ event[v] = event[w] => attempts[event[w]] > 1
    BY <1>6, <1>0 DEF Acknowledge
  <2> QED BY <1>6, <2>1 DEF Acknowledge
<1>7. ASSUME NEW w \in Workers, Reject(w) PROVE RepeatInv' /\ RecordsAreHonest'
  BY <1>7 DEF Reject
<1>8. ASSUME NEW w \in Workers, Unreachable(w)
      PROVE  RepeatInv' /\ RecordsAreHonest'
  BY <1>8 DEF Unreachable
<1>9. ASSUME NEW w \in Workers, MarkDelivered(w)
      PROVE  RepeatInv' /\ RecordsAreHonest'
  <2>1. \A v \in Workers : v # w /\ event[v] = event[w] => attempts[event[w]] > 1
    BY <1>9, <1>0 DEF MarkDelivered
  <2> QED BY <1>9, <2>1 DEF MarkDelivered
<1>10. ASSUME NEW w \in Workers, MarkNotDelivered(w)
      PROVE  RepeatInv' /\ RecordsAreHonest'
  <2>1. \A v \in Workers : v # w /\ event[v] = event[w] => attempts[event[w]] > 1
    BY <1>10, <1>0 DEF MarkNotDelivered
  <2> QED BY <1>10, <2>1 DEF MarkNotDelivered
<1>11. ASSUME NEW w \in Workers, Lose(w) PROVE RepeatInv' /\ RecordsAreHonest'
  BY <1>11 DEF Lose
<1>12. CASE UNCHANGED vars
  BY <1>12 DEF vars
<1> QED
  BY <1>1, <1>2, <1>3, <1>4, <1>5, <1>6, <1>7, <1>8, <1>9, <1>10, <1>11, <1>12
  DEF Next, Proceed

-----------------------------------------------------------------------------
\* Past the limit, each claim is a loss or a last attempt under way.
LEMMA LastAttemptsFinite ==
    ASSUME NEW e
    PROVE  IsFiniteSet(LastAttempts(e)) /\ Cardinality(LastAttempts(e)) \in Nat
<1>1. LastAttempts(e) \in SUBSET Workers
  BY DEF LastAttempts
<1> QED
  BY <1>1, WorkersAssumption, FS_Subset, FS_CardinalityType

\* The set of last attempts seen from its count: it grows and shrinks by one.
LEMMA LastAttemptsStep ==
    ASSUME NEW e, NEW w \in Workers, TypeOK, TypeOK', WorkerInv,
           \A v \in Workers \ {w} :
                event'[v] = event[v] /\ number'[v] = number[v]
    PROVE  LET S == LastAttempts(e)
               T == LastAttempts(e)'
           IN  /\ Cardinality(S) \in Nat
               /\ w \in S /\ w \in T => Cardinality(T) = Cardinality(S)
               /\ w \notin S /\ w \notin T => Cardinality(T) = Cardinality(S)
               /\ w \notin S /\ w \in T => Cardinality(T) = Cardinality(S) + 1
               /\ w \in S /\ w \notin T => Cardinality(T) = Cardinality(S) - 1
<1> DEFINE S == LastAttempts(e)
           T == {v \in Workers : event'[v] = e /\ number'[v] >= MaxAttempts}
<1>1. T = LastAttempts(e)'
  BY DEF LastAttempts
<1>2. S \subseteq Workers /\ T \subseteq Workers
  BY DEF LastAttempts
<1>3. \A v \in Workers \ {w} : v \in S <=> v \in T
  BY DEF LastAttempts
<1> HIDE DEF S, T
<1>4. T = IF w \in T THEN S \cup {w} ELSE S \ {w}
  BY <1>2, <1>3
<1>5. IsFiniteSet(S) /\ Cardinality(S) \in Nat
  BY LastAttemptsFinite DEF S
<1>6. Cardinality(S \cup {w}) = IF w \in S THEN Cardinality(S) ELSE Cardinality(S) + 1
  BY <1>5, FS_AddElement
<1>7. Cardinality(S \ {w}) = IF w \in S THEN Cardinality(S) - 1 ELSE Cardinality(S)
  BY <1>5, FS_RemoveElement
<1> QED
  BY <1>1, <1>4, <1>5, <1>6, <1>7 DEF S

\* Every attempt a step makes is accounted for.
LEMMA AccountStep ==
    ASSUME IInv, TypeOK', WorkerInv', [Next]_vars
    PROVE  AttemptsAreAccountedFor'
<1> USE NoneAssumption, MaxAttemptsAssumption
    DEF IInv, AttemptsAreAccountedFor, rows, workerVars, history
<1> SUFFICES ASSUME NEW e \in Events, state'[e] = "pending"
             PROVE  attempts'[e] <= MaxAttempts - 1 + lost'[e]
                                    + Cardinality(LastAttempts(e)')
  BY DEF AttemptsAreAccountedFor
<1> DEFINE C == Cardinality(LastAttempts(e))
           D == Cardinality(LastAttempts(e)')
           Goal == attempts'[e] <= MaxAttempts - 1 + lost'[e] + D
<1>a. attempts[e] \in Nat /\ lost[e] \in Nat /\ C \in Nat
  BY LastAttemptsFinite, LossesAssumption DEF TypeOK
<1>b. ASSUME UNCHANGED <<event, number, attempts, lost>>,
             state[e] \in {"absent", "pending"}
      PROVE  Goal
  <2>1. LastAttempts(e)' = LastAttempts(e)
    BY <1>b DEF LastAttempts
  <2> QED BY <1>a, <1>b, <2>1 DEF RowInv
<1>c. ASSUME NEW w \in Workers, LetGo(w), attempts' = attempts,
             state[e] = "pending",
             \/ lost' = lost /\ w \notin LastAttempts(e)
             \/ event[w] # None /\ lost' = [lost EXCEPT ![event[w]] = @ + 1]
      PROVE  Goal
  <2>1. w \notin LastAttempts(e)'
    BY <1>c DEF LetGo, LastAttempts, TypeOK
  <2>2. \A v \in Workers \ {w} : event'[v] = event[v] /\ number'[v] = number[v]
    BY <1>c DEF LetGo, TypeOK
  <2>3. /\ w \in LastAttempts(e) => D = C - 1
        /\ w \notin LastAttempts(e) => D = C
    BY <2>1, <2>2, LastAttemptsStep
  <2>4. /\ w \in LastAttempts(e) => lost'[e] = lost[e] + 1
        /\ lost'[e] \in Nat /\ lost'[e] >= lost[e]
    BY <1>c, LossesAssumption DEF LastAttempts, TypeOK
  <2> QED BY <1>a, <1>c, <2>3, <2>4
<1>1. ASSUME NEW d \in Events, Record(d) PROVE Goal
  BY <1>1, <1>b DEF Record, TypeOK, States, Closed
<1>2. ASSUME Tick PROVE Goal
  BY <1>2, <1>b DEF Tick
<1>3. ASSUME NEW w \in Workers, NEW d \in Events, Claim(w, d) PROVE Goal
  <2>1. \A v \in Workers \ {w} : event'[v] = event[v] /\ number'[v] = number[v]
    BY <1>3 DEF Claim, TypeOK
  <2>2. w \notin LastAttempts(e)
    BY <1>3 DEF Claim, LastAttempts, WorkerInv
  <2>3. w \in LastAttempts(e)' <=> d = e /\ attempts[e] + 1 >= MaxAttempts
    BY <1>3 DEF Claim, LastAttempts, TypeOK
  <2>4. /\ w \in LastAttempts(e)' => D = C + 1
        /\ w \notin LastAttempts(e)' => D = C
    BY <2>1, <2>2, LastAttemptsStep
  <2>5. attempts'[e] = (IF d = e THEN attempts[e] + 1 ELSE attempts[e])
        /\ lost'[e] = lost[e] /\ state[e] = "pending"
    BY <1>3 DEF Claim, TypeOK
  <2> QED BY <1>a, <2>3, <2>4, <2>5
<1>4. ASSUME NEW w \in Workers, FindRoute(w) PROVE Goal
  BY <1>4, <1>b DEF FindRoute
<1>5. ASSUME NEW w \in Workers, NEW v \in {"failed", "skipped"}, Refuse(w, v)
      PROVE  Goal
  BY <1>5, <1>b DEF Refuse
<1>6. ASSUME NEW w \in Workers, Acknowledge(w) PROVE Goal
  BY <1>6, <1>b DEF Acknowledge
<1>7. ASSUME NEW w \in Workers, Reject(w) PROVE Goal
  BY <1>7, <1>b DEF Reject
<1>8. ASSUME NEW w \in Workers, Unreachable(w) PROVE Goal
  <2>1. CASE number[w] < MaxAttempts /\ LetGo(w)
    <3>1. w \notin LastAttempts(e)
      BY <2>1 DEF LastAttempts, TypeOK
    <3> QED BY <1>8, <1>c, <2>1, <3>1 DEF Unreachable
  <2>2. CASE number[w] >= MaxAttempts
    BY <1>8, <1>b, <2>2 DEF Unreachable, TypeOK
  <2> QED BY <1>8, <2>1, <2>2 DEF Unreachable
<1>9. ASSUME NEW w \in Workers, MarkDelivered(w) PROVE Goal
  <2>1. state[e] = "pending" /\ event[w] # e
    BY <1>9 DEF MarkDelivered, TypeOK
  <2>2. w \notin LastAttempts(e)
    BY <2>1 DEF LastAttempts
  <2> QED BY <1>9, <1>c, <2>1, <2>2 DEF MarkDelivered
<1>10. ASSUME NEW w \in Workers, MarkNotDelivered(w) PROVE Goal
  <2>1. state[e] = "pending" /\ event[w] # e
    BY <1>10 DEF MarkNotDelivered, TypeOK
  <2>2. w \notin LastAttempts(e)
    BY <2>1 DEF LastAttempts
  <2> QED BY <1>10, <1>c, <2>1, <2>2 DEF MarkNotDelivered
<1>11. ASSUME NEW w \in Workers, Lose(w) PROVE Goal
  BY <1>11, <1>c DEF Lose, WorkerInv
<1>12. CASE UNCHANGED vars
  BY <1>12, <1>b DEF vars
<1> QED
  BY <1>1, <1>2, <1>3, <1>4, <1>5, <1>6, <1>7, <1>8, <1>9, <1>10, <1>11, <1>12
  DEF Next, Proceed

-----------------------------------------------------------------------------
\* Nothing was attempted at first.
LEMMA InitInv == ASSUME Init PROVE IInv
<1> USE DEF Init, IInv, TypeOK, States, Steps, Closed
<1>1. TypeOK /\ WorkerInv /\ RowInv /\ LeaseInv /\ RepeatInv /\ RecordsAreHonest
  BY NoneAssumption, LossesAssumption, BackoffAssumption
  DEF WorkerInv, RowInv, LeaseInv, RepeatInv, RecordsAreHonest
<1>2. AttemptsAreAccountedFor
  BY DEF AttemptsAreAccountedFor
<1> QED BY <1>1, <1>2

\* The inductive invariant holds of every reachable state.
THEOREM InductiveInvariant == Spec => []IInv
<1>1. Init => IInv
  BY InitInv
<1>2. IInv /\ [Next]_vars => IInv'
  <2> SUFFICES ASSUME IInv, [Next]_vars PROVE IInv'
    OBVIOUS
  <2>1. TypeOK'
    BY TypeStep DEF IInv
  <2>2. WorkerInv' /\ RowInv'
    BY <2>1, WorkerStep
  <2>3. LeaseInv'
    BY <2>1, <2>2, LeaseStep
  <2>4. RepeatInv' /\ RecordsAreHonest'
    BY <2>1, <2>2, <2>3, HonestStep
  <2>5. AttemptsAreAccountedFor'
    BY <2>1, <2>2, AccountStep
  <2> QED BY <2>1, <2>2, <2>3, <2>4, <2>5 DEF IInv
<1> QED BY <1>1, <1>2, PTL DEF Spec

\* Type correctness of the outbox.
THEOREM TypeCorrect == Spec => []TypeOK
<1>1. IInv => TypeOK
  BY DEF IInv
<1> QED BY <1>1, InductiveInvariant, PTL

\* claim_next leases a row: two deliveries of one event overlap only when the
\* earlier has outstayed its backoff.
THEOREM LeaseTheorem == Spec => []OverlapOnlyAfterBackoff
<1>1. IInv => OverlapOnlyAfterBackoff
  BY DEF IInv, TypeOK, WorkerInv, LeaseInv, OverlapOnlyAfterBackoff
<1> QED BY <1>1, InductiveInvariant, PTL

\* MAX_ATTEMPTS is exceeded only by deliveries abandoned or under way.
THEOREM AccountTheorem == Spec => []AttemptsAreAccountedFor
<1>1. IInv => AttemptsAreAccountedFor
  BY DEF IInv
<1> QED BY <1>1, InductiveInvariant, PTL

\* mark_delivered records only what Slack acknowledged.
THEOREM HonestTheorem == Spec => []RecordsAreHonest
<1>1. IInv => RecordsAreHonest
  BY DEF IInv
<1> QED BY <1>1, InductiveInvariant, PTL

\* A closed event is never reopened.
THEOREM ClosedTheorem == Spec => ClosedStaysClosed
<1> DEFINE Kept == \A e \in Events : state[e] \in Closed => state'[e] \in Closed
<1>1. IInv /\ [Next]_vars => [Kept]_vars
  <2> SUFFICES ASSUME IInv, Next PROVE Kept
    BY DEF vars
  <2> USE DEF IInv, TypeOK, Closed, rows
  <2>1. ASSUME NEW e \in Events, Record(e) PROVE Kept
    BY <2>1 DEF Record
  <2>2. ASSUME NEW w \in Workers, MarkDelivered(w) \/ MarkNotDelivered(w)
        PROVE  Kept
    BY <2>2 DEF MarkDelivered, MarkNotDelivered, WorkerInv
  <2>3. CASE UNCHANGED state
    BY <2>3
  <2> QED
    BY <2>1, <2>2, <2>3
    DEF Next, Proceed, Tick, Claim, FindRoute, Refuse, Acknowledge, Reject,
        Unreachable, Lose
<1> QED BY <1>1, InductiveInvariant, PTL DEF Spec, ClosedStaysClosed
=============================================================================
