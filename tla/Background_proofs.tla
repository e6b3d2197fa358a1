------------------------- MODULE Background_proofs --------------------------
(***************************************************************************)
(* Proofs about what every process does on its own, for any number of them. *)
(* Three things hold the queue together: a vector carries the digest its    *)
(* upsert compared, a pass holds an issue at most once, and no job that has *)
(* used up its attempts is ever handed out again, so that only the workers  *)
(* that already hold it can still charge it.  A migration is decided under  *)
(* the lock, of a ledger that tells what was executed; and what a sweep     *)
(* claims, of schedules or of reminders, is claimed by no other.            *)
(***************************************************************************)
EXTENDS Background, FiniteSetTheorems, WellFoundedInduction, TLAPS

-----------------------------------------------------------------------------
(* The queue of the semantic index.                                         *)
\* A vector, stored or about to be, is filed under the text it was made from.
HonestInv ==
    /\ \A i \in Issues : vector[i] # None => vector[i].of = vector[i].digest
    /\ \A w \in Actors : read[w] # None => read[w].digest = read[w].source.text

\* A pass holds an issue at most once.
OnceInv ==
    \A w \in Actors : \A s, r \in work[w] : s.issue = r.issue => s = r

\* The workers that may still charge the job of i.
Holders(i) ==
    {w \in Workers : stage[w] = "storing" /\ \E s \in work[w] : s.issue = i}

\* A job that can still be claimed has attempts left; the others can be charged
\* once by each worker that holds them.
RetiredInv ==
    \A i \in Issues : job[i] # None =>
        (job[i].when = "never" <=> job[i].attempts >= MaxAttempts)
\* The charges of a job and those still to come stay below what its attempts
\* and the workers allow together.
ChargeInv ==
    \A i \in Issues : job[i] # None =>
        job[i].attempts + Cardinality(Holders(i)) < MaxAttempts + Cardinality(Workers)

\* Whatever is queued or in hand has been filed, and stays so.
FiledInv ==
    /\ \A i \in Issues : job[i] # None => text[i] # None
    /\ \A w \in Actors : \A s \in work[w] : text[s.issue] # None

\* Only a pass or a request that stores has an upsert half done.
StoringInv ==
    \A w \in Actors : read[w] # None => stage[w] \in {"storing", "refreshing"}

\* The inductive invariant of the queue.
IInv == TypeOK /\ FiledInv /\ StoringInv /\ HonestInv /\ OnceInv /\ RetiredInv /\ ChargeInv

-----------------------------------------------------------------------------
\* There are no more holders of a job than workers.
LEMMA HoldersFinite ==
    \A i : /\ IsFiniteSet(Holders(i))
           /\ Cardinality(Holders(i)) \in Nat
           /\ Cardinality(Workers) \in Nat
           /\ Cardinality(Holders(i)) <= Cardinality(Workers)
BY FS_Subset, FS_CardinalityType, ActorsAssumption DEF Holders

\* The same of the holders after a step.
LEMMA HoldersFiniteNext ==
    \A i : /\ IsFiniteSet(Holders(i)')
           /\ Cardinality(Holders(i)') \in Nat
           /\ Cardinality(Holders(i)') <= Cardinality(Workers)
BY FS_Subset, FS_CardinalityType, ActorsAssumption DEF Holders

\* With fewer holders than before a job can be charged fewer times.
LEMMA FewerHolders ==
    ASSUME NEW i, Holders(i)' \subseteq Holders(i)
    PROVE  Cardinality(Holders(i)') <= Cardinality(Holders(i))
BY HoldersFinite, FS_Subset

\* A job with attempts left is within the bound whoever holds it.
LEMMA AttemptsLeft ==
    ASSUME NEW i, NEW n \in Nat, n < MaxAttempts
    PROVE  /\ n + Cardinality(Holders(i)) < MaxAttempts + Cardinality(Workers)
           /\ n + Cardinality(Holders(i)') < MaxAttempts + Cardinality(Workers)
BY HoldersFinite, HoldersFiniteNext, BoundsAssumption

-----------------------------------------------------------------------------
\* Nothing is filed, queued or in hand at first.
LEMMA InitInv == Init => IInv
<1> SUFFICES ASSUME Init PROVE IInv
  OBVIOUS
<1>1. TypeOK
  BY DEF Init, TypeOK, Stages
<1>2. FiledInv /\ StoringInv /\ HonestInv /\ OnceInv
  BY DEF Init, FiledInv, StoringInv, HonestInv, OnceInv
<1>3. RetiredInv /\ ChargeInv
  BY DEF Init, RetiredInv, ChargeInv
<1> QED
  BY <1>1, <1>2, <1>3 DEF IInv

-----------------------------------------------------------------------------
(***************************************************************************)
(* Types                                                                   *)
(***************************************************************************)
LEMMA SourcesType ==
    ASSUME TypeOK, NEW S \in SUBSET Issues, \A i \in S : text[i] # None
    PROVE  AsSources(S) \in SUBSET Sources
BY DEF TypeOK, AsSources, Sources

\* A job started for a text is a job.
LEMMA FreshType == \A x \in Texts : Fresh(x) \in Jobs
BY DEF Fresh, Jobs

\* What a sweep selects, stale or missing, is filed.
LEMMA StaleType ==
    /\ Newest(Stale, EnqueueBatch) \subseteq Unindexed
    /\ Newest(Unindexed, 1) \subseteq Unindexed
    /\ Unindexed \in SUBSET Issues
    /\ \A i \in Unindexed : text[i] # None
BY DEF Newest, Stale, Unindexed, Live

\* Being done with a source keeps the type of what an actor has in hand.
LEMMA FinishType ==
    ASSUME TypeOK, NEW w \in Actors, NEW s \in Sources, Finish(w, s)
    PROVE  /\ stage' \in [Actors -> Stages]
           /\ work' \in [Actors -> SUBSET Sources]
           /\ read' \in [Actors -> Readings \cup {None}]
           /\ \A v \in Actors : read'[v] # None => read'[v].source \in work'[v]
BY DEF TypeOK, Finish, Stages

\* A job that is charged, or first made by its failure, is a job.
LEMMA ChargeType ==
    ASSUME TypeOK, NEW i \in Issues, NEW x \in Texts, Charge(i, x)
    PROVE  job' \in [Issues -> Jobs \cup {None}]
<1>1. CASE job[i] = None
  BY <1>1 DEF TypeOK, Charge
<1>2. CASE job[i] # None
  <2> DEFINE n == job[i].attempts + 1
             k == IF n >= MaxAttempts THEN "never" ELSE "later"
             J == [job[i] EXCEPT !.attempts = n, !.error = x, !.when = k]
  <2>1. job[i] \in Jobs
    BY <1>2 DEF TypeOK
  <2>2. n \in Nat /\ k \in {"due", "later", "never"}
    BY <2>1 DEF Jobs
  <2> HIDE DEF n, k
  <2>3. J \in Jobs
    BY <2>1, <2>2 DEF Jobs
  <2>4. job' = [job EXCEPT ![i] = J]
    BY <1>2 DEF Charge, TypeOK, n, k
  <2> QED
    BY <2>3, <2>4 DEF TypeOK
<1> QED
  BY <1>1, <1>2 DEF TypeOK

\* Enqueuing what a sweep found leaves jobs in the queue.
LEMMA EnqueueType ==
    ASSUME TypeOK, NEW w \in Workers, Enqueue(w)
    PROVE  job' \in [Issues -> Jobs \cup {None}]
<1> DEFINE fresh == {s \in work[w] : ~HasJob(s.issue, s.text)}
<1>1. fresh \in SUBSET Sources
  BY DEF TypeOK, Actors
<1> HIDE DEF fresh
<1>2. ASSUME NEW i \in Issues, \E s \in fresh : s.issue = i
      PROVE  Fresh((CHOOSE s \in fresh : s.issue = i).text) \in Jobs
  BY <1>1, <1>2, FreshType DEF Sources
<1>3. job' = [i \in Issues |->
                IF \E s \in fresh : s.issue = i
                THEN Fresh((CHOOSE s \in fresh : s.issue = i).text)
                ELSE job[i]]
  BY DEF Enqueue, fresh
<1> QED
  BY <1>2, <1>3 DEF TypeOK

\* Claiming leaves jobs in the queue, and filed sources in hand.
LEMMA ClaimType ==
    ASSUME TypeOK, FiledInv, NEW w \in Workers, Claim(w)
    PROVE  /\ job' \in [Issues -> Jobs \cup {None}]
           /\ work' \in [Actors -> SUBSET Sources]
<1>1. ASSUME NEW i \in Due PROVE [job[i] EXCEPT !.when = "later"] \in Jobs
  BY DEF Due, TypeOK, Jobs
<1>2. AsSources(Due) \in SUBSET Sources
  BY SourcesType DEF Due, FiledInv
<1> QED
  BY <1>1, <1>2 DEF TypeOK, Claim, Actors

\* Every action keeps the types.
LEMMA TypeInv ==
    ASSUME TypeOK, FiledInv, StoringInv, [Next]_vars
    PROVE  TypeOK'
<1>1. ASSUME Change PROVE TypeOK'
  BY <1>1 DEF TypeOK, Change, File, Edit, Archive, actorVars
<1>2. ASSUME NEW i \in Issues, ComeDue(i) PROVE TypeOK'
  BY <1>2 DEF TypeOK, ComeDue, issueVars, actorVars, Jobs
<1>3. ASSUME NEW w \in Workers, Sweep(w) PROVE TypeOK'
  <2>1. AsSources(Newest(Stale, EnqueueBatch)) \in SUBSET Sources
    BY StaleType, SourcesType
  <2> QED
    BY <1>3, <2>1 DEF TypeOK, StoringInv, Sweep, issueVars, Stages, Actors
<1>4. ASSUME NEW w \in Workers, Enqueue(w) PROVE TypeOK'
  BY <1>4, EnqueueType DEF TypeOK, StoringInv, Enqueue, issueVars, Stages, Actors
<1>5. ASSUME NEW w \in Workers, Claim(w) PROVE TypeOK'
  BY <1>5, ClaimType DEF TypeOK, StoringInv, Claim, issueVars, Stages, Actors
<1>6. ASSUME NEW w \in Workers, NEW s \in work[w], Fail(w, s) PROVE TypeOK'
  <2>1. w \in Actors /\ s \in Sources
    BY DEF Actors, TypeOK
  <2>2. s.issue \in Issues /\ s.text \in Texts
    BY <2>1 DEF Sources
  <2>3. job' \in [Issues -> Jobs \cup {None}]
    BY <1>6, <2>2, ChargeType DEF Fail
  <2>4. UNCHANGED <<text, archived, vector>>
    BY <1>6 DEF Fail, issueVars
  <2> QED
    BY <1>6, <2>1, <2>3, <2>4, FinishType DEF TypeOK, Fail
<1>7. ASSUME NEW w \in Workers, NEW s \in work[w], Decline(w, s) PROVE TypeOK'
  <2>1. w \in Actors /\ s \in Sources
    BY DEF Actors, TypeOK
  <2>2. UNCHANGED <<text, archived, vector>> /\ job' = [job EXCEPT ![s.issue] = None]
    BY <1>7 DEF Decline, issueVars
  <2> QED
    BY <1>7, <2>1, <2>2, FinishType DEF TypeOK, Decline
<1>8. ASSUME NEW w \in Actors, NEW s \in work[w], Read(w, s) PROVE TypeOK'
  <2>1. s \in Sources
    BY DEF TypeOK
  <2>2. [source |-> s, digest |-> text[s.issue]] \in Readings
    BY <1>8, <2>1 DEF Read, Unchanged, Sources, Readings
  <2> QED
    BY <1>8, <2>1, <2>2 DEF TypeOK, Read, issueVars
<1>9. ASSUME NEW w \in Actors, Store(w) \/ StoreRefresh(w) PROVE TypeOK'
  <2>1. read[w] \in Readings
    BY <1>9 DEF TypeOK, Store, StoreRefresh
  <2>2. read[w].source \in Sources /\ [digest |-> read[w].digest,
                                        of |-> read[w].source.text] \in Vectors
    BY <2>1 DEF Readings, Vectors, Sources
  <2>3. vector' \in [Issues -> Vectors \cup {None}]
    BY <1>9, <2>2 DEF Store, StoreRefresh, Write, TypeOK
  <2>4. /\ UNCHANGED <<text, archived>>
        /\ Finish(w, read[w].source)
        /\ \/ UNCHANGED job
           \/ job' = [job EXCEPT ![read[w].source.issue] = None]
    BY <1>9 DEF Store, StoreRefresh, issueVars
  <2> QED
    BY <2>2, <2>3, <2>4, FinishType DEF TypeOK
<1>10. ASSUME NEW w \in Actors, Abandon(w) PROVE TypeOK'
  BY <1>10 DEF TypeOK, Abandon, issueVars, Stages
<1>11. ASSUME NEW c \in Clients, Refresh(c) PROVE TypeOK'
  <2>1. AsSources(Newest(Unindexed, 1)) \in SUBSET Sources
    BY StaleType, SourcesType
  <2> QED
    BY <1>11, <2>1 DEF TypeOK, StoringInv, Refresh, issueVars, Stages, Actors
<1>12. ASSUME NEW c \in Clients, NEW s \in work[c], DeclineRefresh(c, s) PROVE TypeOK'
  <2>1. c \in Actors /\ s \in Sources
    BY DEF Actors, TypeOK
  <2>2. UNCHANGED <<text, archived, vector, job>>
    BY <1>12 DEF DeclineRefresh, issueVars
  <2> QED
    BY <1>12, <2>1, <2>2, FinishType DEF TypeOK, DeclineRefresh
<1>13. CASE UNCHANGED vars
  BY <1>13 DEF TypeOK, vars
<1> QED
  BY <1>1, <1>2, <1>3, <1>4, <1>5, <1>6, <1>7, <1>8, <1>9, <1>10, <1>11, <1>12, <1>13
     DEF Next, Pass, Serve, Actors

-----------------------------------------------------------------------------
(***************************************************************************)
(* What each kind of step may do to each variable                          *)
(***************************************************************************)

\* Nothing filed is unfiled.
LEMMA FiledStays ==
    ASSUME TypeOK, [Next]_vars
    PROVE  \A i \in Issues : text[i] # None => text'[i] # None
<1>1. CASE Change
  BY <1>1, NoneAssumption DEF Change, File, Edit, Archive, TypeOK
<1>2. CASE ~Change
  <2>1. UNCHANGED text
    BY <1>2 DEF Next, vars, Pass, Serve, Sweep, Enqueue, Claim, Store, Fail,
                Decline, Read, Refresh, StoreRefresh, DeclineRefresh, Abandon,
                ComeDue, issueVars
  <2> QED
    BY <2>1
<1> QED
  BY <1>1, <1>2

\* What an actor has in hand it keeps, lays down, or has just read.
LEMMA WorkSteps ==
    ASSUME TypeOK, FiledInv, [Next]_vars, NEW w \in Actors
    PROVE  \/ work'[w] \subseteq work[w]
           \/ UNCHANGED text /\ \E S \in SUBSET Issues :
                work'[w] = AsSources(S) /\ \A i \in S : text[i] # None
<1> DEFINE Kept == work'[w] \subseteq work[w]
           Taken == UNCHANGED text /\ \E S \in SUBSET Issues :
                work'[w] = AsSources(S) /\ \A i \in S : text[i] # None
<1>1. ASSUME NEW v \in Actors, NEW s, Finish(v, s) PROVE Kept
  BY <1>1 DEF Finish, TypeOK
<1>2. ASSUME NEW v \in Workers, Sweep(v) PROVE Kept \/ Taken
  BY <1>2, StaleType DEF Sweep, TypeOK, issueVars, Actors
<1>3. ASSUME NEW v \in Workers, Claim(v) PROVE Kept \/ Taken
  <2>1. Due \in SUBSET Issues /\ \A i \in Due : text[i] # None
    BY DEF Due, FiledInv
  <2>2. UNCHANGED text /\ work' = [work EXCEPT ![v] = AsSources(Due)]
    BY <1>3 DEF Claim, issueVars
  <2> QED
    BY <2>1, <2>2 DEF TypeOK
<1>4. ASSUME NEW v \in Clients, Refresh(v) PROVE Kept \/ Taken
  BY <1>4, StaleType DEF Refresh, TypeOK, issueVars, Actors
<1>5. ASSUME NEW v \in Actors, Enqueue(v) \/ Abandon(v) PROVE Kept
  BY <1>5 DEF Enqueue, Abandon, TypeOK
<1>6. ASSUME NEW v \in Actors, NEW s \in work[v], Read(v, s) PROVE Kept
  BY <1>6 DEF Read
<1>7. ASSUME UNCHANGED work PROVE Kept
  BY <1>7
<1>8. CASE \E v \in Workers : Pass(v)
  BY <1>8, <1>1, <1>2, <1>3, <1>5, <1>6 DEF Pass, Store, Fail, Decline, Actors
<1>9. CASE \E v \in Clients : Serve(v)
  BY <1>9, <1>1, <1>4, <1>6 DEF Serve, StoreRefresh, DeclineRefresh, Actors
<1> QED
  BY <1>5, <1>7, <1>8, <1>9
     DEF Next, vars, Change, File, Edit, Archive, ComeDue, actorVars

\* No step gives a pass an issue twice.
LEMMA OnceStep ==
    ASSUME TypeOK, FiledInv, OnceInv, [Next]_vars
    PROVE  OnceInv'
BY WorkSteps DEF OnceInv, AsSources

\* A job that was not there comes from what a sweep had in hand.
LEMMA JobSteps ==
    ASSUME TypeOK, [Next]_vars, NEW i \in Issues, job'[i] # None, job[i] = None
    PROVE  \E w \in Workers : \E s \in work[w] : s.issue = i
<1>1. CASE \E w \in Workers : Enqueue(w)
  BY <1>1 DEF Enqueue
<1>2. CASE ~\E w \in Workers : Enqueue(w)
  BY <1>2 DEF Next, vars, Change, File, Edit, Archive, Pass, Serve, Sweep, Claim,
              Due, Store, Fail, Charge, Decline, Read, Refresh, StoreRefresh,
              DeclineRefresh, Abandon, ComeDue, TypeOK
<1> QED
  BY <1>1, <1>2

\* Every step queues, and takes in hand, only what has been filed.
LEMMA FiledStep ==
    ASSUME TypeOK, FiledInv, [Next]_vars
    PROVE  FiledInv'
<1>1. ASSUME NEW i \in Issues, job'[i] # None PROVE text'[i] # None
  <2>1. text[i] # None
    BY <1>1, JobSteps DEF FiledInv, Actors
  <2> QED
    BY <2>1, FiledStays
<1>2. ASSUME NEW w \in Actors, NEW s \in work'[w] PROVE text'[s.issue] # None
  <2>1. CASE work'[w] \subseteq work[w]
    <3>1. s \in work[w] /\ s.issue \in Issues
      BY <2>1 DEF TypeOK, Sources
    <3> QED
      BY <3>1, FiledStays DEF FiledInv
  <2>2. CASE UNCHANGED text /\ \E S \in SUBSET Issues :
                work'[w] = AsSources(S) /\ \A i \in S : text[i] # None
    BY <2>2 DEF AsSources
  <2> QED
    BY <2>1, <2>2, WorkSteps
<1> QED
  BY <1>1, <1>2 DEF FiledInv

\* Every step leaves half-done upserts only to those that store.
LEMMA StoringStep ==
    ASSUME TypeOK, StoringInv, [Next]_vars
    PROVE  StoringInv'
<1>1. ASSUME NEW v \in Actors, NEW s, Finish(v, s) PROVE StoringInv'
  BY <1>1 DEF Finish, TypeOK, StoringInv
<1>2. ASSUME NEW v \in Actors, Sweep(v) \/ Enqueue(v) \/ Claim(v) \/ Refresh(v)
      PROVE  StoringInv'
  BY <1>2 DEF Sweep, Enqueue, Claim, Refresh, TypeOK, StoringInv
<1>3. ASSUME NEW v \in Actors, NEW s \in work[v], Read(v, s) PROVE StoringInv'
  BY <1>3 DEF Read, TypeOK, StoringInv
<1>4. ASSUME NEW v \in Actors, Abandon(v) PROVE StoringInv'
  BY <1>4 DEF Abandon, TypeOK, StoringInv
<1>5. ASSUME UNCHANGED <<stage, read>> PROVE StoringInv'
  BY <1>5 DEF StoringInv
<1>6. CASE \E v \in Workers : Pass(v)
  BY <1>6, <1>1, <1>2, <1>3 DEF Pass, Store, Fail, Decline, Actors
<1>7. CASE \E v \in Clients : Serve(v)
  BY <1>7, <1>1, <1>2, <1>3 DEF Serve, StoreRefresh, DeclineRefresh, Actors
<1> QED
  BY <1>4, <1>5, <1>6, <1>7
     DEF Next, vars, Change, File, Edit, Archive, ComeDue, actorVars

\* Every vector a step stores, or is about to, carries the digest of its text.
LEMMA HonestStep ==
    ASSUME TypeOK, HonestInv, [Next]_vars
    PROVE  HonestInv'
<1>1. ASSUME NEW v \in Actors, Store(v) \/ StoreRefresh(v) PROVE HonestInv'
  <2>1. /\ vector' = [vector EXCEPT ![read[v].source.issue] =
                        [digest |-> read[v].digest, of |-> read[v].source.text]]
        /\ read' = [read EXCEPT ![v] = None]
        /\ read[v].digest = read[v].source.text
    BY <1>1 DEF Store, StoreRefresh, Write, Finish, HonestInv
  <2> QED
    BY <2>1 DEF TypeOK, HonestInv
<1>2. ASSUME NEW v \in Actors, NEW s \in work[v], Read(v, s) PROVE HonestInv'
  BY <1>2 DEF Read, Unchanged, TypeOK, HonestInv
<1>3. ASSUME NEW v \in Actors, NEW s, Finish(v, s), UNCHANGED vector PROVE HonestInv'
  BY <1>3 DEF Finish, TypeOK, HonestInv
<1>4. ASSUME NEW v \in Actors, Abandon(v) PROVE HonestInv'
  BY <1>4 DEF Abandon, TypeOK, HonestInv
<1>5. ASSUME UNCHANGED <<vector, read>> PROVE HonestInv'
  BY <1>5 DEF HonestInv
<1>6. CASE \E v \in Workers : Pass(v)
  BY <1>6, <1>1, <1>2, <1>3, <1>5
     DEF Pass, Sweep, Enqueue, Claim, Fail, Decline, Actors
<1>7. CASE \E v \in Clients : Serve(v)
  BY <1>7, <1>1, <1>2, <1>3, <1>5 DEF Serve, Refresh, DeclineRefresh, Actors
<1> QED
  BY <1>4, <1>5, <1>6, <1>7
     DEF Next, vars, Change, File, Edit, Archive, ComeDue, actorVars

-----------------------------------------------------------------------------
(***************************************************************************)
(* The life of one job                                                     *)
(***************************************************************************)

\* A job that was there and stays there was left alone, started afresh for
\* another text, leased, came due, or was charged by a worker that held it.
Afresh(i) == \E x \in Texts : ~HasJob(i, x) /\ job'[i] = Fresh(x)
Leased(i) == job[i].when = "due" /\ job'[i] = [job[i] EXCEPT !.when = "later"]
CameDue(i) == job[i].when = "later" /\ job'[i] = [job[i] EXCEPT !.when = "due"]
Charged(i) ==
    /\ job'[i].digest = job[i].digest
    /\ job'[i].attempts = job[i].attempts + 1
    /\ job'[i].when = IF job[i].attempts + 1 >= MaxAttempts THEN "never" ELSE "later"
    /\ \E w \in Workers : \E s \in work[w] : s.issue = i /\ Fail(w, s)

\* Those five are all that a step does to a job it leaves in the queue.
LEMMA JobLife ==
    ASSUME TypeOK, [Next]_vars, NEW i \in Issues, job'[i] # None
    PROVE  \/ Afresh(i)
           \/ job[i] # None /\ (job'[i] = job[i] \/ Leased(i) \/ CameDue(i) \/ Charged(i))
<1> DEFINE Goal == \/ Afresh(i)
                   \/ job[i] # None /\ (\/ job'[i] = job[i] \/ Leased(i)
                                        \/ CameDue(i) \/ Charged(i))
<1>1. ASSUME NEW w \in Workers, Enqueue(w) PROVE Goal
  <2> DEFINE fresh == {s \in work[w] : ~HasJob(s.issue, s.text)}
  <2>1. job' = [k \in Issues |->
                 IF \E s \in fresh : s.issue = k
                 THEN Fresh((CHOOSE s \in fresh : s.issue = k).text)
                 ELSE job[k]]
    BY <1>1 DEF Enqueue
  <2>2. CASE \E s \in fresh : s.issue = i
    <3> DEFINE s == CHOOSE s \in fresh : s.issue = i
    <3>1. s \in fresh /\ s.issue = i
      BY <2>2
    <3>2. s.text \in Texts /\ ~HasJob(i, s.text)
      BY <3>1 DEF TypeOK, Sources, Actors
    <3>3. job'[i] = Fresh(s.text)
      BY <2>1, <2>2
    <3> QED
      BY <3>2, <3>3 DEF Afresh
  <2>3. CASE ~\E s \in fresh : s.issue = i
    BY <2>1, <2>3
  <2> QED
    BY <2>2, <2>3
<1>2. ASSUME NEW w \in Workers, Claim(w) PROVE Goal
  BY <1>2 DEF Claim, Due, Leased
<1>3. ASSUME NEW k \in Issues, ComeDue(k) PROVE Goal
  BY <1>3 DEF ComeDue, CameDue, TypeOK
<1>4. ASSUME NEW w \in Workers, NEW s \in work[w], Fail(w, s) PROVE Goal
  <2> DEFINE n == job[i].attempts + 1
             t == IF n >= MaxAttempts THEN "never" ELSE "later"
             J == [job[i] EXCEPT !.attempts = n, !.error = s.text, !.when = t]
  <2>1. CASE s.issue = i /\ job[i] # None
    <3>1. job'[i] = J /\ job[i] \in Jobs
      BY <1>4, <2>1 DEF Fail, Charge, TypeOK
    <3> HIDE DEF n, t
    <3>2. J.digest = job[i].digest /\ J.attempts = n /\ J.when = t
      BY <3>1 DEF Jobs
    <3> QED
      BY <1>4, <2>1, <3>1, <3>2 DEF Charged, n, t
  <2>2. CASE s.issue # i \/ job[i] = None
    BY <1>4, <2>2 DEF Fail, Charge, TypeOK
  <2> QED
    BY <2>1, <2>2
<1>5. ASSUME NEW k, job' = [job EXCEPT ![k] = None] PROVE Goal
  BY <1>5 DEF TypeOK
<1>6. ASSUME UNCHANGED job PROVE Goal
  BY <1>6
<1>7. CASE \E w \in Workers : Pass(w)
  BY <1>7, <1>1, <1>2, <1>4, <1>5, <1>6 DEF Pass, Sweep, Store, Decline, Read
<1>8. CASE \E c \in Clients : Serve(c)
  BY <1>8, <1>6 DEF Serve, Refresh, Read, DeclineRefresh, StoreRefresh
<1> QED
  BY <1>3, <1>6, <1>7, <1>8 DEF Next, vars, Change, File, Edit, Archive, Abandon

\* Every step retires a job exactly when its attempts are used up.
LEMMA RetiredStep ==
    ASSUME TypeOK, RetiredInv, [Next]_vars
    PROVE  RetiredInv'
<1> SUFFICES ASSUME NEW i \in Issues, job'[i] # None
             PROVE  job'[i].when = "never" <=> job'[i].attempts >= MaxAttempts
  BY DEF RetiredInv
<1>1. CASE Afresh(i)
  BY <1>1, BoundsAssumption DEF Afresh, Fresh
<1>2. CASE job[i] # None /\ job'[i] = job[i]
  BY <1>2 DEF RetiredInv
<1>3. CASE job[i] # None /\ (Leased(i) \/ CameDue(i))
  <2>1. job[i] \in Jobs
    BY <1>3 DEF TypeOK
  <2>2. job'[i].attempts = job[i].attempts /\ job[i].when # "never" /\ job'[i].when # "never"
    BY <1>3, <2>1 DEF Leased, CameDue, Jobs
  <2> QED
    BY <1>3, <2>2 DEF RetiredInv
<1>4. CASE job[i] # None /\ Charged(i)
  BY <1>4 DEF Charged
<1> QED
  BY <1>1, <1>2, <1>3, <1>4, JobLife

\* A pass can hold a job it did not hold only by claiming it, with attempts left.
LEMMA NewHolders ==
    ASSUME TypeOK, [Next]_vars, NEW i \in Issues
    PROVE  \/ Holders(i)' \subseteq Holders(i)
           \/ job[i] # None /\ job[i].when = "due" /\ job'[i] = [job[i] EXCEPT !.when = "later"]
<1> DEFINE Fewer == Holders(i)' \subseteq Holders(i)
<1>1. ASSUME NEW v \in Actors, NEW s, Finish(v, s) PROVE Fewer
  BY <1>1 DEF Finish, TypeOK, Holders, Actors
<1>2. ASSUME NEW v \in Workers, Claim(v)
      PROVE  Fewer \/ (job[i] # None /\ job[i].when = "due"
                       /\ job'[i] = [job[i] EXCEPT !.when = "later"])
  <2>1. CASE i \in Due
    BY <1>2, <2>1 DEF Claim, Due
  <2>2. CASE i \notin Due
    BY <1>2, <2>2 DEF Claim, AsSources, TypeOK, Holders, Actors
  <2> QED
    BY <2>1, <2>2
<1>3. ASSUME NEW v \in Actors, Sweep(v) \/ Enqueue(v) \/ Refresh(v) PROVE Fewer
  BY <1>3 DEF Sweep, Enqueue, Refresh, TypeOK, Holders, Actors
<1>4. ASSUME NEW v \in Actors, Abandon(v) PROVE Fewer
  BY <1>4 DEF Abandon, TypeOK, Holders, Actors
<1>5. ASSUME UNCHANGED <<stage, work>> PROVE Fewer
  BY <1>5 DEF Holders
<1>6. CASE \E v \in Workers : Pass(v)
  BY <1>6, <1>1, <1>2, <1>3, <1>5 DEF Pass, Store, Fail, Decline, Read, Actors
<1>7. CASE \E v \in Clients : Serve(v)
  BY <1>7, <1>1, <1>3, <1>5 DEF Serve, StoreRefresh, DeclineRefresh, Read, Actors
<1> QED
  BY <1>4, <1>5, <1>6, <1>7
     DEF Next, vars, Change, File, Edit, Archive, ComeDue, actorVars

\* Charging a job is the last thing a worker does to it before it claims again.
LEMMA ChargedHolders ==
    ASSUME TypeOK, OnceInv, NEW i \in Issues,
           NEW w \in Workers, NEW s \in work[w], s.issue = i, Fail(w, s)
    PROVE  Cardinality(Holders(i)') = Cardinality(Holders(i)) - 1
<1>1. w \in Holders(i)
  BY DEF Fail, Holders
<1>2. Holders(i)' = Holders(i) \ {w}
  <2>1. /\ w \in Actors
        /\ work' = [work EXCEPT ![w] = @ \ {s}]
        /\ stage' = [stage EXCEPT ![w] = IF work[w] = {s} THEN "idle" ELSE @]
    BY DEF Fail, Finish, Actors
  <2>2. w \notin Holders(i)'
    BY <2>1 DEF Holders, OnceInv, TypeOK
  <2>3. \A v \in Workers \ {w} : v \in Holders(i)' <=> v \in Holders(i)
    BY <2>1 DEF Holders, TypeOK, Actors
  <2> QED
    BY <2>2, <2>3 DEF Holders
<1> QED
  BY <1>1, <1>2, HoldersFinite, FS_RemoveElement

\* A step charges a job only at the expense of a holder of it.
LEMMA ChargeStep ==
    ASSUME TypeOK, TypeOK', OnceInv, RetiredInv, ChargeInv, [Next]_vars
    PROVE  ChargeInv'
<1> SUFFICES ASSUME NEW i \in Issues, job'[i] # None
             PROVE  job'[i].attempts + Cardinality(Holders(i)')
                        < MaxAttempts + Cardinality(Workers)
  BY DEF ChargeInv
<1>0. job'[i].attempts \in Nat /\ (job[i] # None => job[i].attempts \in Nat)
  BY DEF TypeOK, Jobs
<1>1. CASE Afresh(i)
  BY <1>1, AttemptsLeft, BoundsAssumption DEF Afresh, Fresh
<1>2. CASE job[i] # None /\ Charged(i)
  <2>1. Cardinality(Holders(i)') = Cardinality(Holders(i)) - 1
    BY <1>2, ChargedHolders DEF Charged
  <2> QED
    BY <1>0, <1>2, <2>1, HoldersFinite, BoundsAssumption DEF Charged, ChargeInv
<1>3. CASE job[i] # None /\ job'[i].attempts = job[i].attempts
  <2>1. CASE job[i].when = "due"
    <3>1. job[i].attempts < MaxAttempts
      BY <1>0, <1>3, <2>1, BoundsAssumption DEF RetiredInv
    <3> QED
      BY <1>0, <1>3, <3>1, AttemptsLeft
  <2>2. CASE job[i].when # "due"
    <3>1. Cardinality(Holders(i)') <= Cardinality(Holders(i))
      BY <2>2, NewHolders, FewerHolders
    <3> QED
      BY <1>0, <1>3, <3>1, HoldersFinite, HoldersFiniteNext, BoundsAssumption DEF ChargeInv
  <2> QED
    BY <2>1, <2>2
<1>4. ASSUME job[i] # None, job'[i] = job[i] \/ Leased(i) \/ CameDue(i)
      PROVE  job'[i].attempts = job[i].attempts
  <2>1. job[i] \in Jobs
    BY <1>4 DEF TypeOK
  <2> QED
    BY <1>4, <2>1 DEF Leased, CameDue, Jobs
<1> QED
  BY <1>1, <1>2, <1>3, <1>4, JobLife

-----------------------------------------------------------------------------
(***************************************************************************)
(* Theorems                                                                *)
(***************************************************************************)

\* Every step of the queue keeps the invariant.
LEMMA QueueStep == IInv /\ [Next]_vars => IInv'
<1> SUFFICES ASSUME IInv, [Next]_vars PROVE IInv'
  OBVIOUS
<1>1. TypeOK'
  BY TypeInv DEF IInv
<1>2. FiledInv' /\ StoringInv' /\ HonestInv' /\ OnceInv' /\ RetiredInv'
  BY FiledStep, StoringStep, HonestStep, OnceStep, RetiredStep DEF IInv
<1>3. ChargeInv'
  BY <1>1, ChargeStep DEF IInv
<1> QED
  BY <1>1, <1>2, <1>3 DEF IInv

\* A vector that is filed under the text it was made from is not taken for another's.
LEMMA HonestFollows == IInv => VectorsAreHonest
BY DEF IInv, HonestInv, VectorsAreHonest, Current

\* A job and those who may charge it are within the bound, and so is the job.
LEMMA AttemptsFollow == IInv => AttemptsStaySmall
<1> SUFFICES ASSUME IInv, NEW i \in Issues, job[i] # None
             PROVE  job[i].attempts < MaxAttempts + Cardinality(Workers)
  BY DEF AttemptsStaySmall
<1>1. job[i].attempts \in Nat
  BY DEF IInv, TypeOK, Jobs
<1> QED
  BY <1>1, HoldersFinite, BoundsAssumption DEF IInv, ChargeInv

\* The inductive invariant.
THEOREM InductiveInvariant == Spec => []IInv
<1>1. Init => IInv
  BY InitInv
<1> QED
  BY <1>1, QueueStep, PTL DEF Spec

\* The type invariant holds for any number of issues, processes and clients.
THEOREM TypeCorrect == Spec => []TypeOK
<1>1. IInv => TypeOK
  BY DEF IInv
<1> QED
  BY <1>1, InductiveInvariant, PTL

\* upsert's comparison of digests is enough: no vector that search takes for
\* current was made from another text.
THEOREM HonestTheorem == Spec => []VectorsAreHonest
BY HonestFollows, InductiveInvariant, PTL

\* MaxAttempts and one more for each other worker bound what fail can count.
THEOREM AttemptsTheorem == Spec => []AttemptsStaySmall
BY AttemptsFollow, InductiveInvariant, PTL

\* The WHERE of enqueue_stale's DO UPDATE keeps concurrent sweeps from
\* discarding attempts, and fail never brings a retired job back.
THEOREM AttemptsKeptTheorem == Spec => AttemptsAreNotDiscarded
<1>1. IInv /\ [Next]_vars => [\A i \in Issues : KeepsCount(i)]_vars
  <2> SUFFICES ASSUME IInv, [Next]_vars, NEW i \in Issues,
                      job[i] # None, job'[i] # None, job'[i].digest = job[i].digest
               PROVE  /\ job'[i].attempts >= job[i].attempts
                      /\ job[i].when = "never" => job'[i].when = "never"
    BY DEF KeepsCount
  <2>1. job[i] \in Jobs /\ TypeOK /\ RetiredInv
    BY DEF IInv, TypeOK
  <2>2. ~Afresh(i)
    <3>1. ASSUME NEW x \in Texts, job'[i] = Fresh(x) PROVE HasJob(i, x)
      <4>1. Fresh(x).digest = x
        BY DEF Fresh
      <4> QED
        BY <3>1, <4>1 DEF HasJob
    <3> QED
      BY <3>1 DEF Afresh
  <2>3. CASE job'[i] = job[i] \/ Leased(i) \/ CameDue(i)
    BY <2>1, <2>3 DEF Leased, CameDue, Jobs
  <2>4. CASE Charged(i)
    BY <2>1, <2>4, BoundsAssumption DEF Charged, RetiredInv, Jobs
  <2> QED
    BY <2>1, <2>2, <2>3, <2>4, JobLife
<1> QED
  BY <1>1, InductiveInvariant, PTL DEF Spec, AttemptsAreNotDiscarded

-----------------------------------------------------------------------------
(* The migration runner.                                                    *)

\* A finite set of numbers has a least one.
LEMMA FiniteMinimum ==
  ASSUME NEW S \in SUBSET Nat, IsFiniteSet(S), S # {}
  PROVE  \E x \in S : \A y \in S : x <= y
<1> DEFINE T == {U \in SUBSET S : U # {} /\ ~\E x \in U : \A y \in U : x <= y}
<1> SUFFICES ASSUME T # {} PROVE FALSE
  OBVIOUS
<1>1. T \subseteq FiniteSubsetsOf(S)
  BY FS_Subset DEF FiniteSubsetsOf
<1> HIDE DEF T
<1>2. PICK U \in T : \A V \in T : ~(<<V, U>> \in StrictSubsetOrdering(S))
  BY <1>1, WFMin, FS_StrictSubsetOrderingWellFounded
<1> USE DEF T
<1>3. PICK u \in U : TRUE
  OBVIOUS
<1>4. U \ {u} # {}
  OBVIOUS
<1>5. U \ {u} \notin T
  BY <1>2 DEF StrictSubsetOrdering
<1>6. PICK x \in U \ {u} : \A y \in U \ {u} : x <= y
  BY <1>4, <1>5
<1> QED BY <1>6

\* And so has any other.
LEMMA LeastNatural ==
  ASSUME NEW S \in SUBSET Nat, S # {}
  PROVE  \E x \in S : \A y \in S : x <= y
<1>1. PICK n \in S : TRUE
  OBVIOUS
<1> DEFINE U == S \intersect (0..n)
<1>2. IsFiniteSet(U)
  <2>1. IsFiniteSet(0..n)
    BY FS_Interval
  <2> QED BY <2>1, FS_Subset
<1>3. U \subseteq Nat /\ n \in U
  OBVIOUS
<1>4. PICK x \in U : \A y \in U : x <= y
  <2> HIDE DEF U
  <2> QED BY <1>2, <1>3, FiniteMinimum
<1>5. ASSUME NEW y \in S PROVE x <= y
  BY <1>4
<1> QED BY <1>4, <1>5

\* What the migrations assume of their constants.
LEMMA MigrationConstants == Migrating!LegalMigrationConstants
BY LegalConstants

\* The first of what is pending is pending.
LEMMA LeastIsPlanned ==
  ASSUME NEW S \in SUBSET Migrating!Versions, S # {}
  PROVE  Migrating!Least(S) \in S
<1>1. S \subseteq Nat
  BY MigrationConstants DEF Migrating!LegalMigrationConstants
<1> QED BY <1>1, LeastNatural DEF Migrating!Least

\* What was executed, by a ledger that tells it.
Tells(l) == \A v \in Migrating!Versions : ran[v] = IF l[v] = None THEN 0 ELSE 1

\* The table of a database older than the ledger tells which migrations ran.
OlderInv ==
  Migrating!Recorded(versions) = {} =>
    /\ table = None => \A v \in Migrating!Versions : ran[v] = 0
    /\ table = {} => \A v \in Migrating!Versions : ran[v] = IF v = Migrating!First THEN 1 ELSE 0

\* A run of --all has still to apply what of its checkout the ledger lacks.
Through(c, left) == \A v \in DOMAIN c \ left : versions[v] = c[v]

\* A run under way has something to apply, all of it in its checkout.
RunnersInv ==
  \A r \in Runners : runner[r] # Migrating!Idle =>
    /\ runner[r].plan # {} /\ runner[r].plan \subseteq DOMAIN runner[r].files
    /\ runner[r].all => Through(runner[r].files, runner[r].plan)

\* The lock is held by the run inside it, which has read the ledger and agreed.
LockInv ==
  /\ \A r \in Runners : (lock = r) <=> (runner[r].at = "inside")
  /\ \A r \in Runners : runner[r].at = "inside" =>
       /\ ~Migrating!Refused(versions) /\ runner[r].seen = Migrating!Prepared(runner[r].files)
       /\ ~Migrating!Mismatch(runner[r].seen, runner[r].files)

\* The inductive invariant of the migration runner.
MigrationInv ==
  /\ Migrating!MigrationTypeOK
  /\ runner \in [Runners -> {Migrating!Idle} \union Migrating!Run \union Migrating!Inside]
  /\ OlderInv /\ RunnersInv /\ LockInv
  /\ Migrating!LedgerTellsTheSchema /\ Migrating!BootMeansApplied

\* A checkout has contents for its versions, the first among them.
LEMMA Checked ==
  ASSUME NEW c \in Checkouts
  PROVE  /\ DOMAIN c \subseteq Migrating!Versions
         /\ Migrating!First \in DOMAIN c
         /\ \A v \in DOMAIN c : c[v] \in Migrating!Contents /\ c[v] # None
BY MigrationConstants DEF Migrating!LegalMigrationConstants, Migrating!Versions, Migrating!Contents

\* Whatever is prepared is a ledger that tells the schema.
LEMMA PreparedTells ==
  ASSUME MigrationInv, NEW c \in Checkouts, ~Migrating!Refused(versions)
  PROVE  /\ Migrating!Prepared(c) \in Migrating!Ledger
         /\ Tells(Migrating!Prepared(c))
         /\ \A v \in Migrating!Versions : versions[v] # None => Migrating!Prepared(c)[v] = versions[v]
         /\ ~Migrating!Mismatch(versions, c) =>
              \A v \in DOMAIN c : Migrating!Prepared(c)[v] = None \/ Migrating!Prepared(c)[v] = c[v]
<1> DEFINE V == Migrating!Versions
           l == Migrating!Prepared(c)
           f == Migrating!First
<1>1. versions \in [V -> Migrating!Contents \union {None}]
  BY DEF MigrationInv, Migrating!MigrationTypeOK, Migrating!Ledger
<1>2. DOMAIN c \subseteq V /\ f \in DOMAIN c /\ \A v \in DOMAIN c : c[v] \in Migrating!Contents /\ c[v] # None
  BY Checked
<1>3. CASE Migrating!Recorded(versions) = {} /\ Migrating!MatchesInitial
  <2>1. l = [versions EXCEPT ![f] = c[f]]
    BY <1>3 DEF Migrating!Prepared
  <2>2. l \in Migrating!Ledger
    BY <2>1, <1>1, <1>2 DEF Migrating!Ledger
  <2>3. \A v \in V : versions[v] = None
    BY <1>3 DEF Migrating!Recorded
  <2>4. l[f] = c[f] /\ \A v \in V \ {f} : l[v] = None
    BY <2>1, <2>3, <1>1, <1>2
  <2>5. \A v \in V : ran[v] = IF v = f THEN 1 ELSE 0
    BY <1>3 DEF MigrationInv, OlderInv, Migrating!MatchesInitial
  <2>6. Tells(l)
    BY <2>4, <2>5, <1>2 DEF Tells
  <2> QED BY <2>2, <2>3, <2>4, <2>6, <1>2
<1>4. CASE ~(Migrating!Recorded(versions) = {} /\ Migrating!MatchesInitial)
  <2>1. l = versions
    BY <1>4 DEF Migrating!Prepared
  <2>2. Tells(versions)
    <3>1. CASE Migrating!Recorded(versions) # {}
      BY <3>1 DEF MigrationInv, Migrating!LedgerTellsTheSchema, Tells
    <3>2. CASE Migrating!Recorded(versions) = {}
      <4>1. table = None
        BY <3>2, <1>4 DEF Migrating!Refused
      <4>2. \A v \in V : versions[v] = None
        BY <3>2 DEF Migrating!Recorded
      <4> QED BY <3>2, <4>1, <4>2 DEF MigrationInv, OlderInv, Tells
    <3> QED BY <3>1, <3>2
  <2>3. ~Migrating!Mismatch(versions, c) => \A v \in DOMAIN c : versions[v] = None \/ versions[v] = c[v]
    BY <1>2 DEF Migrating!Mismatch, Migrating!Recorded
  <2> QED BY <2>1, <2>2, <2>3, <1>1 DEF Migrating!Ledger
<1> QED BY <1>3, <1>4

\* A database is new, was taken some way by the former runner, or is one nobody can explain.
LEMMA MigrationStart == Migrating!MigrationInit => MigrationInv
<1> SUFFICES ASSUME Migrating!MigrationInit PROVE MigrationInv
  OBVIOUS
<1> DEFINE V == Migrating!Versions
<1>1. V \subseteq Nat \ {0} /\ None \notin Migrating!Contents
  BY MigrationConstants DEF Migrating!LegalMigrationConstants
<1>2. versions = [v \in V |-> None] /\ Migrating!Recorded(versions) = {}
  BY DEF Migrating!MigrationInit, Migrating!Recorded
<1>3. /\ runner = [r \in Runners |-> Migrating!Idle] /\ lock = None /\ booted = {}
      /\ \A r \in Runners : runner[r] = Migrating!Idle /\ runner[r].at # "inside"
  BY DEF Migrating!MigrationInit, Migrating!Idle
<1>4. /\ table \in (SUBSET Aspects) \union {None} /\ ran \in [V -> Nat]
      /\ table = None => \A v \in V : ran[v] = 0
      /\ table = {} => \A v \in V : ran[v] = IF v = Migrating!First THEN 1 ELSE 0
  <2>1. CASE table = None /\ ran = [v \in V |-> 0]
    <3>1. None # {}
      BY MigrationConstants DEF Migrating!LegalMigrationConstants
    <3> QED BY <2>1, <3>1
  <2>2. ASSUME NEW last \in V, table \in SUBSET Aspects, (table = {}) = (last = Migrating!First),
               ran = [v \in V |-> IF v <= last THEN 1 ELSE 0]
        PROVE  /\ ran \in [V -> Nat] /\ table # None
               /\ table = {} => \A v \in V : ran[v] = IF v = Migrating!First THEN 1 ELSE 0
    <3>1. ran \in [V -> Nat]
      BY <2>2
    <3>2. table # None
      BY <2>2, MigrationConstants DEF Migrating!LegalMigrationConstants
    <3>3. \A v \in V : (v <= 1) <=> (v = 1)
      BY <1>1
    <3> QED BY <2>2, <1>1, <3>1, <3>2, <3>3 DEF Migrating!First
  <2> QED BY <2>1, <2>2 DEF Migrating!MigrationInit
<1>5. \A r \in Runners : lock # r
  BY <1>3, MigrationConstants DEF Migrating!LegalMigrationConstants
<1> QED
  BY <1>1, <1>2, <1>3, <1>4, <1>5 DEF MigrationInv, Migrating!MigrationTypeOK, Migrating!Ledger, OlderInv, RunnersInv, LockInv,
     Migrating!LedgerTellsTheSchema, Migrating!BootMeansApplied, Migrating!Idle

\* A commit of the ledger, which adds to it, and the end of the transaction.
LEMMA CommitKeeps ==
  ASSUME MigrationInv, NEW r \in Runners, NEW c \in Checkouts, NEW left \in SUBSET DOMAIN c, NEW all \in BOOLEAN,
         versions' \in Migrating!Ledger, \A v \in Migrating!Versions : versions[v] # None => versions'[v] = versions[v],
         table' \in (SUBSET Aspects) \union {None}, ran' \in [Migrating!Versions -> Nat],
         OlderInv', Migrating!LedgerTellsTheSchema', all => Through(c, left)',
         runner' = [runner EXCEPT ![r] = Migrating!Planned(c, left, all)], booted' = Migrating!Seen(c, left, all),
         lock \in {None, r}, lock' = None
  PROVE  MigrationInv'
<1>1. MigrationInv /\ None \notin Runners
  BY MigrationConstants DEF Migrating!LegalMigrationConstants
<1>2. ASSUME NEW d \in Checkouts, NEW rest, Through(d, rest) PROVE Through(d, rest)'
  BY <1>2, Checked DEF Through
<1>3. left \subseteq Migrating!Versions
  BY Checked
<1>4. /\ runner'[r] = IF left = {} THEN [at |-> "idle"]
                      ELSE [at |-> "planned", files |-> c, plan |-> left, all |-> all]
      /\ \A q \in Runners \ {r} : runner'[q] = runner[q]
      /\ runner' \in [Runners -> {Migrating!Idle} \union Migrating!Run \union Migrating!Inside]
  <2>1. Migrating!Planned(c, left, all) \in {Migrating!Idle} \union Migrating!Run
    BY <1>3 DEF Migrating!Planned, Migrating!Run
  <2> QED BY <2>1, <1>1 DEF MigrationInv, Migrating!Planned, Migrating!Idle
<1>5. booted' \subseteq Checkouts
  BY <1>1 DEF Migrating!Seen, MigrationInv, Migrating!MigrationTypeOK
<1>6. Migrating!MigrationTypeOK'
  BY <1>4, <1>5 DEF Migrating!MigrationTypeOK
<1>7. RunnersInv'
  <2> SUFFICES ASSUME NEW q \in Runners, runner'[q] # Migrating!Idle
               PROVE  /\ runner'[q].plan # {} /\ runner'[q].plan \subseteq DOMAIN runner'[q].files
                      /\ runner'[q].all =>
                           \A v \in DOMAIN runner'[q].files \ runner'[q].plan : versions'[v] = runner'[q].files[v]
    BY DEF RunnersInv, Through
  <2>1. CASE q = r
    BY <2>1, <1>4 DEF Migrating!Idle, Through
  <2>2. CASE q # r
    <3>1. /\ runner[q].plan # {} /\ runner[q].plan \subseteq DOMAIN runner[q].files
          /\ runner[q].all => Through(runner[q].files, runner[q].plan)
      BY <2>2, <1>4 DEF MigrationInv, RunnersInv
    <3>2. runner[q].files \in Checkouts
      BY <2>2, <1>4 DEF MigrationInv, Migrating!Idle, Migrating!Run, Migrating!Inside
    <3> QED BY <2>2, <3>1, <3>2, <1>4, <1>2 DEF Through
  <2> QED BY <2>1, <2>2
<1>8. \A q \in Runners : runner'[q].at # "inside" /\ lock' # q
  BY <1>1, <1>4 DEF MigrationInv, LockInv
<1>9. Migrating!BootMeansApplied'
  <2> SUFFICES ASSUME NEW d \in booted' PROVE Through(d, {})'
    BY DEF Migrating!BootMeansApplied, Through
  <2>1. CASE d \in booted
    <3>1. Through(d, {}) /\ d \in Checkouts
      BY <2>1 DEF MigrationInv, Migrating!BootMeansApplied, Through, Migrating!MigrationTypeOK
    <3> QED BY <3>1, <1>2
  <2>2. CASE d \notin booted
    BY <2>2 DEF Migrating!Seen
  <2> QED BY <2>1, <2>2
<1> QED BY <1>4, <1>6, <1>7, <1>8, <1>9 DEF MigrationInv, LockInv

\* A container boots with its checkout and lists what is pending.
LEMMA BootKeeps ==
  ASSUME MigrationInv, NEW r \in Runners, NEW c \in Checkouts, Migrating!Boot(r, c)
  PROVE  MigrationInv'
<1> DEFINE V == Migrating!Versions
<1>4. PICK plan \in SUBSET DOMAIN c : plan = DOMAIN c \ Migrating!Recorded(Migrating!Prepared(c))
  OBVIOUS
<1>1. /\ runner[r] = Migrating!Idle /\ lock = None
      /\ ~Migrating!Refused(versions) /\ ~Migrating!Mismatch(versions, c)
      /\ versions' = Migrating!Prepared(c) /\ runner' = [runner EXCEPT ![r] = Migrating!Planned(c, plan, TRUE)]
      /\ booted' = Migrating!Seen(c, plan, TRUE)
      /\ UNCHANGED <<table, ran, lock>>
  BY <1>4 DEF Migrating!Boot
<1>2. /\ versions' \in Migrating!Ledger /\ (\A v \in V : ran[v] = IF versions'[v] = None THEN 0 ELSE 1)
      /\ \A v \in V : versions[v] # None => versions'[v] = versions[v]
      /\ \A v \in DOMAIN c : versions'[v] = None \/ versions'[v] = c[v]
  BY <1>1, PreparedTells DEF Tells
<1>3. Through(c, plan)'
  BY <1>1, <1>4, <1>2, Checked DEF Through, Migrating!Recorded
<1>5. OlderInv'
  BY <1>1, <1>2 DEF MigrationInv, OlderInv, Migrating!Recorded
<1>6. Migrating!LedgerTellsTheSchema'
  BY <1>1, <1>2 DEF Tells, Migrating!LedgerTellsTheSchema
<1>7. table' \in (SUBSET Aspects) \union {None} /\ ran' \in [V -> Nat]
  BY <1>1 DEF MigrationInv, Migrating!MigrationTypeOK
<1> QED BY <1>1, <1>2, <1>3, <1>4, <1>5, <1>6, <1>7, CommitKeeps

\* A migration runs and is entered in one transaction.
LEMMA ApplyKeeps ==
  ASSUME MigrationInv, NEW r \in Runners, Migrating!Apply(r)
  PROVE  MigrationInv'
<1> DEFINE V == Migrating!Versions
<1>1. runner[r].at = "inside"
  BY DEF Migrating!Apply
<1>2. PICK c \in Checkouts, plan \in SUBSET V, all \in BOOLEAN, l \in Migrating!Ledger :
        runner[r] = [at |-> "inside", files |-> c, plan |-> plan, all |-> all, seen |-> l]
  BY <1>1 DEF MigrationInv, Migrating!Idle, Migrating!Run, Migrating!Inside
<1>3. /\ plan # {} /\ plan \subseteq DOMAIN c /\ (all => Through(c, plan)) /\ lock = r
      /\ ~Migrating!Refused(versions) /\ l = Migrating!Prepared(c) /\ ~Migrating!Mismatch(l, c)
  BY <1>1, <1>2 DEF MigrationInv, RunnersInv, LockInv, Migrating!Idle
<1>4. /\ Tells(l) /\ \A v \in V : versions[v] # None => l[v] = versions[v]
  BY <1>3, PreparedTells
<1>5. PICK v \in plan : v = Migrating!Least(plan)
  BY <1>3, LeastIsPlanned
<1>6. /\ \/ l[v] = None /\ Migrating!Executes(v)
            /\ table' = Migrating!Changed(v) /\ ran' = [ran EXCEPT ![v] = @ + 1]
            /\ versions' = [l EXCEPT ![v] = c[v]]
         \/ l[v] # None /\ versions' = l /\ UNCHANGED <<table, ran>>
      /\ runner' = [runner EXCEPT ![r] = Migrating!Planned(c, plan \ {v}, all)]
      /\ booted' = Migrating!Seen(c, plan \ {v}, all) /\ lock' = None
  BY <1>2, <1>5 DEF Migrating!Apply, Migrating!Pending
<1>7. v \in V /\ c[v] \in Migrating!Contents /\ c[v] # None
  BY <1>3, Checked
<1>8. versions' \in Migrating!Ledger /\ versions'[v] = c[v] /\ \A w \in V \ {v} : versions'[w] = l[w]
  <2>1. CASE l[v] = None
    BY <2>1, <1>6, <1>7 DEF Migrating!Ledger
  <2>2. CASE l[v] # None
    <3>1. l[v] = c[v]
      BY <2>2, <1>3, <1>7 DEF Migrating!Mismatch, Migrating!Recorded
    <3> QED BY <2>2, <3>1, <1>6
  <2> QED BY <2>1, <2>2
<1>9. /\ table' \in (SUBSET Aspects) \union {None} /\ ran' \in [V -> Nat] 
      /\ \A w \in V : ran'[w] = IF versions'[w] = None THEN 0 ELSE 1
  <2>1. ran \in [V -> Nat] /\ table \in (SUBSET Aspects) \union {None}
    BY DEF MigrationInv, Migrating!MigrationTypeOK
  <2>2. CASE l[v] = None
    <3>1. table' \in (SUBSET Aspects) \union {None}
      BY <2>1, <2>2, <1>6, MigrationConstants
         DEF Migrating!LegalMigrationConstants, Migrating!Changed, Migrating!Executes
    <3>2. ran' \in [V -> Nat] /\ ran'[v] = 1 /\ \A w \in V \ {v} : ran'[w] = ran[w]
      BY <2>1, <2>2, <1>4, <1>6, <1>7 DEF Tells
    <3> QED BY <3>1, <3>2, <1>4, <1>7, <1>8 DEF Tells
  <2>3. CASE l[v] # None
    BY <2>1, <2>3, <1>4, <1>6 DEF Tells
  <2> QED BY <2>2, <2>3
<1>10. OlderInv' /\ Migrating!LedgerTellsTheSchema'
  BY <1>7, <1>8, <1>9 DEF OlderInv, Migrating!LedgerTellsTheSchema, Migrating!Recorded, Tells
<1>11. all => Through(c, plan \ {v})'
  BY <1>3, <1>4, <1>8, Checked DEF Through
<1>12. \A w \in V : versions[w] # None => versions'[w] = versions[w]
  BY <1>3, <1>4, <1>6, <1>8
<1>13. plan \ {v} \in SUBSET DOMAIN c
  BY <1>3
<1> QED BY <1>3, <1>6, <1>8, <1>9, <1>10, <1>11, <1>12, <1>13, CommitKeeps

\* A run begins, is let in, or stops: nothing is committed.
LEMMA RunMoves ==
  ASSUME MigrationInv, NEW r \in Runners, UNCHANGED <<versions, table, ran, booted>>,
         NEW q \in {Migrating!Idle} \union Migrating!Run \union Migrating!Inside,
         runner' = [runner EXCEPT ![r] = q],
         q # Migrating!Idle => /\ q.plan # {} /\ q.plan \subseteq DOMAIN q.files
                               /\ q.all => Through(q.files, q.plan),
         q.at = "inside" => /\ ~Migrating!Refused(versions) /\ q.seen = Migrating!Prepared(q.files)
                            /\ ~Migrating!Mismatch(q.seen, q.files) /\ lock = None /\ lock' = r,
         q.at # "inside" => lock' = IF lock = r THEN None ELSE lock
  PROVE  MigrationInv'
<1>1. MigrationInv /\ None \notin Runners
  BY MigrationConstants DEF Migrating!LegalMigrationConstants
<1>2. /\ runner'[r] = q /\ \A p \in Runners \ {r} : runner'[p] = runner[p]
      /\ runner' \in [Runners -> {Migrating!Idle} \union Migrating!Run \union Migrating!Inside]
  BY <1>1 DEF MigrationInv
<1>3. Migrating!MigrationTypeOK'
  BY <1>1, <1>2 DEF MigrationInv, Migrating!MigrationTypeOK
<1>4. OlderInv' /\ Migrating!LedgerTellsTheSchema' /\ Migrating!BootMeansApplied'
  BY <1>1 DEF MigrationInv, OlderInv, Migrating!LedgerTellsTheSchema, Migrating!BootMeansApplied,
     Migrating!Recorded
<1>5. RunnersInv'
  BY <1>1, <1>2 DEF MigrationInv, RunnersInv, Through
<1>6. LockInv'
  <2>1. /\ \A c : Migrating!Prepared(c)' = Migrating!Prepared(c)
        /\ Migrating!Refused(versions)' <=> Migrating!Refused(versions)
    BY DEF Migrating!Prepared, Migrating!Refused, Migrating!MatchesInitial, Migrating!Recorded
  <2> QED BY <1>1, <1>2, <2>1 DEF MigrationInv, LockInv, Migrating!Mismatch, Migrating!Recorded
<1> QED BY <1>2, <1>3, <1>4, <1>5, <1>6 DEF MigrationInv

\* Every step of a migration keeps the invariant.
LEMMA MigrationStep == MigrationInv /\ [Migrating!MigrationNext]_migrationVars => MigrationInv'
<1> SUFFICES ASSUME MigrationInv, [Migrating!MigrationNext]_migrationVars PROVE MigrationInv'
  OBVIOUS
<1>1. ASSUME NEW r \in Runners, NEW c \in Checkouts, NEW v \in DOMAIN c, Migrating!ApplyFile(r, c, v)
      PROVE  MigrationInv'
  <2> DEFINE q == [at |-> "planned", files |-> c, plan |-> {v}, all |-> FALSE]
  <2>1. /\ runner[r] = Migrating!Idle /\ runner' = [runner EXCEPT ![r] = q]
        /\ UNCHANGED <<versions, table, ran, lock, booted>>
    BY <1>1 DEF Migrating!ApplyFile, Migrating!Planned
  <2>2. q \in Migrating!Run /\ q.plan # {} /\ q.plan \subseteq DOMAIN q.files /\ ~q.all /\ q.at # "inside"
    BY Checked DEF Migrating!Run
  <2>3. lock # r
    BY <2>1 DEF MigrationInv, LockInv, Migrating!Idle
  <2> HIDE DEF q
  <2> QED BY <2>1, <2>2, <2>3, RunMoves
<1>2. ASSUME NEW r \in Runners, Migrating!Lock(r) PROVE MigrationInv'
  <2>1. /\ runner[r].at = "planned" /\ lock = None /\ ~Migrating!Refused(versions) /\ lock' = r
        /\ UNCHANGED <<versions, table, ran, booted>>
    BY <1>2 DEF Migrating!Lock
  <2>2. PICK c \in Checkouts, plan \in SUBSET Migrating!Versions, all \in BOOLEAN :
          runner[r] = [at |-> "planned", files |-> c, plan |-> plan, all |-> all]
    BY <2>1 DEF MigrationInv, Migrating!Idle, Migrating!Run, Migrating!Inside
  <2> DEFINE q == [at |-> "inside", files |-> c, plan |-> plan, all |-> all, seen |-> Migrating!Prepared(c)]
  <2>3. runner' = [runner EXCEPT ![r] = q] /\ ~Migrating!Mismatch(Migrating!Prepared(c), c)
    BY <1>2, <2>2 DEF Migrating!Lock, Migrating!Verified
  <2>4. q \in Migrating!Inside
    BY <2>1, PreparedTells DEF Migrating!Inside
  <2>5. /\ q.at = "inside" /\ q.files = c /\ q.plan = plan /\ q.all = all /\ q.seen = Migrating!Prepared(c)
    OBVIOUS
  <2>6. plan # {} /\ plan \subseteq DOMAIN c /\ (all => Through(c, plan))
    BY <2>2 DEF MigrationInv, RunnersInv, Migrating!Idle
  <2> HIDE DEF q
  <2> QED BY <2>1, <2>3, <2>4, <2>5, <2>6, RunMoves
<1>3. ASSUME NEW r \in Runners, Migrating!Stop(r) PROVE MigrationInv'
  BY <1>3, RunMoves DEF Migrating!Stop, Migrating!Idle
<1>4. CASE UNCHANGED migrationVars
  <2>1. UNCHANGED <<versions, table, ran, runner, lock, booted>>
    BY <1>4 DEF migrationVars
  <2> QED
    BY <2>1 DEF MigrationInv, OlderInv, RunnersInv, LockInv, Through, Migrating!MigrationTypeOK,
       Migrating!LedgerTellsTheSchema, Migrating!BootMeansApplied, Migrating!Prepared, Migrating!Refused,
       Migrating!MatchesInitial, Migrating!Recorded, Migrating!Mismatch
<1> QED BY <1>1, <1>2, <1>3, <1>4, BootKeeps, ApplyKeeps DEF Migrating!MigrationNext

-----------------------------------------------------------------------------
(* The calendar, and the rules in closed form.                               *)

\* A number is so many times another, and a remainder.
LEMMA Divided ==
  ASSUME NEW d \in Nat, NEW n \in Nat \ {0}
  PROVE  \E q \in Nat, r \in 0..(n - 1) : d = n * q + r /\ d \div n = q /\ d % n = r
<1>1. PICK q \in Int : q = d \div n
  OBVIOUS
<1>2. PICK r \in 0..(n - 1) : r = d % n
  OBVIOUS
<1>3. d = n * q + r
  BY <1>1, <1>2
<1>4. q \in Nat
  BY <1>1
<1>5. d = n * q + r /\ d \div n = q /\ d % n = r
  BY <1>1, <1>2, <1>3
<1>. QED  BY <1>4, <1>5

\* And in one way only.
LEMMA DividedOnce ==
  ASSUME NEW n \in Nat \ {0}, NEW q \in Nat, NEW r \in 0..(n - 1), NEW d \in Nat, d = n * q + r
  PROVE  d \div n = q /\ d % n = r
OBVIOUS

\* The multiples of a number up to another.
LEMMA Multiples ==
  ASSUME NEW n \in Nat \ {0}, NEW a \in Nat, NEW b \in Nat, a <= b
  PROVE  a % n = 0 <=> \E k \in 0..(b \div n) : a = n * k
<1>1. PICK q \in Nat, r \in 0..(n - 1) : a = n * q + r /\ a \div n = q /\ a % n = r
  BY Divided
<1>2. PICK p \in Nat, s \in 0..(n - 1) : b = n * p + s /\ b \div n = p
  BY Divided
<1>3. r = 0 => q <= p
  <2>1. SUFFICES ASSUME r = 0, p + 1 <= q  PROVE FALSE
    OBVIOUS
  <2>2. n * (p + 1) <= n * q
    BY <2>1
  <2>. QED  BY <1>1, <1>2, <2>1, <2>2
<1>4. ASSUME NEW k \in 0..p, a = n * k  PROVE a % n = 0
  BY <1>4, <1>2, DividedOnce
<1>. QED  BY <1>1, <1>2, <1>3, <1>4

\* A month's number is a year and a month of it.
LEMMA MonthOfYear ==
  ASSUME NEW m \in Nat
  PROVE  \E y \in Nat, k \in 0..11 : m = 12 * y + k /\ m \div 12 = y /\ m % 12 = k
BY Divided

\* The leap years before a year, and itself.
LEMMA LeapYear ==
  ASSUME NEW y \in Nat
  PROVE  Recurrences!LeapsBefore(y + 1) = Recurrences!LeapsBefore(y)
           + IF y % 4 = 0 /\ (y % 100 # 0 \/ y % 400 = 0) THEN 1 ELSE 0
BY DEF Recurrences!LeapsBefore

\* A year has its days.
Leap(y) == (2024 + y) % 4 = 0 /\ ((2024 + y) % 100 # 0 \/ (2024 + y) % 400 = 0)
Days(y) == 365 * y + Recurrences!LeapsBefore(2024 + y) - Recurrences!LeapsBefore(2024)

\* The days before a year.
LEMMA DaysOfYears ==
  ASSUME NEW y \in Nat
  PROVE  /\ Days(y) \in Nat /\ Days(y + 1) = Days(y) + IF Leap(y) THEN 366 ELSE 365
         /\ 336 * y <= Days(y) /\ Days(y) <= 372 * y
<1>1. Days(y + 1) = Days(y) + IF Leap(y) THEN 366 ELSE 365
  <2>1. Recurrences!LeapsBefore(2024 + (y + 1)) = Recurrences!LeapsBefore(2024 + y) + IF Leap(y) THEN 1 ELSE 0
    BY LeapYear DEF Leap
  <2>2. Recurrences!LeapsBefore(2024 + y) \in Int /\ Recurrences!LeapsBefore(2024) \in Int
    BY DEF Recurrences!LeapsBefore
  <2>. QED  BY <2>1, <2>2 DEF Days
<1>2. Days(y) \in Int
  BY DEF Days, Recurrences!LeapsBefore
<1>3. 336 * y <= Days(y) /\ Days(y) <= 372 * y
  BY DEF Days, Recurrences!LeapsBefore
<1>. QED  BY <1>1, <1>2, <1>3

\* The days of a common year before its month.
Passed(k) == <<0, 31, 59, 90, 120, 151, 181, 212, 243, 273, 304, 334>>[k + 1]

\* They are those of the months before.
LEMMA DaysPassed ==
  ASSUME NEW k \in 0..11
  PROVE  /\ Passed(k) \in Nat /\ 28 * k <= Passed(k) /\ Passed(k) <= 31 * k
         /\ k > 1 => Passed(k) + 1 <= 31 * k
         /\ k = 0 => Passed(k) = 0
         /\ k = 11 => Passed(k) = 334
         /\ k < 11 => Passed(k + 1) = Passed(k) + (IF k \in {3, 5, 8, 10} THEN 30 ELSE IF k = 1 THEN 28 ELSE 31)
<1>1. /\ Passed(0) = 0 /\ Passed(1) = 31 /\ Passed(2) = 59 /\ Passed(3) = 90 /\ Passed(4) = 120 /\ Passed(5) = 151
      /\ Passed(6) = 181 /\ Passed(7) = 212 /\ Passed(8) = 243 /\ Passed(9) = 273 /\ Passed(10) = 304
      /\ Passed(11) = 334
  BY DEF Passed
<1>. QED  BY <1>1

\* The days of a month, by the month of its year.
LEMMA DaysInMonth ==
  ASSUME NEW y \in Nat, NEW k \in 0..11
  PROVE  /\ Recurrences!DaysIn(12 * y + k) =
              IF k \in {3, 5, 8, 10} THEN 30 ELSE IF k = 1 THEN (IF Leap(y) THEN 29 ELSE 28) ELSE 31
         /\ Recurrences!FirstOf(12 * y + k) =
              Days(y) + Passed(k)
                + IF k > 1 /\ Leap(y) THEN 1 ELSE 0
<1>1. ASSUME NEW j \in 0..11
      PROVE  /\ 12 * y + j \in Nat /\ (12 * y + j) \div 12 = y /\ (12 * y + j) % 12 = j
             /\ Recurrences!DaysIn(12 * y + j) =
              IF j \in {3, 5, 8, 10} THEN 30 ELSE IF j = 1 THEN (IF Leap(y) THEN 29 ELSE 28) ELSE 31
  <2>1. 12 * y + j \in Nat /\ (12 * y + j) \div 12 = y /\ (12 * y + j) % 12 = j
    BY DividedOnce
  <2>. QED  BY <2>1 DEF Recurrences!DaysIn, Leap
<1>2. Recurrences!DaysIn(12 * y + 1) = IF Leap(y) THEN 29 ELSE 28
  BY <1>1
<1>3. k + 1 > 2 <=> k > 1
  OBVIOUS
<1>. QED  BY <1>1, <1>2, <1>3 DEF Recurrences!FirstOf, Recurrences!DaysBefore, Days, Passed

\* The months follow each other without a gap.
LEMMA MonthFollows ==
  ASSUME NEW m \in Nat
  PROVE  /\ Recurrences!DaysIn(m) \in 28..31 /\ Recurrences!FirstOf(m) \in Nat
         /\ Recurrences!FirstOf(m + 1) = Recurrences!FirstOf(m) + Recurrences!DaysIn(m)
         /\ 28 * m <= Recurrences!FirstOf(m) /\ Recurrences!FirstOf(m) <= 31 * m
<1>1. PICK y \in Nat, k \in 0..11 : m = 12 * y + k
  BY MonthOfYear
<1>2. /\ Recurrences!DaysIn(m) = IF k \in {3, 5, 8, 10} THEN 30 ELSE IF k = 1 THEN (IF Leap(y) THEN 29 ELSE 28) ELSE 31
      /\ Recurrences!FirstOf(m) = Days(y) + Passed(k) + IF k > 1 /\ Leap(y) THEN 1 ELSE 0
  BY <1>1, DaysInMonth
<1>3. /\ Days(y) \in Nat /\ Days(y + 1) = Days(y) + IF Leap(y) THEN 366 ELSE 365
      /\ 336 * y <= Days(y) /\ Days(y) <= 372 * y
  BY DaysOfYears
<1>4. /\ Passed(k) \in Nat /\ 28 * k <= Passed(k) /\ Passed(k) <= 31 * k
      /\ k > 1 => Passed(k) + 1 <= 31 * k
  BY DaysPassed
<1>5. Recurrences!DaysIn(m) \in 28..31
  BY <1>2
<1>6. Recurrences!FirstOf(m) \in Nat /\ 28 * m <= Recurrences!FirstOf(m) /\ Recurrences!FirstOf(m) <= 31 * m
  BY <1>1, <1>2, <1>3, <1>4
<1>7. SUFFICES Recurrences!FirstOf(m + 1) = Recurrences!FirstOf(m) + Recurrences!DaysIn(m)
  BY <1>5, <1>6
<1>8. CASE k < 11
  <2>1. m + 1 = 12 * y + (k + 1) /\ k + 1 \in 0..11
    BY <1>1, <1>8
  <2>2. Recurrences!FirstOf(m + 1) = Days(y) + Passed(k + 1) + IF k + 1 > 1 /\ Leap(y) THEN 1 ELSE 0
    BY <2>1, DaysInMonth
  <2>3. Passed(k + 1) = Passed(k) + (IF k \in {3, 5, 8, 10} THEN 30 ELSE IF k = 1 THEN 28 ELSE 31)
    BY <1>8, DaysPassed
  <2>4. CASE k = 0
    BY <1>2, <1>3, <1>4, <2>2, <2>3, <2>4
  <2>5. CASE k = 1
    BY <1>2, <1>3, <1>4, <2>2, <2>3, <2>5
  <2>6. CASE k > 1
    BY <1>2, <1>3, <1>4, <2>2, <2>3, <2>6
  <2>. QED  BY <2>4, <2>5, <2>6
<1>9. CASE k = 11
  <2>1. m + 1 = 12 * (y + 1) + 0 /\ y + 1 \in Nat /\ 0 \in 0..11
    BY <1>1, <1>9
  <2>2. Recurrences!FirstOf(12 * (y + 1) + 0) = Days(y + 1) + Passed(0) + IF 0 > 1 /\ Leap(y + 1) THEN 1 ELSE 0
    BY <2>1, DaysInMonth
  <2>3. Days(y + 1) \in Nat /\ Passed(0) = 0 /\ Passed(k) = 334
    <3>1. Passed(0) = 0
      BY <2>1, DaysPassed
    <3>2. Passed(k) = 334
      BY <1>9, DaysPassed
    <3>. QED  BY <1>3, <3>1, <3>2
  <2>4. Recurrences!FirstOf(m + 1) = Days(y + 1)
    BY <2>1, <2>2, <2>3
  <2>5. /\ Recurrences!DaysIn(m) = 31
        /\ Recurrences!FirstOf(m) = Days(y) + 334 + IF Leap(y) THEN 1 ELSE 0
    BY <1>2, <1>9, <2>3
  <2>. QED  BY <1>3, <2>4, <2>5
<1>10. k < 11 \/ k = 11
  OBVIOUS
<1>. QED  BY <1>8, <1>9, <1>10

\* A later month begins when an earlier one is over.
LEMMA MonthsAreInOrder ==
  ASSUME NEW m \in Nat, NEW n \in Nat, m < n
  PROVE  Recurrences!FirstOf(m) + Recurrences!DaysIn(m) <= Recurrences!FirstOf(n)
<1> DEFINE T == {j \in Nat : m < j /\ Recurrences!FirstOf(j) < Recurrences!FirstOf(m) + Recurrences!DaysIn(m)}
<1>1. SUFFICES ASSUME n \in T  PROVE FALSE
  BY MonthFollows
<1>2. PICK j \in T : \A i \in T : j <= i
  <2>1. T \subseteq Nat /\ T # {}
    BY <1>1
  <2> HIDE DEF T
  <2>. QED  BY <2>1, LeastNatural
<1>3. PICK i \in Nat : j = i + 1 /\ m <= i
  BY <1>2
<1>4. CASE i = m
  BY <1>2, <1>3, <1>4, MonthFollows
<1>5. CASE i # m
  <2>1. i \notin T
    BY <1>2, <1>3
  <2>2. /\ Recurrences!FirstOf(i) >= Recurrences!FirstOf(m) + Recurrences!DaysIn(m)
        /\ Recurrences!FirstOf(j) < Recurrences!FirstOf(m) + Recurrences!DaysIn(m)
    BY <1>2, <1>3, <1>5, <2>1, MonthFollows
  <2>3. /\ Recurrences!FirstOf(j) = Recurrences!FirstOf(i) + Recurrences!DaysIn(i)
        /\ Recurrences!FirstOf(i) \in Nat /\ Recurrences!DaysIn(i) \in 28..31
        /\ Recurrences!FirstOf(m) \in Nat /\ Recurrences!DaysIn(m) \in 28..31
    BY <1>3, MonthFollows
  <2>. QED  BY <2>2, <2>3
<1>. QED  BY <1>4, <1>5

\* Every day is of one month, which date.month finds.
LEMMA DaysHaveAMonth ==
  ASSUME NEW d \in Nat
  PROVE  /\ Recurrences!MonthOf(d) \in Nat
         /\ Recurrences!FirstOf(Recurrences!MonthOf(d)) <= d
         /\ d < Recurrences!FirstOf(Recurrences!MonthOf(d)) + Recurrences!DaysIn(Recurrences!MonthOf(d))
<1> DEFINE T == {j \in Nat : d < Recurrences!FirstOf(j)}
<1>1. d + 1 \in T
  BY MonthFollows
<1>2. PICK j \in T : \A i \in T : j <= i
  <2>1. T \subseteq Nat /\ T # {}
    BY <1>1
  <2> HIDE DEF T
  <2>. QED  BY <2>1, LeastNatural
<1>3. j # 0
  BY <1>2, MonthFollows
<1>4. PICK m \in Nat : j = m + 1
  BY <1>2, <1>3
<1>5. Recurrences!FirstOf(m) <= d /\ d < Recurrences!FirstOf(m) + Recurrences!DaysIn(m)
  <2>1. m \notin T
    BY <1>2, <1>4
  <2>. QED  BY <1>2, <1>4, <2>1, MonthFollows
<1>6. m \in (d \div 31)..(d \div 28)
  <2>1. PICK p \in Nat, s \in 0..30 : d = 31 * p + s /\ d \div 31 = p
    BY Divided
  <2>2. PICK q \in Nat, r \in 0..27 : d = 28 * q + r /\ d \div 28 = q
    BY Divided
  <2>3. 28 * m <= d /\ d < 31 * (m + 1)
    <3>1. 28 * m <= Recurrences!FirstOf(m) /\ Recurrences!FirstOf(m) \in Nat
      BY MonthFollows
    <3>2. /\ Recurrences!FirstOf(m + 1) = Recurrences!FirstOf(m) + Recurrences!DaysIn(m)
          /\ Recurrences!FirstOf(m + 1) <= 31 * (m + 1) /\ Recurrences!FirstOf(m + 1) \in Nat
      <4>1. m + 1 \in Nat
        OBVIOUS
      <4>. QED  BY <4>1, MonthFollows
    <3>. QED  BY <1>5, <3>1, <3>2
  <2>. QED  BY <2>1, <2>2, <2>3
<1>7. \A i \in (d \div 31)..(d \div 28) : i \in Nat
  <2>1. PICK p \in Nat : d \div 31 = p
    BY Divided
  <2>2. PICK q \in Nat : d \div 28 = q
    BY Divided
  <2>. QED  BY <2>1, <2>2
<1>. QED  BY <1>5, <1>6, <1>7 DEF Recurrences!MonthOf

\* And the day after so many of a month is of that month.
LEMMA DaysHaveOneMonth ==
  ASSUME NEW m \in Nat, NEW d \in Nat, Recurrences!FirstOf(m) <= d,
         d < Recurrences!FirstOf(m) + Recurrences!DaysIn(m)
  PROVE  Recurrences!MonthOf(d) = m
<1>1. SUFFICES ASSUME NEW n \in Nat, n # m, Recurrences!FirstOf(n) <= d,
                      d < Recurrences!FirstOf(n) + Recurrences!DaysIn(n)
               PROVE FALSE
  BY DaysHaveAMonth
<1>2. /\ m < n => Recurrences!FirstOf(m) + Recurrences!DaysIn(m) <= Recurrences!FirstOf(n)
      /\ n < m => Recurrences!FirstOf(n) + Recurrences!DaysIn(n) <= Recurrences!FirstOf(m)
  BY MonthsAreInOrder
<1>3. /\ Recurrences!FirstOf(m) \in Nat /\ Recurrences!DaysIn(m) \in 28..31
      /\ Recurrences!FirstOf(n) \in Nat /\ Recurrences!DaysIn(n) \in 28..31
  BY MonthFollows
<1>4. m < n \/ n < m
  BY <1>1
<1>. QED  BY <1>1, <1>2, <1>3, <1>4

\* A later day is of no earlier month.
LEMMA MonthsPass ==
  ASSUME NEW d \in Nat, NEW e \in Nat, d <= e
  PROVE  Recurrences!MonthOf(d) <= Recurrences!MonthOf(e)
<1> DEFINE m == Recurrences!MonthOf(d)
           n == Recurrences!MonthOf(e)
<1>1. /\ m \in Nat /\ n \in Nat /\ Recurrences!FirstOf(m) <= d
      /\ e < Recurrences!FirstOf(n) + Recurrences!DaysIn(n)
  BY DaysHaveAMonth
<1> HIDE DEF m, n
<1>2. n < m => Recurrences!FirstOf(n) + Recurrences!DaysIn(n) <= Recurrences!FirstOf(m)
  BY <1>1, MonthsAreInOrder
<1>3. ~(n < m)
  BY <1>1, <1>2, MonthFollows
<1>. QED  BY <1>1, <1>3 DEF m, n

\* Every so many days: as the closed form has it.
LEMMA DailyDays ==
  ASSUME NEW s \in Nat, NEW n \in 1..52, NEW u \in Nat, NEW d \in s..u
  PROVE  (d - s) % n = 0 <=> d \in {s + n * k : k \in 0..((u - s) \div n)}
<1>1. d - s \in Nat /\ u - s \in Nat /\ d - s <= u - s /\ n \in Nat \ {0}
  OBVIOUS
<1>2. (d - s) % n = 0 <=> \E k \in 0..((u - s) \div n) : d - s = n * k
  BY <1>1, Multiples
<1>3. PICK q \in Nat : (u - s) \div n = q
  BY <1>1, Divided
<1>4. \A k \in 0..q : d - s = n * k <=> d = s + n * k
  BY <1>1
<1>. QED  BY <1>2, <1>3, <1>4

\* A day is so many days after a Monday.
LEMMA DayOfWeek ==
  ASSUME NEW d \in Nat
  PROVE  \E v \in Nat, k \in 0..6 :
           d = 7 * v + k /\ Recurrences!MondayOf(d) = 7 * v /\ Recurrences!IsoWeekday(d) = k + 1
<1>1. PICK v \in Nat, k \in 0..6 : d = 7 * v + k /\ d % 7 = k
  BY Divided
<1>. QED  BY <1>1 DEF Recurrences!MondayOf, Recurrences!IsoWeekday

\* On some days of every so many weeks: as the closed form has it.
LEMMA WeeklyDays ==
  ASSUME NEW s \in Nat, NEW n \in 1..52, NEW W \in SUBSET (1..7), NEW u \in Nat, NEW d \in s..u
  PROVE  /\ Recurrences!IsoWeekday(d) \in W
         /\ ((Recurrences!MondayOf(d) - Recurrences!MondayOf(s)) \div 7) % n = 0
         <=> d \in Recurrences!OnWeekdays(s, n, W, u)
<1>1. PICK v \in Nat, j \in 0..6 :
        d = 7 * v + j /\ Recurrences!MondayOf(d) = 7 * v /\ Recurrences!IsoWeekday(d) = j + 1
  BY DayOfWeek
<1>2. PICK p \in Nat, i \in 0..6 : s = 7 * p + i /\ Recurrences!MondayOf(s) = 7 * p
  BY DayOfWeek
<1>3. v - p \in Nat
  BY <1>1, <1>2
<1>4. (7 * v - 7 * p) \div 7 = v - p
  <2>1. 7 * v - 7 * p = 7 * (v - p) + 0 /\ 7 * v - 7 * p \in Nat /\ 0 \in 0..(7 - 1) /\ 7 \in Nat \ {0}
    BY <1>3
  <2>. QED  BY <1>3, <2>1, DividedOnce
<1>5. PICK m \in Nat \ {0} : m = 7 * n
  OBVIOUS
<1>6. PICK q \in Nat, r \in 0..(m - 1) : u - s + 6 = m * q + r /\ (u - s + 6) \div m = q
  BY Divided
<1>7. ASSUME (v - p) % n = 0  PROVE \E k \in 0..q : v - p = n * k
  <2>1. PICK k \in 0..((v - p) \div n) : v - p = n * k
    BY <1>3, <1>7, Multiples
  <2>2. k \in Nat
    <3>1. PICK y \in Nat : (v - p) \div n = y
      BY <1>3, Divided
    <3>. QED  BY <3>1
  <2>3. m * k = 7 * v - 7 * p
    BY <1>5, <2>1, <2>2
  <2>4. m * k <= u - s + 6
    BY <1>1, <1>2, <2>3
  <2>5. k <= q
    <3>1. SUFFICES ASSUME q + 1 <= k  PROVE FALSE
      BY <2>2
    <3>2. m * (q + 1) <= m * k
      BY <2>2, <3>1
    <3>. QED  BY <1>6, <2>2, <2>4, <3>2
  <2>. QED  BY <2>1, <2>2, <2>5
<1>8. ASSUME NEW k \in 0..q, v - p = n * k  PROVE (v - p) % n = 0
  BY <1>3, <1>8, DividedOnce
<1>9. ASSUME NEW k \in 0..q, NEW w \in W, d = 7 * p + m * k + w - 1
      PROVE  v - p = n * k /\ w = j + 1
  <2>1. PICK y \in Nat : y = n * k
    OBVIOUS
  <2>2. m * k = 7 * y
    BY <1>5, <2>1
  <2>3. 7 * v + j = 7 * (p + y) + (w - 1) /\ w - 1 \in 0..6
    BY <1>1, <1>9, <2>2
  <2>. QED  BY <2>1, <2>3
<1>10. ASSUME NEW k \in 0..q, v - p = n * k  PROVE d = 7 * p + m * k + (j + 1) - 1
  <2>1. PICK y \in Nat : y = n * k
    OBVIOUS
  <2>2. m * k = 7 * y
    BY <1>5, <2>1
  <2>. QED  BY <1>1, <1>10, <2>1, <2>2
<1>11. (j + 1 \in W /\ (v - p) % n = 0) <=> \E k \in 0..q, w \in W : d = 7 * p + m * k + w - 1
  BY <1>7, <1>8, <1>9, <1>10
<1>12. (\E k \in 0..q, w \in W : d = 7 * p + m * k + w - 1)
         <=> d \in Recurrences!OnWeekdays(s, n, W, u)
  <2>1. (u - s + 6) \div (7 * n) = q
    BY <1>5, <1>6
  <2>2. \A k \in 0..q, w \in W : Recurrences!MondayOf(s) + 7 * n * k + w - 1 = 7 * p + m * k + w - 1
    BY <1>2, <1>5
  <2>3. d \in Recurrences!OnWeekdays(s, n, W, u)
          <=> \E k \in 0..((u - s + 6) \div (7 * n)), w \in W : d = Recurrences!MondayOf(s) + 7 * n * k + w - 1
    <3> DEFINE F(w) == {Recurrences!MondayOf(s) + 7 * n * k + w - 1 : k \in 0..((u - s + 6) \div (7 * n))}
    <3>1. \A w \in W : d \in F(w) <=>
            \E k \in 0..((u - s + 6) \div (7 * n)) : d = Recurrences!MondayOf(s) + 7 * n * k + w - 1
      OBVIOUS
    <3> HIDE DEF F
    <3>2. d \in UNION {F(w) : w \in W} <=> \E w \in W : d \in F(w)
      OBVIOUS
    <3>3. d \in UNION {F(w) : w \in W} <=> \E k \in 0..((u - s + 6) \div (7 * n)), w \in W :
            d = Recurrences!MondayOf(s) + 7 * n * k + w - 1
      BY <3>1, <3>2
    <3>. QED  BY <3>3 DEF F, Recurrences!OnWeekdays
  <2>4. (\E k \in 0..((u - s + 6) \div (7 * n)), w \in W : d = Recurrences!MondayOf(s) + 7 * n * k + w - 1)
          <=> \E k \in 0..q, w \in W : d = 7 * p + m * k + w - 1
    BY <2>1, <2>2
  <2>. QED  BY <2>3, <2>4
<1>13. (Recurrences!MondayOf(d) - Recurrences!MondayOf(s)) \div 7 = v - p /\ Recurrences!IsoWeekday(d) = j + 1
  BY <1>1, <1>2, <1>4
<1>14. /\ Recurrences!IsoWeekday(d) \in W
       /\ ((Recurrences!MondayOf(d) - Recurrences!MondayOf(s)) \div 7) % n = 0
       <=> j + 1 \in W /\ (v - p) % n = 0
  BY <1>13
<1>. QED  BY <1>11, <1>12, <1>14

\* On one day of every so many months, the last of a short one: as the closed form has it.
LEMMA MonthlyDays ==
  ASSUME NEW s \in Nat, NEW n \in 1..52, NEW c \in 1..31, NEW u \in Nat, NEW d \in s..u
  PROVE  /\ Recurrences!DayOf(d) = Recurrences!EffectiveDayOfMonth(c, Recurrences!MonthOf(d))
         /\ Recurrences!MonthsBetween(s, d) % n = 0
         <=> d \in Recurrences!OnDayOfMonth(s, n, c, u)
<1>1. PICK a \in Nat : a = Recurrences!MonthOf(s)
  BY DaysHaveAMonth
<1>2. PICK b \in Nat : b = Recurrences!MonthOf(d)
  BY DaysHaveAMonth
<1>3. PICK e \in Nat : e = Recurrences!MonthOf(u)
  BY DaysHaveAMonth
<1>4. a <= b /\ b <= e
  BY <1>1, <1>2, <1>3, MonthsPass
<1>5. PICK q \in Nat : (e - a) \div n = q
  BY <1>4, Divided
<1>6. (b - a) % n = 0 <=> \E k \in 0..q : b - a = n * k
  <2>1. b - a \in Nat /\ e - a \in Nat /\ b - a <= e - a /\ n \in Nat \ {0}
    BY <1>4
  <2>. QED  BY <1>5, <2>1, Multiples
<1>7. ASSUME NEW m \in Nat
      PROVE  /\ Recurrences!FirstOf(m) \in Nat /\ Recurrences!DaysIn(m) \in 28..31
             /\ Recurrences!Lesser(c, Recurrences!DaysIn(m)) \in 1..Recurrences!DaysIn(m)
  <2>1. Recurrences!FirstOf(m) \in Nat /\ Recurrences!DaysIn(m) \in 28..31
    BY MonthFollows
  <2>. QED  BY <2>1 DEF Recurrences!Lesser
<1>8. ASSUME NEW m \in Nat, d = Recurrences!FirstOf(m) + Recurrences!Lesser(c, Recurrences!DaysIn(m)) - 1
      PROVE  m = b
  <2>1. Recurrences!FirstOf(m) <= d /\ d < Recurrences!FirstOf(m) + Recurrences!DaysIn(m)
    BY <1>7, <1>8
  <2>. QED  BY <1>2, <2>1, DaysHaveOneMonth
<1>9. Recurrences!DayOf(d) = Recurrences!Lesser(c, Recurrences!DaysIn(b))
        <=> d = Recurrences!FirstOf(b) + Recurrences!Lesser(c, Recurrences!DaysIn(b)) - 1
  BY <1>2, <1>7 DEF Recurrences!DayOf
<1>10. ASSUME NEW k \in 0..q  PROVE a + n * k \in Nat /\ (b = a + n * k <=> b - a = n * k)
  OBVIOUS
<1>11. (\E k \in 0..q : d = Recurrences!FirstOf(a + n * k) + Recurrences!Lesser(c, Recurrences!DaysIn(a + n * k)) - 1)
         <=> Recurrences!DayOf(d) = Recurrences!Lesser(c, Recurrences!DaysIn(b)) /\ (b - a) % n = 0
  BY <1>6, <1>8, <1>9, <1>10
<1>12. d \in Recurrences!OnDayOfMonth(s, n, c, u) <=>
         \E k \in 0..q : d = Recurrences!FirstOf(a + n * k) + Recurrences!Lesser(c, Recurrences!DaysIn(a + n * k)) - 1
  BY <1>1, <1>3, <1>5 DEF Recurrences!OnDayOfMonth
<1>. QED
  BY <1>1, <1>2, <1>11, <1>12 DEF Recurrences!EffectiveDayOfMonth, Recurrences!MonthsBetween

\* The scan's test of a day and the closed form name the same days.
LEMMA RuleDays ==
  ASSUME NEW r \in Rules, NEW u \in Nat, NEW d \in r.startsOn..u
  PROVE  Recurrences!OccursOn(r, d) <=> d \in Recurrences!Occurrences(r, u)
<1>1. Recurrences!IsRule(r)
  BY LegalConstants DEF Recurrences!LegalRecurringConstants
<1>2. r.startsOn \in Nat /\ r.intervalCount \in 1..52 /\ d \in Nat /\ r.startsOn <= d
  BY <1>1 DEF Recurrences!IsRule
<1>3. CASE r.frequency = "daily"
  <2>1. Recurrences!OccursOn(r, d) <=> (d - r.startsOn) % r.intervalCount = 0
    BY <1>2, <1>3 DEF Recurrences!OccursOn
  <2>2. Recurrences!Occurrences(r, u) =
          {r.startsOn + r.intervalCount * k : k \in 0..((u - r.startsOn) \div r.intervalCount)}
            \intersect (r.startsOn..u)
    BY <1>3 DEF Recurrences!Occurrences
  <2>. QED  BY <1>2, <2>1, <2>2, DailyDays
<1>4. CASE r.frequency = "weekly"
  <2>1. r.weekdays \in SUBSET (1..7)
    BY <1>1, <1>4 DEF Recurrences!IsRule
  <2>2. Recurrences!OccursOn(r, d) <=>
          /\ Recurrences!IsoWeekday(d) \in r.weekdays
          /\ ((Recurrences!MondayOf(d) - Recurrences!MondayOf(r.startsOn)) \div 7) % r.intervalCount = 0
    BY <1>2, <1>4 DEF Recurrences!OccursOn
  <2>3. Recurrences!Occurrences(r, u) =
          Recurrences!OnWeekdays(r.startsOn, r.intervalCount, r.weekdays, u)
            \intersect (r.startsOn..u)
    BY <1>4 DEF Recurrences!Occurrences
  <2>. QED  BY <1>2, <2>1, <2>2, <2>3, WeeklyDays
<1>5. CASE r.frequency = "monthly"
  <2>1. r.dayOfMonth \in 1..31
    BY <1>1, <1>5 DEF Recurrences!IsRule
  <2>2. Recurrences!OccursOn(r, d) <=>
          /\ Recurrences!DayOf(d) = Recurrences!EffectiveDayOfMonth(r.dayOfMonth, Recurrences!MonthOf(d))
          /\ Recurrences!MonthsBetween(r.startsOn, d) % r.intervalCount = 0
    BY <1>2, <1>5 DEF Recurrences!OccursOn
  <2>3. Recurrences!Occurrences(r, u) =
          Recurrences!OnDayOfMonth(r.startsOn, r.intervalCount, r.dayOfMonth, u)
            \intersect (r.startsOn..u)
    BY <1>5 DEF Recurrences!Occurrences
  <2>. QED  BY <1>2, <2>1, <2>2, <2>3, MonthlyDays
<1>. QED  BY <1>1, <1>3, <1>4, <1>5 DEF Recurrences!IsRule

\* Of a schedule: the day it waits for is the only one of its rule since, up to it.
LEMMA WaitsForTheFirst ==
  ASSUME NEW r \in Rules, NEW next \in Int, NEW from \in Int, r.startsOn <= next, from < next,
         Recurrences!OccursOn(r, next),
         \A e \in Nat : from < e /\ e < next => ~Recurrences!OccursOn(r, e)
  PROVE  {d \in Recurrences!Occurrences(r, next) : d > from} = {next}
<1>1. r.startsOn \in Nat
  BY LegalConstants DEF Recurrences!LegalRecurringConstants, Recurrences!IsRule
<1>2. Recurrences!Occurrences(r, next) \subseteq r.startsOn..next
  BY DEF Recurrences!Occurrences
<1>3. ASSUME NEW d \in r.startsOn..next
      PROVE  d \in Nat /\ (Recurrences!OccursOn(r, d) <=> d \in Recurrences!Occurrences(r, next))
  BY <1>1, RuleDays
<1>4. next \in r.startsOn..next
  BY <1>1
<1>5. next \in Recurrences!Occurrences(r, next)
  BY <1>3, <1>4
<1>6. ASSUME NEW d \in Recurrences!Occurrences(r, next), d > from  PROVE d = next
  BY <1>2, <1>3, <1>6
<1>. QED  BY <1>5, <1>6

\* So many months have at most so many days.
LEMMA MonthsAreShort ==
  ASSUME NEW m \in Nat, NEW j \in Nat
  PROVE  Recurrences!FirstOf(m + j) <= Recurrences!FirstOf(m) + 31 * j
<1> DEFINE T == {i \in Nat : Recurrences!FirstOf(m) + 31 * i < Recurrences!FirstOf(m + i)}
<1>1. SUFFICES ASSUME j \in T  PROVE FALSE
  <2>1. m + j \in Nat
    OBVIOUS
  <2>2. Recurrences!FirstOf(m + j) \in Nat /\ Recurrences!FirstOf(m) \in Nat
    BY <2>1, MonthFollows
  <2>. QED  BY <2>2
<1>2. PICK i \in T : \A k \in T : i <= k
  <2>1. T \subseteq Nat /\ T # {}
    BY <1>1
  <2> HIDE DEF T
  <2>. QED  BY <2>1, LeastNatural
<1>3. Recurrences!FirstOf(m) \in Nat
  BY MonthFollows
<1>4. i # 0
  <2>1. m + 0 = m
    OBVIOUS
  <2>. QED  BY <1>2, <1>3, <2>1
<1>5. PICK h \in Nat : i = h + 1 /\ h \notin T
  <2>1. i - 1 \in Nat /\ i = (i - 1) + 1 /\ ~(i <= i - 1)
    BY <1>2, <1>4
  <2>. QED  BY <1>2, <2>1
<1>6. /\ Recurrences!FirstOf(m + i) = Recurrences!FirstOf(m + h) + Recurrences!DaysIn(m + h)
      /\ Recurrences!DaysIn(m + h) \in 28..31 /\ Recurrences!FirstOf(m + h) \in Nat
  <2>1. m + h \in Nat /\ m + i = (m + h) + 1
    BY <1>5
  <2>. QED  BY <2>1, MonthFollows
<1>. QED  BY <1>2, <1>3, <1>5, <1>6

\* The multiple after a number is not far.
LEMMA NextMultiple ==
  ASSUME NEW a \in Nat, NEW n \in 1..52
  PROVE  \E b \in Nat : a < b /\ b <= a + n /\ b % n = 0
<1>1. PICK q \in Nat, r \in 0..(n - 1) : a = n * q + r
  <2>1. n \in Nat \ {0}
    OBVIOUS
  <2>. QED  BY <2>1, Divided
<1>2. PICK b \in Nat : b = n * (q + 1)
  OBVIOUS
<1>3. b % n = 0
  <2>1. b = n * (q + 1) + 0 /\ q + 1 \in Nat /\ 0 \in 0..(n - 1) /\ n \in Nat \ {0}
    BY <1>2
  <2>. QED  BY <2>1, DividedOnce
<1>4. n * (q + 1) = n * q + n
  OBVIOUS
<1>. QED  BY <1>1, <1>2, <1>3, <1>4

\* A scan that meets a day of the rule ends there or before.
LEMMA ScanEnds ==
  ASSUME NEW r, NEW d \in Nat, NEW e \in (d + 1)..(d + 1643), Recurrences!OccursOn(r, e)
  PROVE  Recurrences!NextOccurrence(r, d) # Recurrences!Unreachable
<1> DEFINE T == {x \in (d + 1)..(d + 1643) : Recurrences!OccursOn(r, x)}
<1>1. PICK x \in T : \A y \in T : x <= y
  <2>1. T \subseteq Nat /\ T # {}
    OBVIOUS
  <2> HIDE DEF T
  <2>. QED  BY <2>1, LeastNatural
<1>2. x \in (d + 1)..(d + 1643) /\ Recurrences!OccursOn(r, x) /\ \A y \in (d + 1)..(x - 1) : ~Recurrences!OccursOn(r, y)
  BY <1>1
<1>3. d + Recurrences!MaxScanDays = d + 1643
  BY DEF Recurrences!MaxScanDays
<1>4. PICK k : k = Recurrences!NextOccurrence(r, d)
  OBVIOUS
<1>5. k \in (d + 1)..(d + 1643)
  BY <1>2, <1>3, <1>4 DEF Recurrences!NextOccurrence
<1>. QED  BY <1>4, <1>5 DEF Recurrences!Unreachable

\* Whatever rule the CHECK constraints admit, and from whatever day: the rule names a
\* day within MAX_SCAN_DAYS, so UnreachableRecurrenceError is never raised.
THEOREM ScanTheorem ==
  ASSUME NEW r \in Rules, NEW d \in Nat, r.startsOn <= d
  PROVE  Recurrences!NextOccurrence(r, d) # Recurrences!Unreachable
<1>1. Recurrences!IsRule(r)
  BY LegalConstants DEF Recurrences!LegalRecurringConstants
<1>2. PICK s \in Nat, n \in 1..52 : s = r.startsOn /\ n = r.intervalCount /\ s <= d
  BY <1>1 DEF Recurrences!IsRule
<1>3. CASE r.frequency = "daily"
  <2>1. PICK b \in Nat : d - s < b /\ b <= d - s + n /\ b % n = 0
    <3>1. d - s \in Nat
      BY <1>2
    <3>. QED  BY <3>1, NextMultiple
  <2>2. PICK e \in Nat : e = s + b
    OBVIOUS
  <2>3. e \in (d + 1)..(d + 1643) /\ s <= e /\ e - s = b
    BY <1>2, <2>1, <2>2
  <2>4. Recurrences!OccursOn(r, e)
    BY <1>2, <1>3, <2>1, <2>3 DEF Recurrences!OccursOn
  <2>. QED  BY <2>3, <2>4, ScanEnds
<1>4. CASE r.frequency = "weekly"
  <2>1. PICK w \in r.weekdays : w \in 1..7
    BY <1>1, <1>4 DEF Recurrences!IsRule
  <2>2. PICK v \in Nat, j \in 0..6 : d = 7 * v + j
    BY DayOfWeek
  <2>3. PICK p \in Nat, i \in 0..6 : s = 7 * p + i /\ Recurrences!MondayOf(s) = 7 * p
    BY DayOfWeek
  <2>4. v - p \in Nat
    BY <1>2, <2>2, <2>3
  <2>5. PICK b \in Nat : v - p < b /\ b <= v - p + n /\ b % n = 0
    BY <2>4, NextMultiple
  <2>6. PICK e \in Nat : e = 7 * (p + b) + (w - 1)
    BY <2>1
  <2>7. e \in (d + 1)..(d + 1643) /\ s <= e
    BY <1>2, <2>1, <2>2, <2>4, <2>5, <2>6
  <2>8. Recurrences!MondayOf(e) = 7 * (p + b) /\ Recurrences!IsoWeekday(e) = w
    <3>1. PICK x \in Nat, k \in 0..6 :
            e = 7 * x + k /\ Recurrences!MondayOf(e) = 7 * x /\ Recurrences!IsoWeekday(e) = k + 1
      BY DayOfWeek
    <3>. QED  BY <2>1, <2>6, <3>1
  <2>9. (Recurrences!MondayOf(e) - Recurrences!MondayOf(s)) \div 7 = b
    <3>1. 7 * (p + b) - 7 * p = 7 * b + 0 /\ 7 * (p + b) - 7 * p \in Nat /\ 0 \in 0..(7 - 1) /\ 7 \in Nat \ {0}
      OBVIOUS
    <3>. QED  BY <2>3, <2>8, <3>1, DividedOnce
  <2>10. Recurrences!OccursOn(r, e)
    BY <1>2, <1>4, <2>1, <2>5, <2>7, <2>8, <2>9 DEF Recurrences!OccursOn
  <2>. QED  BY <2>7, <2>10, ScanEnds
<1>5. CASE r.frequency = "monthly"
  <2>1. PICK c \in 1..31 : c = r.dayOfMonth
    BY <1>1, <1>5 DEF Recurrences!IsRule
  <2>2. PICK a \in Nat : a = Recurrences!MonthOf(s)
    BY DaysHaveAMonth
  <2>3. PICK m \in Nat : /\ m = Recurrences!MonthOf(d) /\ Recurrences!FirstOf(m) <= d
                         /\ d < Recurrences!FirstOf(m) + Recurrences!DaysIn(m)
    BY DaysHaveAMonth
  <2>4. m - a \in Nat
    BY <1>2, <2>2, <2>3, MonthsPass
  <2>5. PICK b \in Nat : m - a < b /\ b <= m - a + n /\ b % n = 0
    BY <2>4, NextMultiple
  <2>6. PICK l \in Nat : l = a + b
    OBVIOUS
  <2>7. /\ Recurrences!FirstOf(l) \in Nat /\ Recurrences!DaysIn(l) \in 28..31 /\ Recurrences!FirstOf(m) \in Nat
        /\ Recurrences!DaysIn(m) \in 28..31
    BY MonthFollows
  <2>8. PICK e \in Nat : e = Recurrences!FirstOf(l) + Recurrences!Lesser(c, Recurrences!DaysIn(l)) - 1
    BY <2>7 DEF Recurrences!Lesser
  <2>9. Recurrences!FirstOf(l) <= e /\ e < Recurrences!FirstOf(l) + Recurrences!DaysIn(l) /\ e <= Recurrences!FirstOf(l) + 30
    BY <2>7, <2>8 DEF Recurrences!Lesser
  <2>10. Recurrences!MonthOf(e) = l
    BY <2>9, DaysHaveOneMonth
  <2>11. Recurrences!FirstOf(m) + Recurrences!DaysIn(m) <= Recurrences!FirstOf(l)
    BY <2>4, <2>5, <2>6, MonthsAreInOrder
  <2>12. Recurrences!FirstOf(l) <= Recurrences!FirstOf(m) + 31 * 52
    <3>1. PICK j \in Nat : l = m + j /\ j <= 52
      BY <2>4, <2>5, <2>6
    <3>. QED  BY <2>7, <3>1, MonthsAreShort
  <2>13. e \in (d + 1)..(d + 1643) /\ s <= e
    BY <1>2, <2>3, <2>7, <2>9, <2>11, <2>12
  <2>14. Recurrences!DayOf(e) = Recurrences!Lesser(c, Recurrences!DaysIn(l))
    BY <2>7, <2>8, <2>10 DEF Recurrences!DayOf, Recurrences!Lesser
  <2>15. Recurrences!MonthsBetween(s, e) = b
    BY <2>2, <2>6, <2>10 DEF Recurrences!MonthsBetween
  <2>16. Recurrences!OccursOn(r, e)
    BY <1>2, <1>5, <2>1, <2>5, <2>10, <2>13, <2>14, <2>15
       DEF Recurrences!OccursOn, Recurrences!EffectiveDayOfMonth
  <2>. QED  BY <2>13, <2>16, ScanEnds
<1>. QED  BY <1>1, <1>3, <1>4, <1>5 DEF Recurrences!IsRule

-----------------------------------------------------------------------------
(* The schedule of recurring issues.                                        *)

\* What the schedule assumes of its constants.
LEMMA RecurringConstants == Recurrences!LegalRecurringConstants
BY LegalConstants

\* What a sweep has claimed and not filed yet, and where a sweep may stand.
Claims(w) == IF pass[w].at = "filing" THEN pass[w].claimed ELSE {}

Passes ==
  {Recurrences!Idle} \union [at : {"locked"}, day : Clock, rows : SUBSET Templates]
  \union [at : {"filing"}, claimed : SUBSET Recurrences!Claimed]

\* A sweep holds schedules nobody else holds, and which are due as it saw.
SweepsInv ==
  \A w \in Sweepers : pass[w].at = "locked" =>
    /\ \A v \in Sweepers \ {w} : pass[v].at = "locked" => pass[w].rows \intersect pass[v].rows = {}
    /\ \A t \in pass[w].rows : schedule[t] # None /\ schedule[t].nextRunOn <= pass[w].day

\* What is claimed is claimed by one, and not filed yet.
ClaimsInv ==
  \A w \in Sweepers :
    /\ Claims(w) \intersect filed = {}
    /\ \A v \in Sweepers \ {w} : Claims(w) \intersect Claims(v) = {}

\* What a saved schedule has given away is over for it.
Over(c) ==
  /\ c.version <= saves[c.template]
  /\ schedule[c.template] # None /\ schedule[c.template].version = c.version =>
       c.day < schedule[c.template].nextRunOn
OverInv ==
  /\ \A c \in filed : Over(c)
  /\ \A w \in Sweepers : \A c \in Claims(w) : Over(c)

\* No schedule is of a version its template has not been saved at.
VersionsInv == \A t \in Templates : schedule[t] # None => schedule[t].version <= saves[t]

\* A schedule waits for the first day of its rule after the day it was computed from.
Waits(s) ==
  /\ s.rule.startsOn <= s.nextRunOn /\ s.from < s.nextRunOn
  /\ Recurrences!OccursOn(s.rule, s.nextRunOn)
  /\ \A e \in Nat : s.from < e /\ e < s.nextRunOn => ~Recurrences!OccursOn(s.rule, e)
WaitsInv == \A t \in Templates : schedule[t] # None => Waits(schedule[t])

\* The inductive invariant of the schedules.
RecurringInv ==
  /\ Recurrences!RecurringTypeOK /\ pass \in [Sweepers -> Passes] /\ again = {}
  /\ SweepsInv /\ ClaimsInv /\ OverInv /\ VersionsInv /\ WaitsInv

\* next_occurrence finds the first day its rule names after the day.
LEMMA ScanFindsTheFirst ==
  ASSUME NEW r, NEW d \in Nat, Recurrences!NextOccurrence(r, d) # Recurrences!Unreachable
  PROVE  /\ Recurrences!NextOccurrence(r, d) \in Nat
         /\ d < Recurrences!NextOccurrence(r, d)
         /\ Recurrences!OccursOn(r, Recurrences!NextOccurrence(r, d))
         /\ \A e \in Nat : d < e /\ e < Recurrences!NextOccurrence(r, d) => ~Recurrences!OccursOn(r, e)
<1> DEFINE scanned == (d + 1)..(d + Recurrences!MaxScanDays)
           T == {e \in scanned : Recurrences!OccursOn(r, e)}
<1>1. T # {}
  BY DEF Recurrences!NextOccurrence
<1>2. T \subseteq Nat
  BY DEF Recurrences!MaxScanDays
<1>3. PICK x \in T : \A y \in T : x <= y
  <2> HIDE DEF T
  <2> QED BY <1>1, <1>2, LeastNatural
<1>4. x \in scanned /\ Recurrences!OccursOn(r, x) /\ \A e \in (d + 1)..(x - 1) : ~Recurrences!OccursOn(r, e)
  <2>1. ASSUME NEW e \in (d + 1)..(x - 1) PROVE ~Recurrences!OccursOn(r, e)
    <3>1. e \in scanned /\ ~(x <= e)
      BY <1>3, <1>2 DEF Recurrences!MaxScanDays
    <3> QED BY <3>1, <1>3
  <2> QED BY <1>3, <2>1
<1>5. PICK n : n = Recurrences!NextOccurrence(r, d)
  OBVIOUS
<1>6. n \in scanned /\ Recurrences!OccursOn(r, n) /\ \A e \in (d + 1)..(n - 1) : ~Recurrences!OccursOn(r, e)
  BY <1>4, <1>5 DEF Recurrences!NextOccurrence
<1>7. n \in Nat /\ d < n
  BY <1>6 DEF Recurrences!MaxScanDays
<1>8. ASSUME NEW e \in Nat, d < e, e < n PROVE ~Recurrences!OccursOn(r, e)
  <2>1. e \in (d + 1)..(n - 1)
    BY <1>7, <1>8
  <2> QED BY <2>1, <1>6
<1> QED BY <1>5, <1>6, <1>7, <1>8

\* The next date of a rule is its first day after the day it is asked for.
LEMMA NextIsLater ==
  ASSUME NEW r \in Rules, NEW d \in Clock, r.startsOn <= d
  PROVE  /\ Recurrences!NextOccurrence(r, d) \in Int /\ d < Recurrences!NextOccurrence(r, d) /\ d \in Nat
         /\ Recurrences!OccursOn(r, Recurrences!NextOccurrence(r, d))
         /\ \A e \in Nat : d < e /\ e < Recurrences!NextOccurrence(r, d) => ~Recurrences!OccursOn(r, e)
BY RecurringConstants, ScanTheorem, ScanFindsTheFirst DEF Recurrences!LegalRecurringConstants

\* A schedule begins on the first day of its rule.
LEMMA FirstIsADay ==
  ASSUME NEW r \in Rules
  PROVE  /\ Recurrences!FirstOccurrence(r) \in Int /\ r.startsOn \in Nat
         /\ r.startsOn <= Recurrences!FirstOccurrence(r) /\ Recurrences!OccursOn(r, Recurrences!FirstOccurrence(r))
         /\ \A e \in Nat : r.startsOn <= e /\ e < Recurrences!FirstOccurrence(r) => ~Recurrences!OccursOn(r, e)
<1>1. r.startsOn \in Nat /\ Recurrences!NextOccurrence(r, r.startsOn) # Recurrences!Unreachable
  <2>1. r.startsOn \in Nat /\ r.startsOn <= r.startsOn
    BY RecurringConstants DEF Recurrences!LegalRecurringConstants, Recurrences!IsRule
  <2>. QED  BY <2>1, ScanTheorem
<1>2. CASE Recurrences!OccursOn(r, r.startsOn)
  BY <1>1, <1>2 DEF Recurrences!FirstOccurrence
<1>3. CASE ~Recurrences!OccursOn(r, r.startsOn)
  <2>1. PICK n : n = Recurrences!FirstOccurrence(r) /\ n = Recurrences!NextOccurrence(r, r.startsOn)
    BY <1>3 DEF Recurrences!FirstOccurrence
  <2>2. /\ n \in Nat /\ r.startsOn < n /\ Recurrences!OccursOn(r, n)
        /\ \A e \in Nat : r.startsOn < e /\ e < n => ~Recurrences!OccursOn(r, e)
    BY <1>1, <2>1, ScanFindsTheFirst
  <2>3. ASSUME NEW e \in Nat, r.startsOn <= e, e < n PROVE ~Recurrences!OccursOn(r, e)
    <3>1. e = r.startsOn \/ r.startsOn < e
      BY <1>1, <2>3
    <3> QED BY <1>3, <2>2, <2>3, <3>1
  <2> QED BY <1>1, <2>1, <2>2, <2>3
<1> QED BY <1>2, <1>3

\* Nothing is filed at first.
LEMMA RecurringStart == Recurrences!RecurringInit => RecurringInv
<1> SUFFICES ASSUME Recurrences!RecurringInit PROVE RecurringInv
  OBVIOUS
<1>1. today \in Clock
  <2>1. Clock \subseteq Nat /\ Clock # {}
    BY RecurringConstants DEF Recurrences!LegalRecurringConstants
  <2> QED BY <2>1, LeastNatural DEF Recurrences!RecurringInit
<1>2. 0 \in 0..MaxSaves
  BY RecurringConstants DEF Recurrences!LegalRecurringConstants
<1>3. /\ schedule = [t \in Templates |-> None] /\ saves = [t \in Templates |-> 0]
      /\ filed = {} /\ again = {} /\ pass = [w \in Sweepers |-> Recurrences!Idle]
      /\ \A w \in Sweepers : pass[w] = Recurrences!Idle /\ pass[w].at = "idle"
  BY DEF Recurrences!RecurringInit, Recurrences!Idle
<1>4. Recurrences!RecurringTypeOK /\ pass \in [Sweepers -> Passes]
  BY <1>1, <1>2, <1>3 DEF Recurrences!RecurringTypeOK, Passes
<1> QED BY <1>3, <1>4 DEF RecurringInv, SweepsInv, ClaimsInv, OverInv, VersionsInv, WaitsInv, Claims

\* Over, with the schedules and the counts as they are given.
OverBy(c, schedules, counts) ==
  /\ c.version <= counts[c.template]
  /\ schedules[c.template] # None /\ schedules[c.template].version = c.version =>
       c.day < schedules[c.template].nextRunOn

\* A schedule that no sweep holds is saved or cleared.
LEMMA SaveKeeps ==
  ASSUME RecurringInv, NEW t \in Templates, ~Recurrences!Locked(t),
         NEW s \in Recurrences!Schedule \union {None}, NEW n \in 0..MaxSaves, saves[t] <= n,
         s # None => s.version = n /\ saves[t] < n /\ Waits(s),
         schedule' = [schedule EXCEPT ![t] = s], saves' = [saves EXCEPT ![t] = n],
         UNCHANGED <<today, pass, filed, again>>
  PROVE  RecurringInv'
<1>1. Recurrences!RecurringTypeOK /\ pass \in [Sweepers -> Passes]
  BY DEF RecurringInv
<1>2. /\ schedule'[t] = s /\ \A u \in Templates \ {t} : schedule'[u] = schedule[u]
      /\ saves'[t] = n /\ \A u \in Templates \ {t} : saves'[u] = saves[u]
      /\ schedule' \in [Templates -> Recurrences!Schedule \union {None}] /\ saves' \in [Templates -> 0..MaxSaves]
  BY <1>1 DEF Recurrences!RecurringTypeOK
<1>3. \A w \in Sweepers : pass[w].at = "locked" => t \notin pass[w].rows /\ pass[w].rows \subseteq Templates
  BY <1>1 DEF Recurrences!Locked, Passes, Recurrences!Idle
<1>4. Recurrences!RecurringTypeOK'
  <2> SUFFICES ASSUME NEW w \in Sweepers, pass[w].at = "locked"
               PROVE  pass[w].rows \subseteq {u \in Templates : schedule'[u] # None}
    BY <1>1, <1>2 DEF Recurrences!RecurringTypeOK, Recurrences!Idle
  <2> QED BY <1>2, <1>3 DEF RecurringInv, SweepsInv
<1>5. SweepsInv'
  BY <1>2, <1>3 DEF RecurringInv, SweepsInv
<1>6. ClaimsInv'
  BY DEF RecurringInv, ClaimsInv, Claims
<1>7. ASSUME NEW c \in Recurrences!Claimed, Over(c) PROVE OverBy(c, schedule', saves')
  <2>1. c.template \in Templates /\ c.version \in Int /\ saves[t] \in Int /\ n \in Int
    BY <1>1, RecurringConstants DEF Recurrences!Claimed, Recurrences!RecurringTypeOK, Recurrences!LegalRecurringConstants
  <2>2. CASE c.template = t
    BY <2>1, <2>2, <1>2, <1>7 DEF Over, OverBy
  <2>3. CASE c.template # t
    BY <2>1, <2>3, <1>2, <1>7 DEF Over, OverBy
  <2> QED BY <2>2, <2>3
<1>8. OverInv'
  <2>1. filed \subseteq Recurrences!Claimed /\ \A w \in Sweepers : Claims(w) \subseteq Recurrences!Claimed
    BY <1>1 DEF Recurrences!RecurringTypeOK, Passes, Claims, Recurrences!Idle
  <2> QED BY <2>1, <1>7 DEF RecurringInv, OverInv, Over, OverBy, Claims
<1>9. VersionsInv'
  BY <1>2 DEF RecurringInv, VersionsInv
<1>10. WaitsInv'
  BY <1>2 DEF RecurringInv, WaitsInv, Waits
<1> QED BY <1>1, <1>4, <1>5, <1>6, <1>8, <1>9, <1>10 DEF RecurringInv

\* A pass moves on, and with it what it holds and claims.
LEMMA PassMoves ==
  ASSUME RecurringInv, NEW w \in Sweepers, NEW p \in Passes, pass' = [pass EXCEPT ![w] = p],
         UNCHANGED <<today, schedule, saves, again>>, filed' \subseteq Recurrences!Claimed,
         p.at = "locked" =>
           \A t \in p.rows : ~Recurrences!Locked(t) /\ schedule[t] # None /\ schedule[t].nextRunOn <= p.day,
         p.at = "filing" => p.claimed \subseteq Claims(w) \ filed',
         \A c \in filed' : c \in filed \union Claims(w)
  PROVE  RecurringInv'
<1>1. Recurrences!RecurringTypeOK /\ pass \in [Sweepers -> Passes]
  BY DEF RecurringInv
<1>2. pass'[w] = p /\ (\A v \in Sweepers \ {w} : pass'[v] = pass[v]) /\ pass' \in [Sweepers -> Passes]
  BY <1>1
<1>3. \A v \in Sweepers : pass[v].at = "locked" => pass[v].rows \subseteq Templates
  BY <1>1 DEF Passes, Recurrences!Idle
<1>4. SweepsInv'
  BY <1>2, <1>3 DEF RecurringInv, SweepsInv, Recurrences!Locked
<1>5. Recurrences!RecurringTypeOK'
  <2>1. again' \subseteq filed'
    BY DEF RecurringInv
  <2>2. ASSUME NEW v \in Sweepers
        PROVE  \/ pass'[v] = Recurrences!Idle
               \/ pass'[v] \in [at : {"locked"}, day : Clock, rows : SUBSET {t \in Templates : schedule'[t] # None}]
               \/ pass'[v] \in [at : {"filing"}, claimed : SUBSET Recurrences!Claimed]
    <3>1. pass'[v] \in Passes
      BY <1>2
    <3>2. CASE pass'[v].at = "locked"
      <4>1. \A t \in pass'[v].rows : schedule'[t] # None
        BY <3>2, <1>4 DEF SweepsInv
      <4> QED BY <3>1, <3>2, <4>1 DEF Passes, Recurrences!Idle
    <3>3. CASE pass'[v].at # "locked"
      BY <3>1, <3>3 DEF Passes, Recurrences!Idle
    <3> QED BY <3>2, <3>3
  <2> QED BY <2>1, <2>2, <1>1 DEF Recurrences!RecurringTypeOK
<1>6. \A v \in Sweepers : Claims(v)' \subseteq Claims(v) \ filed'
  <2>1. ASSUME NEW v \in Sweepers, v # w PROVE Claims(v)' \subseteq Claims(v) \ filed'
    <3>1. Claims(v)' = Claims(v)
      BY <2>1, <1>2 DEF Claims
    <3>2. Claims(v) \intersect filed = {} /\ Claims(v) \intersect Claims(w) = {}
      BY <2>1 DEF RecurringInv, ClaimsInv
    <3> QED BY <3>1, <3>2
  <2>2. Claims(w)' \subseteq Claims(w) \ filed'
    BY <1>2 DEF Claims
  <2> QED BY <2>1, <2>2
<1>7. ClaimsInv'
  <2>1. \A v \in Sweepers : Claims(v)' \intersect filed' = {}
    BY <1>6
  <2>2. \A v, u \in Sweepers : v # u => Claims(v)' \intersect Claims(u)' = {}
    BY <1>6 DEF RecurringInv, ClaimsInv
  <2> QED BY <2>1, <2>2 DEF ClaimsInv
<1>8. OverInv'
  BY <1>6 DEF RecurringInv, OverInv, Over
<1>9. VersionsInv'
  BY DEF RecurringInv, VersionsInv
<1>10. WaitsInv'
  BY DEF RecurringInv, WaitsInv
<1> QED BY <1>2, <1>4, <1>5, <1>7, <1>8, <1>9, <1>10 DEF RecurringInv

\* A sweep moves on every schedule it has locked, and commits.
LEMMA AdvanceKeeps ==
  ASSUME RecurringInv, NEW w \in Sweepers, Recurrences!Advance(w)
  PROVE  RecurringInv'
<1>1. Recurrences!RecurringTypeOK /\ pass \in [Sweepers -> Passes] /\ pass[w].at = "locked"
  BY DEF RecurringInv, Recurrences!Advance
<1>2. PICK asOf \in Clock, S \in SUBSET Templates : pass[w] = [at |-> "locked", day |-> asOf, rows |-> S]
  BY <1>1 DEF Passes, Recurrences!Idle
<1>3. \A t \in S : schedule[t] # None /\ schedule[t].nextRunOn <= asOf /\ schedule[t] \in Recurrences!Schedule
  BY <1>1, <1>2 DEF RecurringInv, SweepsInv, Recurrences!RecurringTypeOK
<1>3a. \A t \in S : schedule[t].rule \in Rules /\ schedule[t].rule.startsOn <= asOf
  <2> SUFFICES ASSUME NEW t \in S PROVE schedule[t].rule \in Rules /\ schedule[t].rule.startsOn <= asOf
    OBVIOUS
  <2>1. schedule[t].rule \in Rules /\ schedule[t].nextRunOn \in Int /\ asOf \in Nat
    BY <1>3, RecurringConstants DEF Recurrences!Schedule, Recurrences!LegalRecurringConstants
  <2>2. schedule[t].rule.startsOn \in Nat
    BY <2>1, FirstIsADay
  <2>3. schedule[t].rule.startsOn <= schedule[t].nextRunOn
    BY <1>3 DEF RecurringInv, WaitsInv, Waits
  <2> QED BY <1>3, <2>1, <2>2, <2>3
<1>4. PICK C : C = {[template |-> t, version |-> schedule[t].version, day |-> asOf] : t \in S}
  OBVIOUS
<1>5. /\ pass' = [pass EXCEPT ![w] = [at |-> "filing", claimed |-> C]]
      /\ DOMAIN schedule' = Templates /\ schedule' = [t \in Templates |-> schedule'[t]]
      /\ \A t \in S : schedule'[t] =
           [schedule[t] EXCEPT !.nextRunOn = Recurrences!NextOccurrence(schedule[t].rule, asOf), !.from = asOf]
      /\ \A t \in Templates \ S : schedule'[t] = schedule[t]
      /\ UNCHANGED <<today, saves, filed, again>>
  <2>1. {u \in S : schedule[u] # None} = S
    BY <1>3
  <2>2. pass[w].rows = S /\ pass[w].day = asOf
    BY <1>2
  <2>3. schedule' = [t \in Templates |-> IF t \notin pass[w].rows \/ schedule[t] = None THEN schedule[t] ELSE
          [schedule[t] EXCEPT !.nextRunOn = Recurrences!NextOccurrence(schedule[t].rule, pass[w].day), !.from = pass[w].day]]
    BY DEF Recurrences!Advance
  <2>4. /\ pass' = [pass EXCEPT ![w] =
               [at |-> "filing",
                claimed |-> {[template |-> t, version |-> schedule[t].version, day |-> pass[w].day] :
                               t \in {u \in pass[w].rows : schedule[u] # None}}]]
        /\ UNCHANGED <<today, saves, filed, again>>
    BY DEF Recurrences!Advance
  <2>5. pass' = [pass EXCEPT ![w] = [at |-> "filing", claimed |-> C]]
    BY <2>1, <2>2, <2>4, <1>4
  <2>6. /\ DOMAIN schedule' = Templates /\ schedule' = [t \in Templates |-> schedule'[t]]
        /\ \A t \in Templates \ S : schedule'[t] = schedule[t]
    BY <2>2, <2>3
  <2>7. \A t \in S : schedule'[t] =
           [schedule[t] EXCEPT !.nextRunOn = Recurrences!NextOccurrence(schedule[t].rule, asOf), !.from = asOf]
    BY <2>2, <2>3, <1>3
  <2> QED BY <2>4, <2>5, <2>6, <2>7
<1>6. \A t \in S :
        /\ schedule'[t] \in Recurrences!Schedule /\ schedule'[t].version = schedule[t].version
        /\ asOf < schedule'[t].nextRunOn /\ Waits(schedule'[t])
  <2> SUFFICES ASSUME NEW t \in S PROVE <1>6!(t)
    OBVIOUS
  <2>1. PICK n \in Int : /\ n = Recurrences!NextOccurrence(schedule[t].rule, asOf) /\ asOf < n /\ asOf \in Int
                        /\ Recurrences!OccursOn(schedule[t].rule, n)
                        /\ \A e \in Nat : asOf < e /\ e < n => ~Recurrences!OccursOn(schedule[t].rule, e)
    BY <1>3a, NextIsLater
  <2>2. schedule'[t] = [schedule[t] EXCEPT !.nextRunOn = n, !.from = asOf]
    BY <1>5, <2>1
  <2>3. /\ schedule'[t] \in Recurrences!Schedule /\ schedule'[t].version = schedule[t].version
        /\ schedule'[t].nextRunOn = n /\ schedule'[t].from = asOf /\ schedule'[t].rule = schedule[t].rule
    BY <1>3, <2>1, <2>2 DEF Recurrences!Schedule
  <2>4. schedule[t].rule.startsOn <= n
    BY <1>3a, <2>1, FirstIsADay
  <2> QED BY <2>1, <2>3, <2>4 DEF Waits
<1>7. \A t \in Templates \ S : schedule'[t] = schedule[t]
  BY <1>5
<1>8. C \subseteq Recurrences!Claimed /\ \A c \in C : c.template \in S /\ c.version = schedule[c.template].version /\ c.day = asOf
  BY <1>3, <1>4 DEF Recurrences!Claimed, Recurrences!Schedule
<1>9. pass'[w] = [at |-> "filing", claimed |-> C] /\ (\A v \in Sweepers \ {w} : pass'[v] = pass[v])
      /\ pass' \in [Sweepers -> Passes]
  <2>1. [at |-> "filing", claimed |-> C] \in Passes
    BY <1>8 DEF Passes
  <2> QED BY <1>1, <1>5, <2>1
<1>10. schedule' \in [Templates -> Recurrences!Schedule \union {None}]
  BY <1>1, <1>5, <1>6, <1>7 DEF Recurrences!RecurringTypeOK
<1>11. \A v \in Sweepers \ {w} : pass[v].at = "locked" => pass[v].rows \intersect S = {} /\ pass[v].rows \subseteq Templates
  BY <1>1, <1>2 DEF RecurringInv, SweepsInv, Passes, Recurrences!Idle
<1>12. SweepsInv'
  BY <1>7, <1>9, <1>11 DEF RecurringInv, SweepsInv
<1>13. Recurrences!RecurringTypeOK'
  <2>1. ASSUME NEW v \in Sweepers, pass'[v].at = "locked"
        PROVE  pass'[v] \in [at : {"locked"}, day : Clock, rows : SUBSET {t \in Templates : schedule'[t] # None}]
    <3>1. \A t \in pass'[v].rows : schedule'[t] # None
      BY <2>1, <1>12 DEF SweepsInv
    <3>2. pass'[v] \in Passes
      BY <1>9
    <3> QED BY <2>1, <3>1, <3>2 DEF Passes, Recurrences!Idle
  <2>2. ASSUME NEW v \in Sweepers, pass'[v].at # "locked"
        PROVE  pass'[v] = Recurrences!Idle \/ pass'[v] \in [at : {"filing"}, claimed : SUBSET Recurrences!Claimed]
    <3>1. pass'[v] \in Passes
      BY <1>9
    <3> QED BY <2>2, <3>1 DEF Passes
  <2> QED BY <1>1, <1>5, <1>10, <2>1, <2>2 DEF Recurrences!RecurringTypeOK
<1>14. \A c \in Recurrences!Claimed : Over(c) => OverBy(c, schedule', saves') /\ c \notin C
  <2> SUFFICES ASSUME NEW c \in Recurrences!Claimed, Over(c) PROVE OverBy(c, schedule', saves') /\ c \notin C
    OBVIOUS
  <2>1. c.template \in Templates /\ c.day \in Int /\ asOf \in Int
    <3>1. Clock \subseteq Int
      BY RecurringConstants DEF Recurrences!LegalRecurringConstants
    <3>2. c.template \in Templates /\ c.day \in Clock
      BY DEF Recurrences!Claimed
    <3> QED BY <3>1, <3>2
  <2>2. CASE c.template \in S
    <3>1. /\ schedule[c.template].nextRunOn \in Int /\ schedule'[c.template].nextRunOn \in Int
          /\ schedule[c.template] # None /\ schedule[c.template].nextRunOn <= asOf
          /\ schedule'[c.template].version = schedule[c.template].version
          /\ asOf < schedule'[c.template].nextRunOn
      BY <2>2, <1>3, <1>6 DEF Recurrences!Schedule
    <3>2. schedule[c.template].version = c.version => c.day < asOf
      BY <2>1, <3>1 DEF Over
    <3>3. c \notin C
      BY <2>1, <3>2, <1>8
    <3>4. c.version <= saves'[c.template]
      BY <1>5 DEF Over
    <3>5. schedule[c.template].version = c.version => c.day < schedule'[c.template].nextRunOn
      BY <2>1, <3>1, <3>2
    <3> QED BY <3>1, <3>3, <3>4, <3>5 DEF OverBy
  <2>3. CASE c.template \notin S
    BY <2>1, <2>3, <1>5, <1>7, <1>8 DEF Over, OverBy
  <2> QED BY <2>2, <2>3
<1>15. \A c \in C : OverBy(c, schedule', saves')
  BY <1>3, <1>5, <1>6, <1>8 DEF RecurringInv, VersionsInv, OverBy
<1>16. /\ \A c \in filed : c \in Recurrences!Claimed /\ Over(c)
       /\ \A v \in Sweepers : Claims(v) \subseteq Recurrences!Claimed /\ \A c \in Claims(v) : Over(c)
  BY <1>1 DEF RecurringInv, OverInv, Recurrences!RecurringTypeOK, Passes, Claims, Recurrences!Idle
<1>17. Claims(w)' = C /\ \A v \in Sweepers \ {w} : Claims(v)' = Claims(v)
  BY <1>9 DEF Claims
<1>18. ClaimsInv'
  <2>1. \A v \in Sweepers : Claims(v)' \intersect filed' = {}
    BY <1>5, <1>14, <1>16, <1>17 DEF RecurringInv, ClaimsInv
  <2>2. \A v, u \in Sweepers : v # u => Claims(v)' \intersect Claims(u)' = {}
    BY <1>14, <1>16, <1>17 DEF RecurringInv, ClaimsInv
  <2> QED BY <2>1, <2>2 DEF ClaimsInv
<1>19. OverInv'
  BY <1>5, <1>14, <1>15, <1>16, <1>17 DEF OverInv, Over, OverBy
<1>20. VersionsInv'
  BY <1>5, <1>6, <1>7, <1>3 DEF RecurringInv, VersionsInv
<1>21. WaitsInv'
  BY <1>6, <1>7 DEF RecurringInv, WaitsInv
<1> QED BY <1>5, <1>9, <1>12, <1>13, <1>18, <1>19, <1>20, <1>21 DEF RecurringInv

\* What a step does to what is filed: it only adds, once.
LEMMA RecurringStep ==
  ASSUME RecurringInv, [Recurrences!RecurringNext]_recurringVars
  PROVE  RecurringInv' /\ filed \subseteq filed'
<1>1. Recurrences!RecurringTypeOK /\ pass \in [Sweepers -> Passes] /\ again = {}
  BY DEF RecurringInv
<1>2. CASE Recurrences!Midnight \/ UNCHANGED recurringVars
  <2>1. today' \in Clock /\ UNCHANGED <<schedule, saves, pass, filed, again>>
    BY <1>1, <1>2 DEF Recurrences!Midnight, recurringVars, Recurrences!RecurringTypeOK
  <2> QED BY <2>1 DEF RecurringInv, Recurrences!RecurringTypeOK, SweepsInv, ClaimsInv, OverInv, VersionsInv, WaitsInv, Claims, Over
<1>3. ASSUME NEW t \in Templates, NEW r \in Rules, Recurrences!SetRecurrence(t, r)
      PROVE  RecurringInv' /\ filed \subseteq filed'
  <2>1. PICK n \in 0..MaxSaves : n = saves[t] + 1 /\ saves[t] < n /\ n \in 1..MaxSaves
    BY <1>1, <1>3, RecurringConstants DEF Recurrences!RecurringTypeOK, Recurrences!SetRecurrence, Recurrences!LegalRecurringConstants
  <2> DEFINE s == [rule |-> r, nextRunOn |-> Recurrences!FirstOccurrence(r), from |-> r.startsOn - 1, version |-> n]
  <2>2. s \in Recurrences!Schedule /\ s.version = n
    BY <2>1, FirstIsADay DEF Recurrences!Schedule
  <2>2a. Waits(s)
    <3>1. \A e \in Nat : r.startsOn - 1 < e => r.startsOn <= e
      BY FirstIsADay
    <3>2. r.startsOn - 1 < Recurrences!FirstOccurrence(r)
      BY FirstIsADay
    <3> QED BY <3>1, <3>2, FirstIsADay DEF Waits
  <2>3. /\ ~Recurrences!Locked(t) /\ schedule' = [schedule EXCEPT ![t] = s] /\ saves' = [saves EXCEPT ![t] = n]
        /\ UNCHANGED <<today, pass, filed, again>>
    BY <1>3, <2>1 DEF Recurrences!SetRecurrence
  <2> HIDE DEF s
  <2>4. saves[t] <= n
    BY <1>1, <2>1 DEF Recurrences!RecurringTypeOK
  <2> QED BY <2>1, <2>2, <2>2a, <2>3, <2>4, SaveKeeps
<1>4. ASSUME NEW t \in Templates, Recurrences!ClearRecurrence(t)
      PROVE  RecurringInv' /\ filed \subseteq filed'
  <2>1. PICK n \in 0..MaxSaves : n = saves[t] /\ saves[t] <= n
    BY <1>1, RecurringConstants DEF Recurrences!RecurringTypeOK, Recurrences!LegalRecurringConstants
  <2>2. /\ ~Recurrences!Locked(t) /\ schedule' = [schedule EXCEPT ![t] = None] /\ saves' = [saves EXCEPT ![t] = n]
        /\ UNCHANGED <<today, pass, filed, again>>
    BY <1>1, <1>4, <2>1 DEF Recurrences!ClearRecurrence, Recurrences!RecurringTypeOK
  <2> QED BY <2>1, <2>2, SaveKeeps
<1>5. ASSUME NEW w \in Sweepers, NEW S \in SUBSET Templates, Recurrences!LockDue(w, S)
      PROVE  RecurringInv' /\ filed \subseteq filed'
  <2> DEFINE p == [at |-> "locked", day |-> today, rows |-> S]
  <2>1. p \in Passes /\ p.at = "locked" /\ p.rows = S /\ p.day = today
    BY <1>1 DEF Passes, Recurrences!RecurringTypeOK
  <2>2. /\ pass' = [pass EXCEPT ![w] = p] /\ UNCHANGED <<today, schedule, saves, filed, again>>
        /\ \A t \in S : ~Recurrences!Locked(t) /\ schedule[t] # None /\ schedule[t].nextRunOn <= today
    BY <1>5 DEF Recurrences!LockDue, Recurrences!Claimable
  <2>3. filed' \subseteq Recurrences!Claimed
    BY <1>1, <2>2 DEF Recurrences!RecurringTypeOK
  <2> HIDE DEF p
  <2> QED BY <2>1, <2>2, <2>3, PassMoves
<1>6. ASSUME NEW w \in Sweepers, NEW c \in Recurrences!Claimed, Recurrences!File(w, c) \/ Recurrences!Miss(w, c)
      PROVE  RecurringInv' /\ filed \subseteq filed'
  <2>1. PICK C \in SUBSET Recurrences!Claimed : pass[w] = [at |-> "filing", claimed |-> C] /\ c \in C /\ Claims(w) = C
    BY <1>1, <1>6 DEF Recurrences!File, Recurrences!Miss, Passes, Recurrences!Idle, Claims
  <2> DEFINE p == IF C = {c} THEN [at |-> "idle"] ELSE [at |-> "filing", claimed |-> C \ {c}]
  <2>2. p \in Passes /\ p.at # "locked" /\ (p.at = "filing" => p.claimed = C \ {c})
    BY <2>1 DEF Passes, Recurrences!Idle
  <2>3. pass' = [pass EXCEPT ![w] = p]
    BY <1>6, <2>1 DEF Recurrences!File, Recurrences!Miss, Recurrences!Done, Recurrences!Idle
  <2>4. c \notin filed /\ Claims(w) \intersect filed = {}
    BY <2>1 DEF RecurringInv, ClaimsInv
  <2>5. /\ filed' \in {filed, filed \union {c}} /\ UNCHANGED <<today, schedule, saves, again>>
    BY <1>6, <2>4 DEF Recurrences!File, Recurrences!Miss
  <2>6. filed' \subseteq Recurrences!Claimed
    BY <1>1, <2>5 DEF Recurrences!RecurringTypeOK
  <2> HIDE DEF p
  <2>7. p.at = "filing" => p.claimed \subseteq Claims(w) \ filed'
    BY <2>1, <2>2, <2>4, <2>5
  <2>8. \A d \in filed' : d \in filed \union Claims(w)
    BY <2>1, <2>5
  <2> QED BY <2>2, <2>3, <2>5, <2>6, <2>7, <2>8, PassMoves
<1>7. ASSUME NEW w \in Sweepers, Recurrences!Abandon(w)
      PROVE  RecurringInv' /\ filed \subseteq filed'
  <2>1. Recurrences!Idle \in Passes /\ Recurrences!Idle.at = "idle"
    BY DEF Passes, Recurrences!Idle
  <2>2. pass' = [pass EXCEPT ![w] = Recurrences!Idle] /\ UNCHANGED <<today, schedule, saves, filed, again>>
    BY <1>7 DEF Recurrences!Abandon
  <2>3. filed' \subseteq Recurrences!Claimed
    BY <1>1, <2>2 DEF Recurrences!RecurringTypeOK
  <2> QED BY <2>1, <2>2, <2>3, PassMoves
<1>8. ASSUME NEW w \in Sweepers, Recurrences!Advance(w)
      PROVE  RecurringInv' /\ filed \subseteq filed'
  BY <1>8, AdvanceKeeps DEF Recurrences!Advance
<1> QED BY <1>2, <1>3, <1>4, <1>5, <1>6, <1>7, <1>8 DEF Recurrences!RecurringNext

-----------------------------------------------------------------------------
(* Filing once, and reminders.                                              *)

\* Nothing is filed at first, as promised.
LEMMA FilingBegins == Recurrences!RecurringInit => Recurrences!Filing!OnceInit
BY DEF Recurrences!RecurringInit, Recurrences!Filing!OnceInit, Recurrences!TimesFiled

\* What is filed for the first time is filed once.
LEMMA FilingRefines ==
  ASSUME RecurringInv, RecurringInv', filed \subseteq filed'
  PROVE  Recurrences!Filing!OnceNext
<1>1. filed' \subseteq Recurrences!Claimed /\ again = {} /\ again' = {}
  BY DEF RecurringInv, Recurrences!RecurringTypeOK
<1>2. /\ Recurrences!TimesFiled = [c \in Recurrences!Claimed |-> IF c \in filed THEN 1 ELSE 0]
      /\ Recurrences!TimesFiled' = [c \in Recurrences!Claimed |-> IF c \in filed' THEN 1 ELSE 0]
  BY <1>1 DEF Recurrences!TimesFiled, Recurrences!Claimed
<1>3. Recurrences!TimesFiled' =
        [c \in Recurrences!Claimed |-> IF c \in filed' \ filed THEN Recurrences!TimesFiled[c] + 1 ELSE Recurrences!TimesFiled[c]]
  BY <1>2
<1> QED BY <1>1, <1>3 DEF Recurrences!Filing!OnceNext

-----------------------------------------------------------------------------
\* What the reminders assume of their constants.
LEMMA ReminderConstants == Reminding!LegalReminderConstants
BY LegalConstants

Sweeps == {Reminding!Idle} \union [at : {"selected", "holding"}, keys : SUBSET Reminding!Keys]

\* What a sweep has inserted is its own, and was in no ledger before.
HeldInv ==
  \A w \in Sweepers : sweep[w].at = "holding" =>
    /\ sweep[w].keys \intersect ledger = {}
    /\ \A v \in Sweepers \ {w} : sweep[v].at = "holding" => sweep[w].keys \intersect sweep[v].keys = {}

\* The inductive invariant of the reminders.
ReminderInv == Reminding!ReminderTypeOK /\ sweep \in [Sweepers -> Sweeps] /\ HeldInv

\* Nobody is told at first, as promised.
LEMMA ReminderStart == Reminding!ReminderInit => ReminderInv /\ Reminding!Announcing!OnceInit
<1> SUFFICES ASSUME Reminding!ReminderInit PROVE ReminderInv /\ Reminding!Announcing!OnceInit
  OBVIOUS
<1>1. day \in DueClock
  <2>1. DueClock \subseteq Nat /\ DueClock # {}
    BY ReminderConstants DEF Reminding!LegalReminderConstants
  <2> QED BY <2>1, LeastNatural DEF Reminding!ReminderInit
<1>2. 0 \in 0..MaxLosses
  BY ReminderConstants DEF Reminding!LegalReminderConstants
<1>3. /\ due = [i \in Work |-> None] /\ open = [i \in Work |-> TRUE]
      /\ ledger = {} /\ notified = [k \in Reminding!Keys |-> 0] /\ losses = 0
      /\ sweep = [w \in Sweepers |-> Reminding!Idle]
      /\ \A w \in Sweepers : sweep[w] = Reminding!Idle /\ sweep[w].at = "idle"
  BY DEF Reminding!ReminderInit, Reminding!Idle
<1>4. Reminding!ReminderTypeOK /\ sweep \in [Sweepers -> Sweeps]
  BY <1>1, <1>2, <1>3 DEF Reminding!ReminderTypeOK, Sweeps
<1> QED BY <1>3, <1>4 DEF ReminderInv, HeldInv, Reminding!Announcing!OnceInit

\* A sweep moves; what it holds then nobody else does, and nobody was told of.
LEMMA SweepMoves ==
  ASSUME ReminderInv, NEW w \in Sweepers, NEW p \in Sweeps, sweep' = [sweep EXCEPT ![w] = p],
         UNCHANGED <<day, due, open, ledger, notified>>, losses' \in 0..MaxLosses,
         p.at = "holding" =>
           /\ p.keys \intersect ledger = {}
           /\ \A v \in Sweepers \ {w} : sweep[v].at = "holding" => p.keys \intersect sweep[v].keys = {}
  PROVE  ReminderInv'
<1>1. Reminding!ReminderTypeOK /\ sweep \in [Sweepers -> Sweeps]
  BY DEF ReminderInv
<1>2. sweep'[w] = p /\ (\A v \in Sweepers \ {w} : sweep'[v] = sweep[v]) /\ sweep' \in [Sweepers -> Sweeps]
  BY <1>1
<1>3. Reminding!ReminderTypeOK'
  BY <1>1, <1>2 DEF Reminding!ReminderTypeOK, Sweeps
<1>4. HeldInv'
  BY <1>2 DEF ReminderInv, HeldInv
<1> QED BY <1>2, <1>3, <1>4 DEF ReminderInv

\* Who inserted a row notifies for it.
LEMMA NotifyKeeps ==
  ASSUME ReminderInv, NEW w \in Sweepers, Reminding!Notify(w)
  PROVE  ReminderInv' /\ Reminding!Announcing!OnceNext
<1>1. Reminding!ReminderTypeOK /\ sweep \in [Sweepers -> Sweeps] /\ sweep[w].at = "holding"
  BY DEF ReminderInv, Reminding!Notify
<1>2. PICK K \in SUBSET Reminding!Keys : sweep[w] = [at |-> "holding", keys |-> K]
  BY <1>1 DEF Sweeps, Reminding!Idle
<1>3. K \intersect ledger = {}
  BY <1>1, <1>2 DEF ReminderInv, HeldInv
<1>4. /\ ledger' = ledger \union K /\ sweep' = [sweep EXCEPT ![w] = Reminding!Idle]
      /\ UNCHANGED <<day, due, open, losses>>
      /\ notified' = [k \in Reminding!Keys |-> IF k \in sweep[w].keys THEN notified[k] + 1 ELSE notified[k]]
  BY <1>2 DEF Reminding!Notify
<1>5. sweep'[w] = Reminding!Idle /\ (\A v \in Sweepers \ {w} : sweep'[v] = sweep[v]) /\ sweep' \in [Sweepers -> Sweeps]
  BY <1>1, <1>4 DEF Sweeps
<1>6. /\ ledger \subseteq ledger' /\ ledger' \subseteq Reminding!Keys /\ ledger' \ ledger = K
  BY <1>1, <1>3, <1>4 DEF Reminding!ReminderTypeOK
<1>7. notified' = [k \in Reminding!Keys |-> IF k \in ledger' \ ledger THEN notified[k] + 1 ELSE notified[k]]
  BY <1>2, <1>4, <1>6
<1>8. notified' \in [Reminding!Keys -> Nat]
  BY <1>1, <1>7 DEF Reminding!ReminderTypeOK
<1>9. Reminding!ReminderTypeOK'
  BY <1>1, <1>4, <1>5, <1>6, <1>8 DEF Reminding!ReminderTypeOK, Sweeps
<1>10. HeldInv'
  BY <1>2, <1>4, <1>5 DEF ReminderInv, HeldInv, Reminding!Idle
<1> QED BY <1>5, <1>6, <1>7, <1>9, <1>10 DEF ReminderInv, Reminding!Announcing!OnceNext

\* Every step of the reminders keeps the invariant and is one of what is promised.
LEMMA ReminderStep ==
  ASSUME ReminderInv, [Reminding!ReminderNext]_reminderVars
  PROVE  ReminderInv' /\ [Reminding!Announcing!OnceNext]_<<ledger, notified>>
<1>1. Reminding!ReminderTypeOK /\ sweep \in [Sweepers -> Sweeps]
  BY DEF ReminderInv
<1>2. ASSUME day' \in DueClock, due' \in [Work -> Dates \union {None}], open' \in [Work -> BOOLEAN],
             UNCHANGED <<ledger, sweep, notified, losses>>
      PROVE  ReminderInv'
  BY <1>1, <1>2 DEF ReminderInv, HeldInv, Reminding!ReminderTypeOK
<1>3. CASE Reminding!NextDay \/ UNCHANGED reminderVars
  BY <1>1, <1>2, <1>3 DEF Reminding!NextDay, reminderVars, Reminding!ReminderTypeOK
<1>4. ASSUME NEW i \in Work, NEW d \in Dates \union {None}, Reminding!SetDue(i, d)
      PROVE  ReminderInv' /\ UNCHANGED <<ledger, notified>>
  BY <1>1, <1>2, <1>4 DEF Reminding!SetDue, Reminding!ReminderTypeOK
<1>5. ASSUME NEW i \in Work, Reminding!SetOpen(i) PROVE ReminderInv' /\ UNCHANGED <<ledger, notified>>
  BY <1>1, <1>2, <1>5 DEF Reminding!SetOpen, Reminding!ReminderTypeOK
<1>6. losses \in 0..MaxLosses /\ ledger \subseteq Reminding!Keys
  BY <1>1 DEF Reminding!ReminderTypeOK
<1>7. ASSUME NEW w \in Sweepers, Reminding!Select(w) PROVE ReminderInv' /\ UNCHANGED <<ledger, notified>>
  <2>1. PICK batch \in SUBSET {i \in Work : Reminding!ComingDue(i)} :
          /\ sweep' = [sweep EXCEPT ![w] = [at |-> "selected", keys |-> {Reminding!Key(i) : i \in batch}]]
          /\ UNCHANGED <<day, due, open, ledger, notified, losses>>
    BY <1>7 DEF Reminding!Select
  <2>2. {Reminding!Key(i) : i \in batch} \subseteq Reminding!Keys
    BY <2>1, <1>1 DEF Reminding!Key, Reminding!Keys, Reminding!ComingDue, Reminding!ReminderTypeOK
  <2>3. PICK K \in SUBSET Reminding!Keys : K = {Reminding!Key(i) : i \in batch}
    BY <2>2
  <2> DEFINE p == [at |-> "selected", keys |-> K]
  <2>4. p \in Sweeps /\ p.at # "holding" /\ sweep' = [sweep EXCEPT ![w] = p]
    BY <2>1, <2>3 DEF Sweeps
  <2> HIDE DEF p
  <2> QED BY <2>1, <2>4, <1>6, SweepMoves
<1>8. ASSUME NEW w \in Sweepers, Reminding!Insert(w) PROVE ReminderInv' /\ UNCHANGED <<ledger, notified>>
  <2>1. PICK K \in SUBSET Reminding!Keys : sweep[w] = [at |-> "selected", keys |-> K]
    BY <1>1, <1>8 DEF Reminding!Insert, Sweeps, Reminding!Idle
  <2>2. PICK H \in SUBSET Reminding!Keys : H = K \ (K \intersect ledger)
    OBVIOUS
  <2> DEFINE p == [at |-> "holding", keys |-> H]
  <2>3. sweep' = [sweep EXCEPT ![w] = p] /\ UNCHANGED <<day, due, open, ledger, notified, losses>>
    BY <1>8, <2>1, <2>2 DEF Reminding!Insert, Reminding!Conflicting
  <2>4. \A v \in Sweepers \ {w} : sweep[v].at = "holding" => H \intersect sweep[v].keys = {}
    BY <1>8, <2>1, <2>2 DEF Reminding!Insert, Reminding!Waited, Reminding!Inserted
  <2>5. p \in Sweeps /\ p.at = "holding" /\ p.keys = H /\ H \intersect ledger = {}
    BY <2>2 DEF Sweeps
  <2> HIDE DEF p
  <2> QED BY <2>3, <2>4, <2>5, <1>6, SweepMoves
<1>9. ASSUME NEW w \in Sweepers, Reminding!LoseBatch(w) PROVE ReminderInv' /\ UNCHANGED <<ledger, notified>>
  <2>1. /\ sweep' = [sweep EXCEPT ![w] = Reminding!Idle] /\ UNCHANGED <<day, due, open, ledger, notified>>
        /\ losses' \in 0..MaxLosses
    BY <1>6, <1>9, ReminderConstants DEF Reminding!LoseBatch, Reminding!LegalReminderConstants
  <2>2. Reminding!Idle \in Sweeps /\ Reminding!Idle.at = "idle"
    BY DEF Sweeps, Reminding!Idle
  <2> QED BY <2>1, <2>2, SweepMoves
<1>10. UNCHANGED reminderVars => UNCHANGED <<ledger, notified>>
  BY DEF reminderVars
<1>11. Reminding!NextDay => UNCHANGED <<ledger, notified>>
  BY DEF Reminding!NextDay
<1>12. CASE Reminding!ReminderNext
  BY <1>12, <1>3, <1>4, <1>5, <1>7, <1>8, <1>9, <1>11, NotifyKeeps DEF Reminding!ReminderNext
<1> QED BY <1>3, <1>10, <1>12

\* What waits for the first day, by the scan, does so by the closed form.
LEMMA FirstFollows == RecurringInv => Recurrences!NextIsTheFirst
<1>1. SUFFICES ASSUME RecurringInv, NEW t \in Templates, schedule[t] # None
               PROVE  /\ schedule[t].nextRunOn > schedule[t].from
                      /\ {d \in Recurrences!Occurrences(schedule[t].rule, schedule[t].nextRunOn) :
                            d > schedule[t].from} = {schedule[t].nextRunOn}
  BY DEF Recurrences!NextIsTheFirst
<1>2. schedule[t].rule \in Rules /\ schedule[t].nextRunOn \in Int /\ schedule[t].from \in Int
  BY <1>1 DEF RecurringInv, Recurrences!RecurringTypeOK, Recurrences!Schedule
<1>3. Waits(schedule[t])
  BY <1>1 DEF RecurringInv, WaitsInv
<1>. QED  BY <1>2, <1>3, WaitsForTheFirst DEF Waits

-----------------------------------------------------------------------------
(* Every process, one part to a behaviour.                                   *)

\* The invariant of each part; those that rest have it as they began.
BackgroundInv == RecurringInv /\ ReminderInv /\ MigrationInv

\* Whatever part moves, each is rested or takes a step of its own.
LEMMA PartsMove ==
  ASSUME [BackgroundNext]_backgroundVars
  PROVE  /\ [Next]_vars /\ [Recurrences!RecurringNext]_recurringVars
         /\ [Reminding!ReminderNext]_reminderVars /\ [Migrating!MigrationNext]_migrationVars
BY DEF BackgroundNext, backgroundVars, queueVars

\* Each part begins in its invariant, and moves within it.
THEOREM BackgroundInvHolds == BackgroundSpec => []BackgroundInv
<1>1. BackgroundInit => BackgroundInv
  BY RecurringStart, ReminderStart, MigrationStart DEF BackgroundInit, BackgroundInv
<1>2. BackgroundInv /\ [BackgroundNext]_backgroundVars => BackgroundInv'
  BY PartsMove, RecurringStep, ReminderStep, MigrationStep DEF BackgroundInv
<1> QED BY <1>1, <1>2, PTL DEF BackgroundSpec

\* However many containers migrate, from whatever checkouts, and wherever they die: the
\* ledger tells what was executed, once, and who booted finds all of its checkout.
THEOREM SchemaTheorem == BackgroundSpec => []SchemaIsWhatTheLedgerSays
<1>1. BackgroundInv => SchemaIsWhatTheLedgerSays
  BY DEF BackgroundInv, SchemaIsWhatTheLedgerSays, MigrationInv
<1> QED BY <1>1, BackgroundInvHolds, PTL

\* However many replicas sweep, an occurrence of a schedule is filed once and a due date
\* announced once: both implement OnceOnly.
THEOREM OnceTheorem ==
  BackgroundSpec => Recurrences!FilingIsOnceOnly /\ Reminding!RemindersAreOnceOnly
<1>1. BackgroundInit => Recurrences!Filing!OnceInit /\ Reminding!Announcing!OnceInit
  BY FilingBegins, ReminderStart DEF BackgroundInit
<1>2. BackgroundInv /\ BackgroundInv' /\ [BackgroundNext]_backgroundVars
        => Recurrences!Filing!OnceNext /\ [Reminding!Announcing!OnceNext]_<<ledger, notified>>
  BY PartsMove, RecurringStep, ReminderStep, FilingRefines DEF BackgroundInv
<1>3. BackgroundSpec => [][Recurrences!Filing!OnceNext]_<<filed, Recurrences!TimesFiled>>
  BY <1>2, BackgroundInvHolds, PTL DEF BackgroundSpec
<1>4. BackgroundSpec => [][Reminding!Announcing!OnceNext]_<<ledger, notified>>
  BY <1>2, BackgroundInvHolds, PTL DEF BackgroundSpec
<1>5. BackgroundSpec => Recurrences!FilingIsOnceOnly
  BY <1>1, <1>3, PTL DEF BackgroundSpec, Recurrences!FilingIsOnceOnly, Recurrences!Filing!OnceSpec
<1>6. BackgroundSpec => Reminding!RemindersAreOnceOnly
  BY <1>1, <1>4, PTL DEF BackgroundSpec, Reminding!RemindersAreOnceOnly, Reminding!Announcing!OnceSpec
<1> QED BY <1>5, <1>6

\* Whatever was saved, swept and missed, a schedule waits for the first day that its rule
\* names after the day it was computed from: no day is jumped over.
THEOREM ScheduleTheorem == BackgroundSpec => []WaitsInv
<1>1. BackgroundInv => WaitsInv
  BY DEF BackgroundInv, RecurringInv
<1> QED BY <1>1, BackgroundInvHolds, PTL

\* Beside the others the queue is what it is alone.
THEOREM QueueTheorem == BackgroundSpec => [](TypeOK /\ VectorsAreHonest /\ AttemptsStaySmall)
<1>1. BackgroundInit => IInv
  BY InitInv DEF BackgroundInit
<1>2. IInv /\ [BackgroundNext]_backgroundVars => IInv'
  BY PartsMove, QueueStep
<1>3. IInv => TypeOK /\ VectorsAreHonest /\ AttemptsStaySmall
  BY HonestFollows, AttemptsFollow DEF IInv
<1> QED BY <1>1, <1>2, <1>3, PTL DEF BackgroundSpec

\* Every table is well typed: a resting part's too, which has what it began with.
THEOREM BackgroundTypeCorrect == BackgroundSpec => []BackgroundTypeOK
<1>1. BackgroundInv /\ TypeOK => BackgroundTypeOK
  BY DEF BackgroundInv, BackgroundTypeOK, RecurringInv, ReminderInv, MigrationInv
<1> QED BY <1>1, BackgroundInvHolds, QueueTheorem, PTL

\* For every rule and calendar, whatever was saved, swept and missed and wherever the
\* replicas stall or die: a schedule waits for the first day its rule names, by the
\* closed form, and an occurrence is filed once and a due date announced once.
THEOREM SchedulesTheorem == BackgroundSpec => SchedulesAreKept
<1>1. BackgroundInv => (part = "recurring" => Recurrences!NextIsTheFirst)
  BY FirstFollows DEF BackgroundInv
<1>2. BackgroundSpec => [](part = "recurring" => Recurrences!NextIsTheFirst)
  BY <1>1, BackgroundInvHolds, PTL
<1>. QED  BY <1>2, OnceTheorem DEF SchedulesAreKept
=============================================================================
