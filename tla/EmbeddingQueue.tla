--------------------------- MODULE EmbeddingQueue ---------------------------
(***************************************************************************)
(* The semantic index and the queue that fills it.                         *)
(*                                                                         *)
(* Whether a vector is current is never stored: it is current when its     *)
(* digest equals the digest of the issue's text.  A worker's pass sweeps   *)
(* (an anti-join over issues, an upsert into embedding_jobs), claims (a    *)
(* lease), runs the model with no connection held, and stores each outcome *)
(* in a transaction of its own.  embeddingsRefresh writes vectors beside   *)
(* the queue.  Each statement reads a snapshot and writes later: the two   *)
(* statements whose write can meet a row changed in between, the sweep and *)
(* the upsert of a vector, are two steps each.                             *)
(*                                                                         *)
(* A digest is a function of the text, so the text stands for both.  One   *)
(* model name is in force.  A claim takes every due job: at most           *)
(* CLAIM_BATCH are due at once.                                            *)
(***************************************************************************)
EXTENDS Naturals, FiniteSets

CONSTANTS
    Issues,         \* numbered as they are filed
    Texts,          \* titles with descriptions
    Workers,        \* the EmbeddingWorker of each process
    Clients,        \* callers of embeddingsRefresh
    None,           \* no text, no vector, no job, no error
    MaxAttempts,    \* MAX_ATTEMPTS
    EnqueueBatch    \* ENQUEUE_BATCH

ASSUME IssuesAssumption == Issues \subseteq Nat
ASSUME NoneAssumption == None \notin Texts
ASSUME ActorsAssumption == Workers \cap Clients = {} /\ IsFiniteSet(Workers)
ASSUME BoundsAssumption == MaxAttempts \in Nat \ {0} /\ EnqueueBatch \in Nat \ {0}

VARIABLES
    text,       \* issues.title and description, None before it is filed
    archived,   \* issues.archived_at IS NOT NULL
    vector,     \* issue_embeddings: the digest stored, and what was embedded
    job,        \* embedding_jobs
    stage,      \* where each worker's pass, and each client's request, stands
    work,       \* the sources it has in hand
    read        \* what an upsert has read of its issue and not yet written

issueVars == <<text, archived>>
actorVars == <<stage, work, read>>
vars == <<text, archived, vector, job, stage, work, read>>

-----------------------------------------------------------------------------
Actors == Workers \cup Clients
Sources == [issue : Issues, text : Texts]
Readings == [source : Sources, digest : Texts]
Vectors == [digest : Texts, of : Texts]

\* next_attempt_at is past ("due"), ahead ("later": leased, or backing off) or
\* 'infinity' ("never").  error stands for the text that last_error is about.
Jobs == [digest : Texts, attempts : Nat, when : {"due", "later", "never"},
         error : Texts \cup {None}]
Fresh(x) == [digest |-> x, attempts |-> 0, when |-> "due", error |-> None]

Stages == {"idle", "sweeping", "swept", "storing", "refreshing"}

TypeOK ==
    /\ text \in [Issues -> Texts \cup {None}]
    /\ archived \in SUBSET Issues
    /\ vector \in [Issues -> Vectors \cup {None}]
    /\ job \in [Issues -> Jobs \cup {None}]
    /\ stage \in [Actors -> Stages]
    /\ work \in [Actors -> SUBSET Sources]
    /\ read \in [Actors -> Readings \cup {None}]
    /\ \A w \in Actors : read[w] # None => read[w].source \in work[w]

Init ==
    /\ text = [i \in Issues |-> None]
    /\ archived = {}
    /\ vector = [i \in Issues |-> None]
    /\ job = [i \in Issues |-> None]
    /\ stage = [w \in Actors |-> "idle"]
    /\ work = [w \in Actors |-> {}]
    /\ read = [w \in Actors |-> None]

-----------------------------------------------------------------------------
(***************************************************************************)
(* Issues and time                                                         *)
(***************************************************************************)
Live(i) == text[i] # None /\ i \notin archived

File(i, x) ==
    /\ text[i] = None
    /\ \A j \in Issues : j < i => text[j] # None
    /\ text' = [text EXCEPT ![i] = x]
    /\ UNCHANGED <<archived, vector, job, actorVars>>

Edit(i, x) ==
    /\ Live(i)
    /\ x # text[i]
    /\ text' = [text EXCEPT ![i] = x]
    /\ UNCHANGED <<archived, vector, job, actorVars>>

Archive(i) ==
    /\ Live(i)
    /\ archived' = archived \cup {i}
    /\ UNCHANGED <<text, vector, job, actorVars>>

\* next_attempt_at passes: a lease or a backoff runs out, whoever holds the job.
ComeDue(i) ==
    /\ job[i] # None
    /\ job[i].when = "later"
    /\ job' = [job EXCEPT ![i].when = "due"]
    /\ UNCHANGED <<issueVars, vector, actorVars>>

-----------------------------------------------------------------------------
(***************************************************************************)
(* Sweep and claim                                                         *)
(***************************************************************************)
Current(i) == vector[i] # None /\ vector[i].digest = text[i]
Queued(i) == job[i] # None /\ job[i].digest = text[i]
HasJob(i, x) == job[i] # None /\ job[i].digest = x

\* ORDER BY created_at DESC LIMIT n.
Newest(S, n) == {i \in S : Cardinality({j \in S : j > i}) < n}
AsSources(S) == {[issue |-> i, text |-> text[i]] : i \in S}

Unindexed == {i \in Issues : Live(i) /\ ~Current(i)}

\* Mutant: the anti-join onto embedding_jobs is missing.
StaleOrQueued == Unindexed

\* The two anti-joins of enqueue_stale.
Stale == {i \in Unindexed : ~Queued(i)}

\* enqueue_stale reads its snapshot.
Sweep(w) ==
    /\ stage[w] = "idle"
    /\ stage' = [stage EXCEPT ![w] = "sweeping"]
    /\ work' = [work EXCEPT ![w] = AsSources(Newest(Stale, EnqueueBatch))]
    /\ UNCHANGED <<issueVars, vector, job, read>>

\* Mutant: the DO UPDATE has lost its WHERE.
EnqueueAnyway(w) ==
    /\ stage[w] = "sweeping"
    /\ job' = [i \in Issues |->
                 IF \E s \in work[w] : s.issue = i
                 THEN Fresh((CHOOSE s \in work[w] : s.issue = i).text)
                 ELSE job[i]]
    /\ stage' = [stage EXCEPT ![w] = "swept"]
    /\ work' = [work EXCEPT ![w] = {}]
    /\ UNCHANGED <<issueVars, vector, read>>

\* enqueue_stale writes and commits: a row at the same digest is left alone.
Enqueue(w) ==
    LET fresh == {s \in work[w] : ~HasJob(s.issue, s.text)} IN
    /\ stage[w] = "sweeping"
    /\ job' = [i \in Issues |->
                 IF \E s \in fresh : s.issue = i
                 THEN Fresh((CHOOSE s \in fresh : s.issue = i).text)
                 ELSE job[i]]
    /\ stage' = [stage EXCEPT ![w] = "swept"]
    /\ work' = [work EXCEPT ![w] = {}]
    /\ UNCHANGED <<issueVars, vector, read>>

\* Mutant: a claim passes over archived issues.
DueAndLive == {i \in Issues : job[i] # None /\ job[i].when = "due" /\ Live(i)}

\* claim: one statement leases the jobs that are due, archived issues included,
\* and answers with the text the issues have now.
Due == {i \in Issues : job[i] # None /\ job[i].when = "due"}

Claim(w) ==
    /\ stage[w] = "swept"
    /\ job' = [i \in Issues |->
                 IF i \in Due THEN [job[i] EXCEPT !.when = "later"] ELSE job[i]]
    /\ work' = [work EXCEPT ![w] = AsSources(Due)]
    /\ stage' = [stage EXCEPT ![w] = IF Due = {} THEN "idle" ELSE "storing"]
    /\ UNCHANGED <<issueVars, vector, read>>

-----------------------------------------------------------------------------
(***************************************************************************)
(* Storing outcomes, one transaction each                                  *)
(***************************************************************************)

\* Mutant: what was read for one source is still at hand for the next.
FinishOpen(w, s) ==
    /\ work' = [work EXCEPT ![w] = @ \ {s}]
    /\ stage' = [stage EXCEPT ![w] = IF work[w] = {s} THEN "idle" ELSE @]
    /\ UNCHANGED read

\* w is done with s: after the last one the pass, or the request, is over.
Finish(w, s) ==
    /\ work' = [work EXCEPT ![w] = @ \ {s}]
    /\ stage' = [stage EXCEPT ![w] = IF work[w] = {s} THEN "idle" ELSE @]
    /\ read' = [read EXCEPT ![w] = None]

\* Mutant: a lease that ran out does not keep a retired job from being retried.
ChargeAndRetry(i, x) ==
    job' = [job EXCEPT ![i] =
              IF @ = None THEN None
              ELSE [@ EXCEPT !.attempts = @ + 1, !.error = x,
                      !.when = IF job[i].attempts + 1 = MaxAttempts
                               THEN "never" ELSE "later"]]

\* fail, in the CASE of its UPDATE; a job that is gone is not there to charge.
Charge(i, x) ==
    LET attempts == job[i].attempts + 1 IN
    job' = [job EXCEPT ![i] =
              IF @ = None THEN None
              ELSE [@ EXCEPT !.attempts = attempts, !.error = x,
                      !.when = IF attempts >= MaxAttempts THEN "never" ELSE "later"]]

\* The model raised on this text.
Fail(w, s) ==
    /\ stage[w] = "storing"
    /\ s \in work[w]
    /\ read[w] = None
    /\ Charge(s.issue, s.text)
    /\ Finish(w, s)
    /\ UNCHANGED <<issueVars, vector>>

Unchanged(s) == Live(s.issue) /\ text[s.issue] = s.text

\* upsert declines, and complete deletes the job whatever it says by now.
Decline(w, s) ==
    /\ stage[w] = "storing"
    /\ s \in work[w]
    /\ read[w] = None
    /\ ~Unchanged(s)
    /\ job' = [job EXCEPT ![s.issue] = None]
    /\ Finish(w, s)
    /\ UNCHANGED <<issueVars, vector>>

\* Mutant: the digest is not compared.
ReadLive(w, s) ==
    /\ stage[w] \in {"storing", "refreshing"}
    /\ s \in work[w]
    /\ read[w] = None
    /\ Live(s.issue)
    /\ read' = [read EXCEPT ![w] = [source |-> s, digest |-> text[s.issue]]]
    /\ UNCHANGED <<issueVars, vector, job, stage, work>>

\* upsert: the SELECT finds the issue live and unchanged.
Read(w, s) ==
    /\ stage[w] \in {"storing", "refreshing"}
    /\ s \in work[w]
    /\ read[w] = None
    /\ Unchanged(s)
    /\ read' = [read EXCEPT ![w] = [source |-> s, digest |-> text[s.issue]]]
    /\ UNCHANGED <<issueVars, vector, job, stage, work>>

\* upsert: the row is written, over whatever is there by now.
Write(w, i) ==
    vector' = [vector EXCEPT ![i] = [digest |-> read[w].digest,
                                     of |-> read[w].source.text]]

\* The rest of _store: the vector, complete, commit.
Store(w) ==
    /\ stage[w] = "storing"
    /\ read[w] # None
    /\ Write(w, read[w].source.issue)
    /\ job' = [job EXCEPT ![read[w].source.issue] = None]
    /\ Finish(w, read[w].source)
    /\ UNCHANGED issueVars

\* The process dies, or a statement raises and ends the pass or the request:
\* what was leased stays leased until its lease runs out.
Abandon(w) ==
    /\ stage[w] # "idle"
    /\ stage' = [stage EXCEPT ![w] = "idle"]
    /\ work' = [work EXCEPT ![w] = {}]
    /\ read' = [read EXCEPT ![w] = None]
    /\ UNCHANGED <<issueVars, vector, job>>

-----------------------------------------------------------------------------
(***************************************************************************)
(* embeddingsRefresh, for one issue                                        *)
(***************************************************************************)

\* list_stale does not look at embedding_jobs.
Refresh(c) ==
    /\ stage[c] = "idle"
    /\ Unindexed # {}
    /\ stage' = [stage EXCEPT ![c] = "refreshing"]
    /\ work' = [work EXCEPT ![c] = AsSources(Newest(Unindexed, 1))]
    /\ UNCHANGED <<issueVars, vector, job, read>>

DeclineRefresh(c, s) ==
    /\ stage[c] = "refreshing"
    /\ s \in work[c]
    /\ read[c] = None
    /\ ~Unchanged(s)
    /\ Finish(c, s)
    /\ UNCHANGED <<issueVars, vector, job>>

StoreRefresh(c) ==
    /\ stage[c] = "refreshing"
    /\ read[c] # None
    /\ Write(c, read[c].source.issue)
    /\ Finish(c, read[c].source)
    /\ UNCHANGED <<issueVars, job>>

-----------------------------------------------------------------------------
Pass(w) ==
    \/ Sweep(w) \/ Enqueue(w) \/ Claim(w) \/ Store(w)
    \/ \E s \in work[w] : Fail(w, s) \/ Decline(w, s) \/ Read(w, s)

Serve(c) ==
    \/ Refresh(c) \/ StoreRefresh(c)
    \/ \E s \in work[c] : Read(c, s) \/ DeclineRefresh(c, s)

Change == \E i \in Issues :
    \/ Archive(i)
    \/ \E x \in Texts : File(i, x) \/ Edit(i, x)

Next ==
    \/ \E w \in Workers : Pass(w)
    \/ \E c \in Clients : Serve(c)
    \/ \E w \in Actors : Abandon(w)
    \/ \E i \in Issues : ComeDue(i)
    \/ Change

Spec == Init /\ [][Next]_vars

\* Each process loops over its passes for ever, and time passes.  A client need
\* not come, an issue need not be filed, a process need not die.
FairSpec ==
    /\ Spec
    /\ \A w \in Workers : WF_vars(Pass(w))
    /\ \A i \in Issues : WF_vars(ComeDue(i))

-----------------------------------------------------------------------------
(***************************************************************************)
(* Properties                                                              *)
(***************************************************************************)

\* What semantic search takes for current is a vector of the issue's present
\* text, whatever was edited while a model was running.
VectorsAreHonest ==
    \A i \in Issues : text[i] # None /\ Current(i) => vector[i].of = text[i]

\* Workers that were overtaken by their lease still charge the job they held,
\* each of them once: the counter stays far below the CHECK of migration 028.
AttemptsStaySmall ==
    \A i \in Issues :
        job[i] # None => job[i].attempts < MaxAttempts + Cardinality(Workers)

\* As long as a job is about the same text its attempts are never forgotten and
\* giving up is final, though two workers may sweep at the same instant.
KeepsCount(i) ==
    job[i] # None /\ job'[i] # None /\ job'[i].digest = job[i].digest =>
        /\ job'[i].attempts >= job[i].attempts
        /\ job[i].when = "never" => job'[i].when = "never"
AttemptsAreNotDiscarded == [][\A i \in Issues : KeepsCount(i)]_vars

\* Once issues are left alone and processes stop dying, every live issue is
\* indexed or given up on for good, and no job is left over for an archived one.
Settled(i) ==
    \/ text[i] = None
    \/ job[i] # None /\ job[i].when = "never"
    \/ IF Live(i) THEN Current(i) ELSE job[i] = None
Interrupted(w) == Abandon(w) /\ (stage[w] = "swept" => Due # {})
Disturbed == Change \/ \E w \in Actors : Interrupted(w)
EveryIssueSettles ==
    <>[][~Disturbed]_vars => <>[](\A i \in Issues : Settled(i))

\* "a non-NULL value always describes the attempts currently counted in
\* `attempts`, rather than being a scar from a previous digest": last_error, in
\* a job that is about the issue's present text.
ErrorsDescribeTheText ==
    \A i \in Issues :
        job[i] # None /\ Queued(i) => job[i].error \in {None, text[i]}
=============================================================================
