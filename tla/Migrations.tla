----------------------------- MODULE Migrations -----------------------------
(***************************************************************************)
(* The migration runner.  Containers boot with --all, operators apply one   *)
(* file; each works from a checkout of its own, and they meet at a ledger   *)
(* in the database under one advisory lock.  A database older than the      *)
(* ledger has its first migration adopted.  A run may end anywhere.         *)
(***************************************************************************)
EXTENDS Naturals, FiniteSets

CONSTANTS
  Runners,
  Checkouts,    \* versions to the text of their file
  Aspects,      \* of the table of the first migration: what the fingerprint compares
  None

VARIABLES
  ledger,       \* schema_migrations: the checksum of each version, which is its text
  table,        \* issues: absent, or the aspects in which it is not as 001 leaves it
  ran,          \* history: how often each migration was executed and committed
  runner,       \* the run of each runner
  lock,         \* ADVISORY_LOCK_KEY
  booted        \* history: the checkouts some run of --all has seen through

migrationVars == <<ledger, table, ran, runner, lock, booted>>

Versions == UNION {DOMAIN c : c \in Checkouts}
Contents == UNION {{c[v] : v \in DOMAIN c} : c \in Checkouts}
First == 1

LegalMigrationConstants ==
  /\ Versions \subseteq Nat \ {0} /\ IsFiniteSet(Versions)
  /\ \A c \in Checkouts : First \in DOMAIN c
  /\ "columns" \in Aspects /\ \A S \in SUBSET Aspects : None # S
  /\ None \notin Runners \union Contents

Idle == [at |-> "idle"]
Ledger == [Versions -> Contents \union {None}]
Run == [at : {"planned"}, files : Checkouts, plan : SUBSET Versions, all : BOOLEAN]
Inside == [at : {"inside"}, files : Checkouts, plan : SUBSET Versions, all : BOOLEAN, seen : Ledger]

MigrationTypeOK ==
  /\ ledger \in Ledger
  /\ table \in (SUBSET Aspects) \union {None}
  /\ ran \in [Versions -> Nat]
  /\ \A r \in Runners : runner[r] = Idle \/ runner[r] \in Run \union Inside
  /\ lock \in Runners \union {None} /\ booted \subseteq Checkouts

\* A new database, one the former runner took some way, or one nobody can explain.
MigrationInit ==
  /\ ledger = [v \in Versions |-> None]
  /\ \/ table = None /\ ran = [v \in Versions |-> 0]
     \/ table \in SUBSET Aspects
        /\ \E last \in Versions :
             /\ (table = {}) = (last = First)
             /\ ran = [v \in Versions |-> IF v <= last THEN 1 ELSE 0]
  /\ runner = [r \in Runners |-> Idle] /\ lock = None /\ booted = {}

Recorded(l) == {v \in Versions : l[v] # None}
Least(S) == CHOOSE v \in S : \A w \in S : v <= w

\* Mutant: the name of the table is evidence enough.
LooksInitial == table # None
\* _initial_schema_discrepancies: nothing differs from what 001 creates.
MatchesInitial == table = {}

\* The run stops: a table, an empty ledger, and no match.
Refused(l) == Recorded(l) = {} /\ table # None /\ ~MatchesInitial

\* _prepare_ledger: what the transaction sees, 001 adopted with the text of the checkout.
Prepared(c) ==
  IF Recorded(ledger) = {} /\ MatchesInitial THEN [ledger EXCEPT ![First] = c[First]] ELSE ledger

\* verify_checksums; a version with no file is reported and passes.
Mismatch(l, c) == \E v \in Recorded(l) \intersect DOMAIN c : l[v] # c[v]

\* A finished plan ends the run.
Planned(c, plan, all) ==
  IF plan = {} THEN Idle ELSE [at |-> "planned", files |-> c, plan |-> plan, all |-> all]
Seen(c, plan, all) == IF all /\ plan = {} THEN booted \union {c} ELSE booted

\* --all: the lock, the ledger, the checksums and the list of what is pending, once.
Boot(r, c) ==
  /\ runner[r] = Idle /\ lock = None
  /\ ~Refused(ledger) /\ ~Mismatch(ledger, c)
  /\ LET plan == DOMAIN c \ Recorded(Prepared(c))
     IN /\ ledger' = Prepared(c)
        /\ runner' = [runner EXCEPT ![r] = Planned(c, plan, TRUE)]
        /\ booted' = Seen(c, plan, TRUE)
  /\ UNCHANGED <<table, ran, lock>>

\* One file is named on the command line.
ApplyFile(r, c, v) ==
  /\ runner[r] = Idle /\ v \in DOMAIN c
  /\ runner' = [runner EXCEPT ![r] = Planned(c, {v}, FALSE)]
  /\ UNCHANGED <<ledger, table, ran, lock, booted>>

\* Mutant: what was verified when the run began is not verified again.
VerifiedBefore(l, c) == TRUE
\* _raise_on_mismatch, for every file anew.
Verified(l, c) == ~Mismatch(l, c)

\* apply_migration up to the decision.
Lock(r) ==
  /\ runner[r].at = "planned" /\ lock = None
  /\ ~Refused(ledger)
  /\ LET c == runner[r].files
         l == Prepared(c)
     IN /\ Verified(l, c)
        /\ runner' = [runner EXCEPT ![r] =
             [at |-> "inside", files |-> c, plan |-> @.plan, all |-> @.all, seen |-> l]]
  /\ lock' = r
  /\ UNCHANGED <<ledger, table, ran, booted>>

\* The file runs: the first makes the table, the others need it and change it.
Executes(v) == IF v = First THEN table = None ELSE table # None
Changed(v) == IF v = First THEN {} ELSE table \union {"columns"}

\* Whether the version is still to be applied, by the ledger read under the lock.
Pending(r, v) == runner[r].seen[v] = None

\* The first of the plan is executed and recorded, or found applied, and the commit.
Apply(r) ==
  /\ runner[r].at = "inside"
  /\ LET c == runner[r].files
         v == Least(runner[r].plan)
         rest == runner[r].plan \ {v}
     IN /\ \/ Pending(r, v) /\ Executes(v)
              /\ table' = Changed(v) /\ ran' = [ran EXCEPT ![v] = @ + 1]
              /\ ledger' = [runner[r].seen EXCEPT ![v] = c[v]]
           \/ ~Pending(r, v)
              /\ ledger' = runner[r].seen /\ UNCHANGED <<table, ran>>
        /\ runner' = [runner EXCEPT ![r] = Planned(c, rest, runner[r].all)]
        /\ booted' = Seen(c, rest, runner[r].all)
  /\ lock' = None

\* A refusal, a statement that fails, a lost connection, a killed container.
Stop(r) ==
  /\ runner[r] # Idle
  /\ runner' = [runner EXCEPT ![r] = Idle]
  /\ lock' = IF lock = r THEN None ELSE lock
  /\ UNCHANGED <<ledger, table, ran, booted>>

MigrationNext ==
  \/ \E r \in Runners, c \in Checkouts : Boot(r, c) \/ \E v \in DOMAIN c : ApplyFile(r, c, v)
  \/ \E r \in Runners : Lock(r) \/ Apply(r) \/ Stop(r)

MigrationSpec == MigrationInit /\ [][MigrationNext]_migrationVars

-----------------------------------------------------------------------------
(* The ledger tells the schema: once it names a version it names exactly    *)
(* those that were executed, and each was executed once, whoever raced and  *)
(* died, and whatever was there before the ledger.                          *)
LedgerTellsTheSchema ==
  Recorded(ledger) # {} => \A v \in Versions : ran[v] = IF ledger[v] = None THEN 0 ELSE 1

(* A container that got through --all serves on a database that has every   *)
(* migration of its checkout, with the text its files have, although others *)
(* applied some of them in between from checkouts of their own.             *)
BootMeansApplied == \A c \in booted : \A v \in DOMAIN c : ledger[v] = c[v]
=============================================================================
