----------------------------- MODULE Deployment -----------------------------
(***************************************************************************)
(* Preparing a database: runMigrations, then seedDevIntegrator, as         *)
(* `npm run setup:dev` chains them and each file of the integration tests  *)
(* does before its first test.  The test files run at the same time,       *)
(* against one database; a run may die anywhere and be started again.      *)
(*                                                                         *)
(* Migration v runs in one transaction: its statements, the INSERT of its  *)
(* version, COMMIT.  Its CREATE statements have no IF NOT EXISTS, so they  *)
(* fail when the objects are there; while another open transaction has     *)
(* created them PostgreSQL makes the second wait for its outcome.          *)
(*                                                                         *)
(* Left out: what the objects are; the TRUNCATE between two tests.         *)
(***************************************************************************)
EXTENDS Naturals, FiniteSets

CONSTANTS
  Runners,          \* processes that may prepare the database
  Files,            \* how many migrations there are, in the order of names
  MayFail,          \* whether statements may fail, and runners die
  MaxStarts         \* bound on processes started

ASSUME FilesAssumption == Files \in Nat
ASSUME RunnersAssumption == IsFiniteSet(Runners)
ASSUME StartsAssumption == MaxStarts \in Nat /\ MayFail \in BOOLEAN

VARIABLES
  hasTable,         \* schema_migrations exists
  recorded,         \* the versions in schema_migrations
  built,            \* the migrations whose objects exist
  integrators,      \* rows of integrator_accounts with the development key
  run,              \* each runner's process
  starts,           \* processes started so far
  broken,           \* history: some statement has failed, or process died
  raced             \* history: seeders that found no integrator while another
                    \* was about to insert one

database == <<hasTable, recorded, built, integrators>>
vars == <<database, run, starts, broken, raced>>

Versions == 1..Files

-----------------------------------------------------------------------------

\* The statement a runner awaits.  "rollback" follows an error of the
\* migration itself; the transaction is open from begin to rollback.
Awaited ==
  { "findTable", "createTable", "readApplied", "begin", "runSql", "record",
    "commit", "rollback", "findIntegrator", "insertIntegrator" }

\* applied is the set read at the start, which nothing refreshes; file the
\* last migration looked at.
Run == [step : Awaited \cup {"off", "failed", "done"}, applied : SUBSET Versions, file : 0..Files]

NewRun == [step |-> "findTable", applied |-> {}, file |-> 0]

Goto(r, step) == run' = [run EXCEPT ![r].step = step]
AtRest(r) == run[r].step \notin Awaited

Start(r) ==
  /\ AtRest(r)
  /\ starts < MaxStarts
  /\ run' = [run EXCEPT ![r] = NewRun]
  /\ starts' = starts + 1
  /\ UNCHANGED <<database, broken, raced>>

\* CREATE TABLE IF NOT EXISTS looks first ...
FindTable(r) ==
  /\ run[r].step = "findTable"
  /\ Goto(r, IF hasTable THEN "readApplied" ELSE "createTable")
  /\ UNCHANGED <<database, starts, broken, raced>>

\* ... and fails if the table has come into being since.
CreateTable(r) ==
  /\ run[r].step = "createTable"
  /\ hasTable' = TRUE
  /\ Goto(r, IF hasTable THEN "failed" ELSE "readApplied")
  /\ UNCHANGED <<recorded, built, integrators, starts, broken, raced>>

ReadApplied(r) ==
  /\ run[r].step = "readApplied"
  /\ run' = [run EXCEPT ![r] = [step |-> "begin", applied |-> recorded, file |-> 0]]
  /\ UNCHANGED <<database, starts, broken, raced>>

\* The migrations this run still means to apply.
Pending(r) == {v \in Versions : v > run[r].file /\ v \notin run[r].applied}

\* Mutant: the files are taken in the order the directory lists them.
BeginUnsorted(r, v) ==
  /\ run[r].step = "begin"
  /\ v \in Pending(r)
  /\ run' = [run EXCEPT ![r] = [step |-> "runSql", applied |-> @.applied, file |-> v]]
  /\ UNCHANGED <<database, starts, broken, raced>>

\* The first of them, in the order of names.
Begin(r, v) ==
  /\ run[r].step = "begin"
  /\ v \in Pending(r)
  /\ \A w \in Pending(r) : v <= w
  /\ run' = [run EXCEPT ![r] = [step |-> "runSql", applied |-> @.applied, file |-> v]]
  /\ UNCHANGED <<database, starts, broken, raced>>

\* No file is left: the runner goes on to the seed.
Migrated(r) ==
  /\ run[r].step = "begin"
  /\ Pending(r) = {}
  /\ Goto(r, "findIntegrator")
  /\ UNCHANGED <<database, starts, broken, raced>>

\* Mutant: an error leaves the transaction open.
HasOpenUnreleased(r, v) == run[r].step \in {"record", "commit", "failed"} /\ run[r].file = v

\* r's open transaction has created the objects of migration v.
HasOpen(r, v) == run[r].step \in {"record", "commit"} /\ run[r].file = v

\* The migrations whose types and tables the statements of v refer to.
Refers(v) == {u \in Versions : u < v}

\* A CREATE TYPE, TABLE or INDEX of v fails on the object it is to create.
Clashes(v) == v \in built

Fits(v) == ~ Clashes(v) /\ Refers(v) \subseteq built

\* Mutant: without a transaction what the statements create stays.
RunSqlAtOnce(r) ==
  LET v == run[r].file
  IN /\ run[r].step = "runSql"
     /\ Goto(r, IF Fits(v) THEN "record" ELSE "rollback")
     /\ built' = IF Fits(v) THEN built \cup {v} ELSE built
     /\ UNCHANGED <<hasTable, recorded, integrators, starts, broken, raced>>

RunSql(r) ==
  LET v == run[r].file
  IN /\ run[r].step = "runSql"
     /\ \A q \in Runners : ~ HasOpen(q, v)
     /\ Goto(r, IF Fits(v) THEN "record" ELSE "rollback")
     /\ UNCHANGED <<database, starts, broken, raced>>

\* INSERT INTO schema_migrations ... ON CONFLICT DO NOTHING, still uncommitted.
Record(r) ==
  /\ run[r].step = "record"
  /\ Goto(r, "commit")
  /\ UNCHANGED <<database, starts, broken, raced>>

\* What a commit makes of the database.
Committed(v) ==
  /\ built' = built \cup {v}
  /\ recorded' = recorded \cup {v}

\* Mutant: the next file is skipped.
CommitAndSkip(r) ==
  /\ run[r].step = "commit"
  /\ Committed(run[r].file)
  /\ run' = [run EXCEPT ![r].step = "begin", ![r].file = @ + 1]
  /\ UNCHANGED <<hasTable, integrators, starts, broken, raced>>

Commit(r) ==
  /\ run[r].step = "commit"
  /\ Committed(run[r].file)
  /\ Goto(r, "begin")
  /\ UNCHANGED <<hasTable, integrators, starts, broken, raced>>

\* The error is thrown on, and ends the process.
Rollback(r) ==
  /\ run[r].step = "rollback"
  /\ Goto(r, "failed")
  /\ UNCHANGED <<database, starts, broken, raced>>

\* Seeders that have found no integrator.
Inserting == {q \in Runners : run[q].step = "insertIntegrator"}

\* Mutant: the seed does not look first.
FindIntegratorBlindly(r) ==
  /\ run[r].step = "findIntegrator"
  /\ Goto(r, "insertIntegrator")
  /\ raced' = raced + (IF integrators = 0 /\ Inserting # {} THEN 1 ELSE 0)
  /\ UNCHANGED <<database, starts, broken>>

FindIntegrator(r) ==
  /\ run[r].step = "findIntegrator"
  /\ \/ /\ integrators # 0
        /\ Goto(r, "done")
        /\ UNCHANGED raced
     \/ /\ integrators = 0
        /\ Goto(r, "insertIntegrator")
        /\ raced' = raced + (IF Inserting = {} THEN 0 ELSE 1)
  /\ UNCHANGED <<database, starts, broken>>

\* The table has no unique constraint on the key.
InsertIntegrator(r) ==
  /\ run[r].step = "insertIntegrator"
  /\ integrators' = integrators + 1
  /\ Goto(r, "done")
  /\ UNCHANGED <<hasTable, recorded, built, starts, broken, raced>>

\* A statement fails or the process dies: an open transaction leaves nothing.
Fails(r) ==
  /\ MayFail
  /\ ~ AtRest(r)
  /\ Goto(r, "failed")
  /\ broken' = TRUE
  /\ UNCHANGED <<database, starts, raced>>

\* The connection is lost after the COMMIT has taken effect.
FailsCommitted(r) ==
  /\ MayFail
  /\ run[r].step = "commit"
  /\ Committed(run[r].file)
  /\ Goto(r, "failed")
  /\ broken' = TRUE
  /\ UNCHANGED <<hasTable, integrators, starts, raced>>

-----------------------------------------------------------------------------

Init ==
  /\ hasTable = FALSE
  /\ recorded = {}
  /\ built = {}
  /\ integrators = 0
  /\ run = [r \in Runners |-> [NewRun EXCEPT !.step = "off"]]
  /\ starts = 0
  /\ broken = FALSE
  /\ raced = 0

Step(r) ==
  \/ FindTable(r) \/ CreateTable(r) \/ ReadApplied(r)
  \/ \E v \in Versions : Begin(r, v)
  \/ Migrated(r)
  \/ RunSql(r) \/ Record(r) \/ Commit(r) \/ Rollback(r)
  \/ FindIntegrator(r) \/ InsertIntegrator(r)

Next == \E r \in Runners : Start(r) \/ Step(r) \/ Fails(r) \/ FailsCommitted(r)

Spec == Init /\ [][Next]_vars

\* A process is resumed when its statement has been answered.
FairSpec == Spec /\ \A r \in Runners : WF_vars(Step(r))

-----------------------------------------------------------------------------
(***************************************************************************)
(* Properties                                                              *)
(***************************************************************************)

TypeOK ==
  /\ hasTable \in BOOLEAN
  /\ recorded \subseteq Versions
  /\ built \subseteq Versions
  /\ integrators \in Nat
  /\ run \in [Runners -> Run]
  /\ starts \in 0..MaxStarts
  /\ broken \in BOOLEAN
  /\ raced \in Nat

\* The table of versions and the schema never disagree, and no migration is
\* there without those before it, whoever dies where.
SchemaIsRecorded ==
  /\ recorded = built
  /\ \A v \in built : 1..v \subseteq built

\* A runner gets past the migrations only on a complete schema, although it
\* skips what it read as applied long before.
FinishedMeansCurrent ==
  \A r \in Runners :
    run[r].step \in {"findIntegrator", "insertIntegrator", "done"} => built = Versions

\* Runners that race fail for each other's sake, but not all of them: when
\* nothing broke and all have come to rest the schema is complete.
RaceHasWinner ==
  /\ ~ broken
  /\ \A r \in Runners : AtRest(r)
  /\ starts > 0
  => built = Versions

\* A migration fails only because another runner has committed it since this
\* one read the table.  So what a run that died left behind stops no later
\* run: started alone, it goes through.
OnlyRacesConflict ==
  [][ \A r \in Runners :
        run[r].step = "runSql" /\ run'[r].step = "rollback"
          => run[r].file \in recorded \ run[r].applied ]_vars

\* However many runners race, and wherever they die, the schema goes through
\* its versions as if one runner applied them and each took one instant: no
\* migration is seen half done, repeated, skipped or undone.
Migrations == INSTANCE Schema

SchemaSpec == Migrations!Spec

\* There are no more integrators with the development key than seeders that
\* overlapped, and one.
SeedsExcused == integrators <= 1 + raced

\* Every runner comes to rest: none waits for ever for another's transaction.
RunnersEnd == \A r \in Runners : ~ AtRest(r) ~> AtRest(r)

=============================================================================
