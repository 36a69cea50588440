-------------------------- MODULE DeploymentProofs --------------------------
(***************************************************************************)
(* Proofs about preparing a database, for any runners, number of           *)
(* migrations and number of processes.                                     *)
(*                                                                         *)
(* What a runner read is long out of date when it uses it.  IInv says what *)
(* is still true of it: whatever it read as applied is applied, and below  *)
(* the file it has got to nothing is missing.  So two open transactions    *)
(* would both be at the first missing migration, where PostgreSQL lets one *)
(* of them in.                                                             *)
(***************************************************************************)
EXTENDS Deployment, FiniteSetTheorems, TLAPS

Below(v) == {u \in Versions : u < v}
UpTo(v) == {u \in Versions : u <= v}

Complete == \A v \in built : UpTo(v) \subseteq built

\* What a runner with record x knows.
Knows(x) ==
  /\ x.applied \subseteq built
  /\ x.step = "begin" => UpTo(x.file) \subseteq built
  /\ x.step \in {"runSql", "record", "commit", "rollback"} =>
       x.file \in Versions \ x.applied
  /\ x.step = "runSql" => Below(x.file) \subseteq built
  /\ x.step \in {"record", "commit"} => Fits(x.file)
  /\ x.step = "rollback" => x.file \in built
  /\ x.step \in {"findIntegrator", "insertIntegrator", "done"} => built = Versions

AllKnow == \A r \in Runners : Knows(run[r])

Open(r) == run[r].step \in {"record", "commit"}

OneOpen == \A q, r \in Runners : Open(q) /\ Open(r) => q = r

IInv == TypeOK /\ recorded = built /\ Complete /\ AllKnow /\ OneOpen

-----------------------------------------------------------------------------

LEMMA TypeInit == Init => TypeOK
<1> SUFFICES ASSUME Init PROVE TypeOK
  OBVIOUS
<1>1. [NewRun EXCEPT !.step = "off"] \in Run
  BY FilesAssumption DEF NewRun, Run, Awaited
<1>2. run \in [Runners -> Run]
  BY <1>1 DEF Init
<1>3. 0 \in 0..MaxStarts
  BY StartsAssumption
<1> QED BY <1>2, <1>3 DEF Init, TypeOK

\* Going on to another statement leaves the rest of a run alone.
LEMMA RunGoes ==
  ASSUME NEW r \in Runners, NEW step \in Awaited \cup {"off", "failed", "done"},
         run \in [Runners -> Run], Goto(r, step)
  PROVE  /\ run' \in [Runners -> Run]
         /\ run'[r].step = step
         /\ run'[r].applied = run[r].applied
         /\ run'[r].file = run[r].file
         /\ \A q \in Runners \ {r} : run'[q] = run[q]
BY DEF Goto, Run

LEMMA RunBegins ==
  ASSUME NEW r \in Runners, NEW v \in Versions, run \in [Runners -> Run],
         run' = [run EXCEPT ![r] = [step |-> "runSql", applied |-> @.applied, file |-> v]]
  PROVE  /\ run' \in [Runners -> Run]
         /\ run'[r].step = "runSql"
         /\ run'[r].applied = run[r].applied
         /\ run'[r].file = v
         /\ \A q \in Runners \ {r} : run'[q] = run[q]
<1>1. v \in 0..Files
  BY FilesAssumption DEF Versions
<1>2. [step |-> "runSql", applied |-> run[r].applied, file |-> v] \in Run
  BY <1>1 DEF Run, Awaited
<1> QED BY <1>2

LEMMA TypeNext == TypeOK /\ AllKnow /\ [Next]_vars => TypeOK'
<1> SUFFICES ASSUME TypeOK, AllKnow, [Next]_vars PROVE TypeOK'
  OBVIOUS
<1>0. TypeOK
  OBVIOUS
<1>a. run \in [Runners -> Run]
  BY DEF TypeOK
<1>1. CASE UNCHANGED vars
  BY <1>1 DEF vars, database, TypeOK
<1>2. ASSUME NEW r \in Runners, Start(r)
      PROVE  TypeOK'
  <2>1. NewRun \in Run
    BY FilesAssumption DEF NewRun, Run, Awaited
  <2>2. run' \in [Runners -> Run] /\ starts' \in 0..MaxStarts
    BY <1>a, <1>2, <2>1, StartsAssumption DEF Start, TypeOK
  <2> QED BY <1>2, <2>2 DEF Start, database, TypeOK
<1>3. ASSUME NEW r \in Runners, FindTable(r) \/ CreateTable(r) \/ Migrated(r) \/ RunSql(r) \/ Record(r) \/ Rollback(r)
      PROVE  TypeOK'
  <2>1. run' \in [Runners -> Run]
    BY <1>a, <1>3, RunGoes DEF FindTable, CreateTable, Migrated, RunSql, Record, Rollback, Awaited
  <2> QED BY <1>3, <2>1
          DEF FindTable, CreateTable, Migrated, RunSql, Record, Rollback, database, TypeOK
<1>4. ASSUME NEW r \in Runners, ReadApplied(r)
      PROVE  TypeOK'
  <2>1. [step |-> "begin", applied |-> recorded, file |-> 0] \in Run
    BY FilesAssumption DEF Run, Awaited, TypeOK
  <2>2. run' \in [Runners -> Run]
    BY <1>a, <1>4, <2>1 DEF ReadApplied
  <2> QED BY <1>4, <2>2 DEF ReadApplied, database, TypeOK
<1>5. ASSUME NEW r \in Runners, NEW v \in Versions, Begin(r, v)
      PROVE  TypeOK'
  <2>1. run' \in [Runners -> Run]
    BY <1>a, <1>5, RunBegins DEF Begin
  <2> QED BY <1>5, <2>1 DEF Begin, database, TypeOK
<1>6. ASSUME NEW r \in Runners, Commit(r) \/ Fails(r) \/ FailsCommitted(r)
      PROVE  TypeOK'
  <2>1. run' \in [Runners -> Run]
    BY <1>a, <1>6, RunGoes DEF Commit, Fails, FailsCommitted, Awaited
  <2>2. run[r].step = "commit" => run[r].file \in Versions
    BY <1>6 DEF AllKnow, Knows
  <2> QED BY <1>6, <2>1, <2>2 DEF Commit, Committed, Fails, FailsCommitted, database, TypeOK
<1>7. ASSUME NEW r \in Runners, FindIntegrator(r) \/ InsertIntegrator(r)
      PROVE  TypeOK'
  <2>1. run' \in [Runners -> Run]
    BY <1>a, <1>7, RunGoes DEF FindIntegrator, InsertIntegrator, Awaited
  <2>2. integrators' \in Nat /\ raced' \in Nat
    BY <1>7 DEF FindIntegrator, InsertIntegrator, database, TypeOK
  <2> QED BY <1>7, <2>1, <2>2 DEF FindIntegrator, InsertIntegrator, database, TypeOK
<1> QED BY <1>1, <1>2, <1>3, <1>4, <1>5, <1>6, <1>7 DEF Next, Step

-----------------------------------------------------------------------------

LEMMA KnowsInit == Init => recorded = built /\ Complete /\ AllKnow /\ OneOpen
<1> SUFFICES ASSUME Init
             PROVE  recorded = built /\ Complete /\ AllKnow /\ OneOpen
  OBVIOUS
<1>1. \A r \in Runners : run[r].step = "off" /\ run[r].applied = {}
  BY DEF Init, NewRun
<1>2. AllKnow
  BY <1>1 DEF AllKnow, Knows
<1>3. OneOpen
  BY <1>1 DEF OneOpen, Open
<1> QED BY <1>2, <1>3 DEF Init, Complete

\* Two migrations that both fit are one: the first that is missing.
LEMMA FirstMissing ==
  ASSUME NEW v \in Versions, NEW w \in Versions, Fits(v), Fits(w)
  PROVE  v = w
<1>1. v \in Nat /\ w \in Nat
  BY FilesAssumption DEF Versions
<1>2. ~ (v < w) /\ ~ (w < v)
  BY DEF Fits, Clashes, Refers
<1> QED BY <1>1, <1>2

\* While the schema stays as it is, a step of one runner need only be checked
\* for that runner.
LEMMA QuietStep ==
  ASSUME IInv, NEW r \in Runners,
         UNCHANGED <<recorded, built>>,
         \A q \in Runners \ {r} : run'[q] = run[q],
         Knows(run[r])',
         Open(r)' => Open(r) \/ \A q \in Runners \ {r} : ~ Open(q)
  PROVE  (recorded = built /\ Complete /\ AllKnow /\ OneOpen)'
<1>1. ASSUME NEW q \in Runners PROVE Knows(run[q])'
  <2>1. CASE q = r
    BY <2>1
  <2>2. CASE q # r
    BY <2>2 DEF IInv, AllKnow, Knows, Fits, Clashes, Refers
  <2> QED BY <2>1, <2>2
<1>2. OneOpen'
  BY DEF IInv, OneOpen, Open
<1> QED BY <1>1, <1>2 DEF IInv, AllKnow, Complete

\* A commit adds the first missing migration, and no other is under way.
LEMMA CommitStep ==
  ASSUME IInv, NEW r \in Runners, run[r].step = "commit",
         Committed(run[r].file),
         NEW step \in {"begin", "failed"}, Goto(r, step)
  PROVE  (recorded = built /\ Complete /\ AllKnow /\ OneOpen)'
<1> DEFINE v == run[r].file
<1>1. run \in [Runners -> Run]
  BY DEF IInv, TypeOK
<1>2. v \in Versions /\ Fits(v)
  BY DEF IInv, AllKnow, Knows
<1>3. UpTo(v) \subseteq built'
  <2>1. UpTo(v) = Refers(v) \cup {v}
    BY <1>2, FilesAssumption DEF UpTo, Refers, Versions
  <2> QED BY <1>2, <2>1 DEF Fits, Committed
<1>4. Complete' /\ (recorded = built)'
  BY <1>3 DEF IInv, Complete, Committed
<1>5. ASSUME NEW q \in Runners PROVE Knows(run[q])'
  <2>1. CASE q = r
    <3>1. /\ run'[r].step = step /\ run'[r].applied = run[r].applied
          /\ run'[r].file = v
      BY <1>1, RunGoes DEF Awaited
    <3>2. run[r].applied \subseteq built
      BY DEF IInv, AllKnow, Knows
    <3> QED BY <1>3, <2>1, <3>1, <3>2 DEF Knows, Committed
  <2>2. CASE q # r
    <3>1. run'[q] = run[q]
      BY <1>1, <2>2, RunGoes DEF Awaited
    <3>2. ~ Open(q)
      BY <2>2 DEF IInv, OneOpen, Open
    <3>3. Knows(run[q]) /\ built \subseteq Versions
      BY <1>2 DEF IInv, AllKnow, TypeOK
    <3> QED BY <1>2, <3>1, <3>2, <3>3 DEF Knows, Open, Committed
  <2> QED BY <2>1, <2>2
<1>6. OneOpen'
  BY <1>1, RunGoes DEF IInv, OneOpen, Open, Awaited
<1> QED BY <1>4, <1>5, <1>6 DEF AllKnow

LEMMA KnowsNext ==
  IInv /\ TypeOK' /\ [Next]_vars => (recorded = built /\ Complete /\ AllKnow /\ OneOpen)'
<1> SUFFICES ASSUME IInv, TypeOK', [Next]_vars
             PROVE  (recorded = built /\ Complete /\ AllKnow /\ OneOpen)'
  OBVIOUS
<1>a. run \in [Runners -> Run] /\ \A r \in Runners : Knows(run[r])
  BY DEF IInv, TypeOK, AllKnow
<1>1. CASE UNCHANGED vars
  BY <1>1 DEF vars, database, IInv, Complete, AllKnow, Knows, OneOpen, Open, Fits, Clashes, Refers
<1>2. ASSUME NEW r \in Runners, Start(r)
      PROVE  (recorded = built /\ Complete /\ AllKnow /\ OneOpen)'
  <2>1. run'[r] = NewRun /\ \A q \in Runners \ {r} : run'[q] = run[q]
    BY <1>a, <1>2 DEF Start
  <2>2. Knows(run[r])' /\ ~ Open(r)'
    BY <2>1 DEF Knows, NewRun, Open
  <2> QED BY <1>2, <2>1, <2>2, QuietStep DEF Start, database
<1>3. ASSUME NEW r \in Runners,
             FindTable(r) \/ CreateTable(r) \/ Rollback(r) \/ Fails(r)
      PROVE  (recorded = built /\ Complete /\ AllKnow /\ OneOpen)'
  <2>1. PICK step \in {"readApplied", "createTable", "failed"} : Goto(r, step)
    BY <1>3 DEF FindTable, CreateTable, Rollback, Fails
  <2>2. /\ run'[r].step = step /\ run'[r].applied = run[r].applied
        /\ \A q \in Runners \ {r} : run'[q] = run[q]
    BY <1>a, <2>1, RunGoes DEF Awaited
  <2>3. UNCHANGED <<recorded, built>>
    BY <1>3 DEF FindTable, CreateTable, Rollback, Fails, database
  <2>4. Knows(run[r])' /\ ~ Open(r)'
    BY <1>a, <2>2, <2>3 DEF Knows, Open
  <2> QED BY <2>2, <2>3, <2>4, QuietStep
<1>4. ASSUME NEW r \in Runners, ReadApplied(r)
      PROVE  (recorded = built /\ Complete /\ AllKnow /\ OneOpen)'
  <2>1. /\ run'[r] = [step |-> "begin", applied |-> recorded, file |-> 0]
        /\ \A q \in Runners \ {r} : run'[q] = run[q]
    BY <1>a, <1>4 DEF ReadApplied
  <2>2. UpTo(0) = {}
    BY FilesAssumption DEF UpTo, Versions
  <2>3. UNCHANGED <<recorded, built>>
    BY <1>4 DEF ReadApplied, database
  <2>4. Knows(run[r])' /\ ~ Open(r)'
    BY <2>1, <2>2, <2>3 DEF Knows, Open, IInv
  <2> QED BY <2>1, <2>3, <2>4, QuietStep
<1>5. ASSUME NEW r \in Runners, NEW v \in Versions, Begin(r, v)
      PROVE  (recorded = built /\ Complete /\ AllKnow /\ OneOpen)'
  <2>1. /\ run'[r].step = "runSql" /\ run'[r].applied = run[r].applied
        /\ run'[r].file = v /\ \A q \in Runners \ {r} : run'[q] = run[q]
    BY <1>a, <1>5, RunBegins DEF Begin
  <2>2. UNCHANGED <<recorded, built>>
    BY <1>5 DEF Begin, database
  <2>3. Below(v) \subseteq built
    <3>1. SUFFICES ASSUME NEW u \in Versions, u < v, u \notin built PROVE FALSE
      BY DEF Below
    <3>2. u \notin run[r].applied /\ u \notin UpTo(run[r].file)
      BY <1>a, <1>5, <3>1 DEF Knows, Begin
    <3>3. u > run[r].file
      BY <1>a, <3>2, FilesAssumption DEF UpTo, Versions, Run
    <3>4. u \in Pending(r)
      BY <3>2, <3>3 DEF Pending
    <3> QED BY <1>5, <3>1, <3>4, FilesAssumption DEF Begin, Versions
  <2>4. Knows(run[r])' /\ ~ Open(r)'
    BY <1>a, <1>5, <2>1, <2>2, <2>3 DEF Knows, Open, Begin, Pending
  <2> QED BY <2>1, <2>2, <2>4, QuietStep
<1>6. ASSUME NEW r \in Runners, Migrated(r)
      PROVE  (recorded = built /\ Complete /\ AllKnow /\ OneOpen)'
  <2>1. /\ run'[r].step = "findIntegrator" /\ run'[r].applied = run[r].applied
        /\ \A q \in Runners \ {r} : run'[q] = run[q]
    BY <1>a, <1>6, RunGoes DEF Migrated, Awaited
  <2>2. UNCHANGED <<recorded, built>>
    BY <1>6 DEF Migrated, database
  <2>3. built = Versions
    <3>1. SUFFICES ASSUME NEW u \in Versions PROVE u \in built
      BY DEF IInv, TypeOK
    <3>2. u \in run[r].applied \/ ~ (u > run[r].file)
      BY <1>6 DEF Migrated, Pending
    <3>3. u \in run[r].applied \/ u \in UpTo(run[r].file)
      BY <1>a, <3>2, FilesAssumption DEF UpTo, Versions, Run
    <3> QED BY <1>a, <1>6, <3>3 DEF Knows, Migrated
  <2>4. Knows(run[r])' /\ ~ Open(r)'
    BY <1>a, <2>1, <2>2, <2>3 DEF Knows, Open
  <2> QED BY <2>1, <2>2, <2>4, QuietStep
<1>7. ASSUME NEW r \in Runners, RunSql(r)
      PROVE  (recorded = built /\ Complete /\ AllKnow /\ OneOpen)'
  <2> DEFINE v == run[r].file
  <2>1. PICK step \in {"record", "rollback"} :
          Goto(r, step) /\ (Fits(v) <=> step = "record")
    BY <1>7 DEF RunSql
  <2>2. /\ run'[r].step = step /\ run'[r].applied = run[r].applied /\ run'[r].file = v
        /\ \A q \in Runners \ {r} : run'[q] = run[q]
    BY <1>a, <2>1, RunGoes DEF Awaited
  <2>3. UNCHANGED <<recorded, built>>
    BY <1>7 DEF RunSql, database
  <2>4. v \in Versions \ run[r].applied /\ Below(v) \subseteq built
    BY <1>a, <1>7 DEF Knows, RunSql
  <2>5. Knows(run[r])'
    BY <1>a, <2>1, <2>2, <2>3, <2>4 DEF Knows, Fits, Clashes, Refers, Below
  <2>6. ASSUME step = "record", NEW q \in Runners \ {r}, Open(q) PROVE FALSE
    <3>1. run[q].file \in Versions /\ Fits(run[q].file)
      BY <1>a, <2>6 DEF Knows, Open
    <3>2. run[q].file = v
      BY <2>1, <2>4, <2>6, <3>1, FirstMissing
    <3> QED BY <1>7, <2>6, <3>2 DEF RunSql, HasOpen, Open
  <2>7. Open(r)' => \A q \in Runners \ {r} : ~ Open(q)
    BY <2>2, <2>6 DEF Open
  <2> QED BY <2>2, <2>3, <2>5, <2>7, QuietStep
<1>8. ASSUME NEW r \in Runners, Record(r)
      PROVE  (recorded = built /\ Complete /\ AllKnow /\ OneOpen)'
  <2>1. /\ run'[r].step = "commit" /\ run'[r].applied = run[r].applied
        /\ run'[r].file = run[r].file
        /\ \A q \in Runners \ {r} : run'[q] = run[q]
    BY <1>a, <1>8, RunGoes DEF Record, Awaited
  <2>2. UNCHANGED <<recorded, built>>
    BY <1>8 DEF Record, database
  <2>3. Knows(run[r])' /\ Open(r)
    BY <1>a, <1>8, <2>1, <2>2 DEF Knows, Open, Record, Fits, Clashes, Refers
  <2> QED BY <2>1, <2>2, <2>3, QuietStep
<1>9. ASSUME NEW r \in Runners, Commit(r) \/ FailsCommitted(r)
      PROVE  (recorded = built /\ Complete /\ AllKnow /\ OneOpen)'
  BY <1>9, CommitStep DEF Commit, FailsCommitted
<1>10. ASSUME NEW r \in Runners, FindIntegrator(r) \/ InsertIntegrator(r)
       PROVE  (recorded = built /\ Complete /\ AllKnow /\ OneOpen)'
  <2>1. PICK step \in {"done", "insertIntegrator"} : Goto(r, step)
    BY <1>10 DEF FindIntegrator, InsertIntegrator
  <2>2. /\ run'[r].step = step /\ run'[r].applied = run[r].applied
        /\ \A q \in Runners \ {r} : run'[q] = run[q]
    BY <1>a, <2>1, RunGoes DEF Awaited
  <2>3. UNCHANGED <<recorded, built>>
    BY <1>10 DEF FindIntegrator, InsertIntegrator, database
  <2>4. Knows(run[r])' /\ ~ Open(r)'
    BY <1>a, <1>10, <2>2, <2>3 DEF Knows, Open, FindIntegrator, InsertIntegrator
  <2> QED BY <2>2, <2>3, <2>4, QuietStep
<1> QED BY <1>1, <1>2, <1>3, <1>4, <1>5, <1>6, <1>7, <1>8, <1>9, <1>10 DEF Next, Step

LEMMA IInvInit == Init => IInv
BY TypeInit, KnowsInit DEF IInv

LEMMA IInvNext == IInv /\ [Next]_vars => IInv'
BY TypeNext, KnowsNext DEF IInv

\* The database, the runners and what they have read are of their declared
\* types.
THEOREM DeploymentTypes == Spec => []TypeOK
<1>1. IInv => TypeOK
  BY DEF IInv
<1> QED BY <1>1, IInvInit, IInvNext, PTL DEF Spec

\* The table of versions names exactly the migrations that are there, and they
\* are the first ones.
THEOREM SchemaRecorded == Spec => []SchemaIsRecorded
<1>1. IInv => SchemaIsRecorded
  <2> SUFFICES ASSUME IInv, NEW v \in built, NEW u \in 1..v PROVE u \in built
    BY DEF IInv, SchemaIsRecorded
  <2>1. v \in Versions /\ v \in Nat
    BY FilesAssumption DEF IInv, TypeOK, Versions
  <2>2. u \in UpTo(v)
    BY <2>1, FilesAssumption DEF UpTo, Versions
  <2> QED BY <2>2 DEF IInv, Complete
<1> QED BY <1>1, IInvInit, IInvNext, PTL DEF Spec

\* A runner that gets past the migrations leaves a complete schema behind,
\* however stale the versions it read.
THEOREM FinishedCurrent == Spec => []FinishedMeansCurrent
<1>1. IInv => FinishedMeansCurrent
  BY DEF IInv, FinishedMeansCurrent, AllKnow, Knows
<1> QED BY <1>1, IInvInit, IInvNext, PTL DEF Spec

\* The only error a migration itself runs into is that another runner has been
\* quicker.
THEOREM ConflictsAreRaces == Spec => OnlyRacesConflict
<1> DEFINE A == \A r \in Runners :
                  run[r].step = "runSql" /\ run'[r].step = "rollback"
                    => run[r].file \in recorded \ run[r].applied
<1>1. IInv /\ [Next]_vars => [A]_vars
  <2> SUFFICES ASSUME IInv, [Next]_vars, NEW r \in Runners,
                      run[r].step = "runSql", run'[r].step = "rollback"
               PROVE  run[r].file \in recorded \ run[r].applied
    OBVIOUS
  <2>1. run \in [Runners -> Run] /\ Knows(run[r])
    BY DEF IInv, TypeOK, AllKnow
  <2>2. run[r].file \in Versions \ run[r].applied /\ Below(run[r].file) \subseteq built
    BY <2>1 DEF Knows
  <2>3. ~ Fits(run[r].file)
    <3>1. ASSUME NEW q \in Runners, Start(q) \/ Step(q) \/ Fails(q) \/ FailsCommitted(q)
          PROVE  ~ Fits(run[r].file)
      <4>1. CASE q # r
        <5>1. run'[r] = run[r]
          BY <2>1, <3>1, <4>1
             DEF Start, Step, FindTable, CreateTable, ReadApplied, Begin, Migrated, RunSql,
                 Record, Commit, Rollback, FindIntegrator, InsertIntegrator, Fails,
                 FailsCommitted, Goto
        <5> QED BY <5>1
      <4>2. CASE q = r
        <5>1. RunSql(r) \/ Fails(r)
          BY <3>1, <4>2
             DEF Start, AtRest, Awaited, Step, FindTable, CreateTable, ReadApplied, Begin,
                 Migrated, Record, Commit, Rollback, FindIntegrator, InsertIntegrator,
                 FailsCommitted
        <5>2. ASSUME RunSql(r), Fits(run[r].file) PROVE FALSE
          <6>1. Goto(r, "record")
            BY <5>2 DEF RunSql
          <6> QED BY <2>1, <6>1, RunGoes DEF Awaited
        <5>3. ASSUME Fails(r) PROVE FALSE
          BY <2>1, <5>3, RunGoes DEF Fails
        <5> QED BY <5>1, <5>2, <5>3
      <4> QED BY <4>1, <4>2
    <3>2. CASE UNCHANGED vars
      BY <3>2 DEF vars
    <3> QED BY <3>1, <3>2 DEF Next
  <2>4. run[r].file \in built
    BY <2>2, <2>3 DEF Fits, Clashes, Refers, Below
  <2> QED BY <2>2, <2>4 DEF IInv
<1> QED BY <1>1, IInvInit, IInvNext, PTL DEF Spec, OnlyRacesConflict

-----------------------------------------------------------------------------
(***************************************************************************)
(* Of runners that race one gets through                                   *)
(***************************************************************************)

\* Nobody has got ahead of r: unless something breaks, or another runner
\* commits, r goes through.
Ahead(r) ==
  \/ run[r].step \in {"findTable", "readApplied", "record", "commit"}
  \/ run[r].step = "createTable" /\ ~ hasTable
  \/ run[r].step = "begin" /\ built \subseteq run[r].applied \cup UpTo(run[r].file)
  \/ run[r].step = "runSql" /\ run[r].file \notin built

\* While the schema is incomplete somebody is ahead.
Winner ==
  ~ broken /\ starts > 0 => built = Versions \/ \E r \in Runners : Ahead(r)

LEMMA WinnerInit == Init => Winner
BY DEF Init, Winner

\* Where the schema and the table stay as they are, a step of a runner leaves
\* the others ahead if they were.
LEMMA AheadStep ==
  ASSUME Winner, ~ broken, starts > 0, NEW r \in Runners, UNCHANGED <<hasTable, built>>,
         \A q \in Runners \ {r} : run'[q] = run[q],
         Ahead(r) => Ahead(r)' \/ built = Versions
  PROVE  Winner'
<1>1. ASSUME NEW q \in Runners \ {r}, Ahead(q) PROVE Ahead(q)'
  BY <1>1 DEF Ahead
<1> QED BY <1>1 DEF Winner

LEMMA WinnerNext == IInv /\ Winner /\ [Next]_vars => Winner'
<1> SUFFICES ASSUME IInv, Winner, [Next]_vars, ~ broken', starts' > 0 PROVE Winner'
  BY DEF Winner
<1>a. run \in [Runners -> Run] /\ \A r \in Runners : Knows(run[r])
  BY DEF IInv, TypeOK, AllKnow
<1>1. CASE UNCHANGED vars
  BY <1>1 DEF vars, database, Winner, Ahead
<1>2. ASSUME NEW r \in Runners, Start(r)
      PROVE  Winner'
  <2>1. run'[r].step = "findTable"
    BY <1>a, <1>2 DEF Start, NewRun
  <2> QED BY <2>1 DEF Winner, Ahead
<1>3. ASSUME NEW r \in Runners, Fails(r) \/ FailsCommitted(r)
      PROVE  Winner'
  BY <1>3 DEF Fails, FailsCommitted
<1>4. ASSUME NEW r \in Runners, Commit(r)
      PROVE  Winner'
  <2> DEFINE v == run[r].file
  <2>1. v \in Versions /\ Fits(v)
    BY <1>a, <1>4 DEF Knows, Commit
  <2>2. run'[r].step = "begin" /\ run'[r].file = v
    BY <1>a, <1>4, RunGoes DEF Commit, Awaited
  <2>3. built \subseteq UpTo(v)
    <3> SUFFICES ASSUME NEW u \in built, ~ (u <= v) PROVE FALSE
      BY DEF IInv, TypeOK, UpTo
    <3>1. v \in UpTo(u)
      BY <2>1, FilesAssumption DEF UpTo, Versions, IInv, TypeOK
    <3> QED BY <2>1, <3>1 DEF IInv, Complete, Fits, Clashes
  <2>4. built' \subseteq UpTo(v)
    <3>1. v \in UpTo(v)
      BY <2>1, FilesAssumption DEF UpTo, Versions
    <3> QED BY <1>4, <2>3, <3>1 DEF Commit, Committed
  <2>5. Ahead(r)'
    BY <2>2, <2>4 DEF Ahead
  <2> QED BY <2>5 DEF Winner
<1>5. ASSUME NEW r \in Runners,
             FindTable(r) \/ CreateTable(r) \/ ReadApplied(r)
      PROVE  Winner'
  <2>1. CASE CreateTable(r) /\ ~ hasTable
    <3>1. run'[r].step = "readApplied"
      BY <1>a, <2>1, RunGoes DEF CreateTable, Awaited
    <3> QED BY <3>1 DEF Winner, Ahead
  <2>2. CASE CreateTable(r) /\ hasTable
    <3>1. \A q \in Runners \ {r} : run'[q] = run[q]
      BY <1>a, <2>2 DEF CreateTable, Goto
    <3>2. ~ Ahead(r) /\ UNCHANGED <<hasTable, built>> /\ ~ broken /\ starts > 0
      BY <2>2 DEF CreateTable, Ahead, IInv, TypeOK
    <3> QED BY <3>1, <3>2, AheadStep
  <2>3. CASE FindTable(r)
    <3>1. CASE hasTable
      <4>1. Goto(r, "readApplied")
        BY <2>3, <3>1 DEF FindTable
      <4> QED BY <1>a, <4>1, RunGoes DEF Winner, Ahead, Awaited
    <3>2. CASE ~ hasTable
      <4>1. Goto(r, "createTable") /\ ~ hasTable'
        BY <2>3, <3>2 DEF FindTable, database
      <4> QED BY <1>a, <4>1, RunGoes DEF Winner, Ahead, Awaited
    <3> QED BY <3>1, <3>2
  <2>4. CASE ReadApplied(r)
    <3>1. run'[r].step = "begin" /\ run'[r].applied = built /\ built' = built
      BY <1>a, <2>4 DEF ReadApplied, database, IInv
    <3> QED BY <3>1 DEF Winner, Ahead
  <2> QED BY <1>5, <2>1, <2>2, <2>3, <2>4
<1>6. ASSUME NEW r \in Runners,
             \/ \E v \in Versions : Begin(r, v)
             \/ Migrated(r) \/ RunSql(r) \/ Record(r) \/ Rollback(r)
             \/ FindIntegrator(r) \/ InsertIntegrator(r)
      PROVE  Winner'
  <2>1. UNCHANGED <<hasTable, built>> /\ ~ broken /\ starts > 0
    BY <1>6 DEF Begin, Migrated, RunSql, Record, Rollback, FindIntegrator, InsertIntegrator,
                database
  <2>2. \A q \in Runners \ {r} : run'[q] = run[q]
    BY <1>a, <1>6 DEF Begin, Migrated, RunSql, Record, Rollback, FindIntegrator,
                      InsertIntegrator, Goto
  <2>3. ASSUME Ahead(r) PROVE Ahead(r)' \/ built = Versions
    <3>1. CASE \E v \in Versions : Begin(r, v)
      <4>1. PICK v \in Versions : Begin(r, v)
        BY <3>1
      <4>2. run'[r].step = "runSql" /\ run'[r].file = v
        BY <1>a, <4>1, RunBegins DEF Begin
      <4>3. v \notin run[r].applied /\ v \notin UpTo(run[r].file)
        BY <1>a, <4>1, FilesAssumption DEF Begin, Pending, UpTo, Versions, Run
      <4>4. v \notin built
        BY <2>3, <4>1, <4>3 DEF Ahead, Begin
      <4> QED BY <2>1, <4>2, <4>4 DEF Ahead
    <3>2. CASE Migrated(r)
      <4>1. run'[r].step = "findIntegrator" /\ run'[r].applied = run[r].applied
        BY <1>a, <3>2, RunGoes DEF Migrated, Awaited
      <4>2. (recorded = built /\ Complete /\ AllKnow /\ OneOpen)'
        BY KnowsNext, TypeNext DEF IInv
      <4> QED BY <2>1, <4>1, <4>2 DEF AllKnow, Knows
    <3>3. CASE RunSql(r)
      <4>1. run[r].file \in Versions /\ Below(run[r].file) \subseteq built
        BY <1>a, <3>3 DEF Knows, RunSql
      <4>2. Fits(run[r].file)
        BY <2>3, <3>3, <4>1 DEF Ahead, RunSql, Fits, Clashes, Refers, Below
      <4>3. run'[r].step = "record"
        BY <1>a, <3>3, <4>2, RunGoes DEF RunSql, Awaited
      <4> QED BY <4>3 DEF Ahead
    <3>4. CASE Record(r)
      <4>1. run'[r].step = "commit"
        BY <1>a, <3>4, RunGoes DEF Record, Awaited
      <4> QED BY <4>1 DEF Ahead
    <3>5. CASE Rollback(r) \/ FindIntegrator(r) \/ InsertIntegrator(r)
      BY <2>3, <3>5 DEF Ahead, Rollback, FindIntegrator, InsertIntegrator
    <3> QED BY <1>6, <3>1, <3>2, <3>3, <3>4, <3>5
  <2> QED BY <2>1, <2>2, <2>3, AheadStep
<1> QED BY <1>1, <1>2, <1>3, <1>4, <1>5, <1>6 DEF Next, Step

\* When nothing has broken and all runners have come to rest, the schema is
\* complete: racing runners never fail all together.
THEOREM RaceWon == Spec => []RaceHasWinner
<1>1. Init => IInv /\ Winner
  BY IInvInit, WinnerInit
<1>2. IInv /\ Winner /\ [Next]_vars => (IInv /\ Winner)'
  BY IInvNext, WinnerNext
<1>3. Winner => RaceHasWinner
  BY DEF Winner, Ahead, RaceHasWinner, AtRest, Awaited
<1> QED BY <1>1, <1>2, <1>3, PTL DEF Spec

-----------------------------------------------------------------------------
(***************************************************************************)
(* The seed                                                                *)
(***************************************************************************)

\* Integrators, and seeders about to insert one, are no more than the seeders
\* that overlapped, and one.
SeedsCounted == integrators + Cardinality(Inserting) <= 1 + raced

\* The seeders about to insert are finitely many.
LEMMA InsertingFinite == IsFiniteSet(Inserting) /\ Cardinality(Inserting) \in Nat
<1>1. IsFiniteSet(Inserting)
  BY RunnersAssumption, FS_Subset DEF Inserting
<1> QED BY <1>1, FS_CardinalityType

LEMMA SeedsInit == Init => SeedsCounted
<1> SUFFICES ASSUME Init PROVE SeedsCounted
  OBVIOUS
<1>1. Inserting = {}
  BY DEF Init, Inserting, NewRun
<1> QED BY <1>1, FS_EmptySet DEF Init, SeedsCounted

LEMMA SeedsNext == TypeOK /\ SeedsCounted /\ [Next]_vars => SeedsCounted'
<1> SUFFICES ASSUME TypeOK, SeedsCounted, [Next]_vars PROVE SeedsCounted'
  OBVIOUS
<1> DEFINE n == Cardinality(Inserting)
           n2 == Cardinality(Inserting')
<1>a. run \in [Runners -> Run] /\ integrators \in Nat /\ raced \in Nat
  BY DEF TypeOK
<1>b. n \in Nat /\ IsFiniteSet(Inserting) /\ integrators + n <= 1 + raced
  BY InsertingFinite DEF SeedsCounted
<1>c. ASSUME NEW r \in Runners,
             \A q \in Runners \ {r} : run'[q] = run[q],
             run'[r].step # "insertIntegrator"
      PROVE  Inserting' = Inserting \ {r}
  BY <1>c DEF Inserting
<1>1. ASSUME Inserting' \subseteq Inserting, UNCHANGED <<integrators, raced>>
      PROVE  SeedsCounted'
  <2>1. n2 \in Nat /\ n2 <= n
    BY <1>b, <1>1, FS_Subset, FS_CardinalityType
  <2> HIDE DEF n, n2
  <2>2. integrators' + n2 <= 1 + raced'
    BY <1>a, <1>b, <1>1, <2>1
  <2> QED BY <2>2 DEF SeedsCounted, n2
<1>2. CASE UNCHANGED vars
  BY <1>1, <1>2 DEF vars, database, Inserting
<1>3. ASSUME NEW r \in Runners,
             \/ Start(r) \/ Fails(r) \/ FailsCommitted(r)
             \/ FindTable(r) \/ CreateTable(r) \/ ReadApplied(r)
             \/ \E v \in Versions : Begin(r, v)
             \/ Migrated(r) \/ RunSql(r) \/ Record(r) \/ Commit(r) \/ Rollback(r)
      PROVE  SeedsCounted'
  <2>1. UNCHANGED <<integrators, raced>>
    BY <1>3 DEF Start, Fails, FailsCommitted, FindTable, CreateTable, ReadApplied, Begin,
                Migrated, RunSql, Record, Commit, Rollback, database
  <2>2. \A q \in Runners \ {r} : run'[q] = run[q]
    BY <1>a, <1>3 DEF Start, Fails, FailsCommitted, FindTable, CreateTable, ReadApplied,
                      Begin, Migrated, RunSql, Record, Commit, Rollback, Goto
  <2>3. run'[r].step # "insertIntegrator"
    <3>1. CASE Start(r) \/ ReadApplied(r) \/ \E v \in Versions : Begin(r, v)
      BY <1>a, <3>1 DEF Start, NewRun, ReadApplied, Begin
    <3>2. CASE ~ (Start(r) \/ ReadApplied(r) \/ \E v \in Versions : Begin(r, v))
      <4>1. PICK step \in (Awaited \ {"insertIntegrator"}) \cup {"failed"} : Goto(r, step)
        BY <1>3, <3>2 DEF Fails, FailsCommitted, FindTable, CreateTable, Migrated, RunSql,
                          Record, Commit, Rollback, Awaited
      <4> QED BY <1>a, <4>1, RunGoes DEF Awaited
    <3> QED BY <3>1, <3>2
  <2>4. Inserting' \subseteq Inserting
    BY <1>c, <2>2, <2>3
  <2> QED BY <1>1, <2>1, <2>4
<1>4. ASSUME NEW r \in Runners, FindIntegrator(r)
      PROVE  SeedsCounted'
  <2>1. CASE integrators # 0
    <3>1. Goto(r, "done") /\ UNCHANGED <<integrators, raced>>
      BY <1>4, <2>1 DEF FindIntegrator, database
    <3>2. Inserting' \subseteq Inserting
      BY <1>a, <1>c, <3>1, RunGoes
    <3> QED BY <1>1, <3>1, <3>2
  <2>2. CASE integrators = 0
    <3>1. /\ Goto(r, "insertIntegrator") /\ integrators' = 0
          /\ raced' = raced + (IF Inserting = {} THEN 0 ELSE 1)
      BY <1>4, <2>2 DEF FindIntegrator, database
    <3>2. Inserting' = Inserting \cup {r}
      BY <1>a, <3>1, RunGoes DEF Inserting, Awaited
    <3>3. n2 \in Nat /\ n2 <= n + 1
      <4>1. n2 = IF r \in Inserting THEN n ELSE n + 1
        BY <1>b, <3>2, FS_AddElement
      <4> QED BY <1>b, <4>1
    <3>4. Inserting = {} => n = 0
      BY FS_EmptySet
    <3> HIDE DEF n, n2
    <3>5. integrators' + n2 <= 1 + raced'
      BY <1>a, <1>b, <2>2, <3>1, <3>3, <3>4
    <3> QED BY <3>5 DEF SeedsCounted, n2
  <2> QED BY <2>1, <2>2
<1>5. ASSUME NEW r \in Runners, InsertIntegrator(r)
      PROVE  SeedsCounted'
  <2>1. /\ Goto(r, "done") /\ integrators' = integrators + 1 /\ raced' = raced
        /\ r \in Inserting
    BY <1>5 DEF InsertIntegrator, Inserting
  <2>2. Inserting' = Inserting \ {r}
    BY <1>a, <1>c, <2>1, RunGoes
  <2>3. n2 = n - 1
    BY <1>b, <2>1, <2>2, FS_RemoveElement
  <2> HIDE DEF n, n2
  <2>4. integrators' + n2 <= 1 + raced'
    BY <1>a, <1>b, <2>1, <2>3
  <2> QED BY <2>4 DEF SeedsCounted, n2
<1> QED BY <1>2, <1>3, <1>4, <1>5 DEF Next, Step

\* There is one integrator with the development key, and one more for each
\* seeder that overlapped another.
THEOREM SeedsOnce == Spec => []SeedsExcused
<1>1. Init => IInv /\ SeedsCounted
  BY IInvInit, SeedsInit
<1>2. IInv /\ SeedsCounted /\ [Next]_vars => (IInv /\ SeedsCounted)'
  BY IInvNext, SeedsNext DEF IInv
<1>3. IInv /\ SeedsCounted => SeedsExcused
  <2> SUFFICES ASSUME IInv, SeedsCounted PROVE SeedsExcused
    OBVIOUS
  <2> QED BY InsertingFinite DEF IInv, TypeOK, SeedsCounted, SeedsExcused
<1> QED BY <1>1, <1>2, <1>3, PTL DEF Spec

-----------------------------------------------------------------------------
(***************************************************************************)
(* Runners and transactions implement the schema that has neither          *)
(***************************************************************************)

\* A migration that fits is the one after all that are there.
LEMMA NextMissing ==
  ASSUME IInv, NEW v \in Versions, Fits(v)
  PROVE  built = 1..(v - 1) /\ built \cup {v} = 1..v
<1>1. v \in Nat /\ v >= 1 /\ v <= Files /\ Files \in Nat
  BY FilesAssumption DEF Versions
<1>2. ASSUME NEW u \in built PROVE u \in 1..(v - 1)
  <2>1. u \in Nat /\ u >= 1 /\ UpTo(u) \subseteq built
    BY FilesAssumption DEF IInv, TypeOK, Versions, Complete
  <2>2. v \notin UpTo(u)
    BY <2>1 DEF Fits, Clashes
  <2> QED BY <1>1, <2>1, <2>2 DEF UpTo
<1>3. ASSUME NEW u \in 1..(v - 1) PROVE u \in built
  BY <1>1, <1>3 DEF Fits, Refers, Versions
<1>4. built = 1..(v - 1)
  BY <1>2, <1>3
<1>5. 1..v = 1..(v - 1) \cup {v}
  BY <1>1
<1> QED BY <1>4, <1>5

\* A commit is one migration of the abstract schema; every other step leaves
\* the schema alone.
LEMMA MigrationStep == IInv /\ [Next]_vars => [Migrations!Next]_(Migrations!vars)
<1> SUFFICES ASSUME IInv, [Next]_vars
             PROVE  Migrations!Next \/ UNCHANGED <<recorded, built>>
  BY DEF Migrations!vars
<1>1. ASSUME NEW r \in Runners, run[r].step = "commit", Committed(run[r].file)
      PROVE  Migrations!Next
  <2> DEFINE v == run[r].file
  <2>1. v \in Versions /\ Fits(v)
    BY <1>1 DEF IInv, AllKnow, Knows
  <2>2. built = 1..(v - 1) /\ built' = 1..v /\ recorded = built /\ recorded' = built'
    BY <1>1, <2>1, NextMissing DEF IInv, Committed
  <2>3. Migrations!Migrate(v)
    BY <2>2 DEF Migrations!Migrate
  <2> QED BY <2>1, <2>3 DEF Migrations!Next, Versions
<1>2. ASSUME NEW r \in Runners, Start(r) \/ Step(r) \/ Fails(r)
      PROVE  Migrations!Next \/ UNCHANGED <<recorded, built>>
  <2>1. CASE Commit(r)
    BY <1>1, <2>1 DEF Commit
  <2>2. CASE ~ Commit(r)
    BY <1>2, <2>2
       DEF Start, Step, FindTable, CreateTable, ReadApplied, Begin, Migrated, RunSql, Record,
           Rollback, FindIntegrator, InsertIntegrator, Fails, database
  <2> QED BY <2>1, <2>2
<1>3. ASSUME NEW r \in Runners, FailsCommitted(r)
      PROVE  Migrations!Next
  BY <1>1, <1>3 DEF FailsCommitted
<1> QED BY <1>2, <1>3 DEF Next, vars, database

\* Racing runners that may die between any two statements implement the schema
\* that one process migrates in order, one version in one step.
THEOREM RunnersImplementSchema == Spec => SchemaSpec
<1>1. Init => Migrations!Init
  BY DEF Init, Migrations!Init
<1> QED BY <1>1, MigrationStep, IInvInit, IInvNext, PTL
       DEF Spec, SchemaSpec, Migrations!Spec

-----------------------------------------------------------------------------
(***************************************************************************)
(* The part of RunnersEnd that needs no fairness                           *)
(***************************************************************************)

\* No more statements than this are left to a process with record x.
Rest(x) ==
  CASE x.step = "findTable"         -> 4 * Files + 6
    [] x.step = "createTable"       -> 4 * Files + 5
    [] x.step = "readApplied"       -> 4 * Files + 4
    [] x.step = "begin"             -> 4 * (Files - x.file) + 3
    [] x.step = "runSql"            -> 4 * (Files - x.file) + 6
    [] x.step \in {"record", "rollback"} -> 4 * (Files - x.file) + 5
    [] x.step = "commit"            -> 4 * (Files - x.file) + 4
    [] x.step = "findIntegrator"    -> 2
    [] x.step = "insertIntegrator"  -> 1
    [] OTHER                        -> 0

\* Every step of a process leaves it less to do; only a process that is
\* started has everything to do again.
Tires(r) ==
  run'[r] # run[r] =>
    \/ Rest(run'[r]) < Rest(run[r])
    \/ AtRest(r) /\ run'[r] = NewRun

LEMMA RestNatural ==
  ASSUME IInv, NEW r \in Runners
  PROVE  Rest(run[r]) \in 0..(4 * Files + 6) /\ (Rest(run[r]) = 0 <=> AtRest(r))
<1> DEFINE x == run[r]
<1>1. x \in Run /\ Knows(x)
  BY DEF IInv, TypeOK, AllKnow
<1>2. Files \in Nat /\ x.file \in Nat /\ x.file <= Files
  BY <1>1, FilesAssumption DEF Run
<1>3. x.step \in {"runSql", "record", "commit", "rollback"} => x.file >= 1
  BY <1>1 DEF Knows, Versions
<1>4. x.step \in Awaited \cup {"off", "failed", "done"}
  BY <1>1 DEF Run
<1> HIDE DEF x
<1>5. Rest(x) \in 0..(4 * Files + 6) /\ (Rest(x) = 0 <=> x.step \notin Awaited)
  BY <1>2, <1>3, <1>4 DEF Rest, Awaited
<1> QED BY <1>5 DEF x, AtRest

LEMMA StepTires ==
  ASSUME IInv, NEW r \in Runners, Step(r) \/ Fails(r) \/ FailsCommitted(r)
  PROVE  Rest(run'[r]) < Rest(run[r])
<1>0. /\ run[r] \in Run /\ Knows(run[r]) /\ run \in [Runners -> Run]
  BY DEF IInv, TypeOK, AllKnow
<1>f. Files \in Nat /\ run[r].file \in Nat /\ run[r].file <= Files
  BY <1>0, FilesAssumption DEF Run
<1>k. Rest(run[r]) \in Nat /\ (Rest(run[r]) = 0 <=> AtRest(r))
  <2>1. Rest(run[r]) \in 0..(4 * Files + 6)
    BY RestNatural
  <2> QED BY <1>f, <2>1, RestNatural
<1>1. CASE Fails(r) \/ FailsCommitted(r)
  <2>1. ~ AtRest(r) /\ run'[r].step = "failed"
    BY <1>0, <1>1, RunGoes DEF Fails, FailsCommitted, AtRest, Awaited
  <2>2. Rest(run'[r]) = 0
    BY <2>1 DEF Rest
  <2> QED BY <1>k, <2>1, <2>2
<1> DEFINE Moves ==
      { <<"findTable", "readApplied">>, <<"findTable", "createTable">>,
        <<"createTable", "failed">>, <<"createTable", "readApplied">>,
        <<"begin", "findIntegrator">>, <<"runSql", "record">>, <<"runSql", "rollback">>,
        <<"record", "commit">>, <<"commit", "begin">>, <<"rollback", "failed">>,
        <<"findIntegrator", "done">>, <<"findIntegrator", "insertIntegrator">>,
        <<"insertIntegrator", "done">> }
<1>2. ASSUME NEW step \in Awaited \cup {"off", "failed", "done"},
             Goto(r, step), <<run[r].step, step>> \in Moves
      PROVE  Rest(run'[r]) < Rest(run[r])
  BY <1>0, <1>f, <1>2, RunGoes DEF Rest
<1>3. CASE ReadApplied(r)
  <2>1. run'[r] = [step |-> "begin", applied |-> recorded, file |-> 0]
    BY <1>0, <1>3 DEF ReadApplied
  <2> QED BY <1>3, <1>f, <2>1 DEF ReadApplied, Rest
<1>4. ASSUME NEW v \in Versions, Begin(r, v)
      PROVE  Rest(run'[r]) < Rest(run[r])
  <2>1. run'[r].step = "runSql" /\ run'[r].file = v
    BY <1>0, <1>4, RunBegins DEF Begin
  <2>2. run[r].step = "begin" /\ v > run[r].file /\ v \in Nat /\ v <= Files
    BY <1>4, FilesAssumption DEF Begin, Pending, Versions
  <2> QED BY <1>f, <2>1, <2>2 DEF Rest
<1> QED BY <1>1, <1>2, <1>3, <1>4
        DEF Step, FindTable, CreateTable, Migrated, RunSql, Record, Commit, Rollback,
            FindIntegrator, InsertIntegrator, Awaited

\* A process awaits at most 4 * Files + 6 statements before it comes to rest,
\* whatever the others do meanwhile: what can keep it from its end is one of
\* its statements not being answered, never a loop.
THEOREM ProcessesAreShort ==
  Spec => /\ [](\A r \in Runners : Rest(run[r]) \in 0..(4 * Files + 6) /\ (Rest(run[r]) = 0 <=> AtRest(r)))
          /\ [][\A r \in Runners : Tires(r)]_vars
<1> DEFINE R == \A r \in Runners : Rest(run[r]) \in 0..(4 * Files + 6) /\ (Rest(run[r]) = 0 <=> AtRest(r))
           T == \A r \in Runners : Tires(r)
<1>1. IInv => R
  BY RestNatural
<1>2. IInv /\ [Next]_vars => [T]_vars
  <2> SUFFICES ASSUME IInv, Next, NEW r \in Runners
               PROVE  Tires(r)
    OBVIOUS
  <2>a. run \in [Runners -> Run]
    BY DEF IInv, TypeOK
  <2>1. PICK q \in Runners : Start(q) \/ Step(q) \/ Fails(q) \/ FailsCommitted(q)
    BY DEF Next
  <2>2. CASE q # r
    <3>1. run'[r] = run[r]
      BY <2>a, <2>1, <2>2
         DEF Start, Step, FindTable, CreateTable, ReadApplied, Begin, Migrated, RunSql,
             Record, Commit, Rollback, FindIntegrator, InsertIntegrator, Fails,
             FailsCommitted, Goto
    <3> QED BY <3>1 DEF Tires
  <2>3. CASE q = r /\ Start(q)
    BY <2>a, <2>3 DEF Tires, Start
  <2>4. CASE q = r /\ (Step(q) \/ Fails(q) \/ FailsCommitted(q))
    BY <2>4, StepTires DEF Tires
  <2> QED BY <2>1, <2>2, <2>3, <2>4
<1> HIDE DEF R, T
<1>3. Spec => []R /\ [][T]_vars
  BY <1>1, <1>2, IInvInit, IInvNext, PTL DEF Spec
<1> QED BY <1>3 DEF R, T

=============================================================================
