\* Three runners at once, four processes in all, which may die anywhere.
SPECIFICATION FairSpec
CONSTANTS
  r1 = r1
  r2 = r2
  r3 = r3
  Runners = {r1, r2, r3}
  Files = 3
  MayFail = TRUE
  MaxStarts = 4
INVARIANTS TypeOK SchemaIsRecorded FinishedMeansCurrent RaceHasWinner SeedsExcused
PROPERTIES OnlyRacesConflict SchemaSpec RunnersEnd
\* When the processes have ended there is nothing left to do.
CHECK_DEADLOCK FALSE
