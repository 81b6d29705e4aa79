SPECIFICATION Spec
CONSTANTS
  Producers = {t1, t2, t3}
  MaxCrashes = 2
CHECK_DEADLOCK FALSE
INVARIANTS
  TypeOK
  NotesAreWhole
  NoFileLeft
