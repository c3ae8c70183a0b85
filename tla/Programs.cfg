SPECIFICATION MCFairSpec
CONSTANTS
  N = 5
  MaxCount = 2
  Producer = {0, 1, 2}
  Consumer = {3, 4}
  Item = {1, 2}
  Size = 2
  Discipline = "mutual"
  Rounds = 20
  RaceRounds = 4
  Filler = {0, 1}
  Car = {2, 3, 4}
  Fill = 3
  Need = 4
  Fills = 3
  NIL = NIL
INVARIANTS ForksShared Accounted
PROPERTIES StackSpec ThreadsGoOn
CHECK_DEADLOCK FALSE
