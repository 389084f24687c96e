\* Two pieces of work, two items, two crashes, a failed append, a pause by a person.
CONSTANTS
  w1 = w1 w2 = w2 i1 = i1 i2 = i2
  Work = {w1, w2}
  Mixes <- Pairs
  Item = {i1, i2}
  MaxCrashes = 2
  MaxLost = 1
  MaxPauses = 1
SPECIFICATION LiveSpec
INVARIANTS TypeOK ClosedMeansTold ForksEndWithTheProcess NothingRanIsTrue
PROPERTIES RunningStaysOpen AnsweredStaysAnswered EventuallyTold
CHECK_DEADLOCK FALSE
