\* Two turns, one with a gated call and one with two reads side by side: every
\* turn ends.
CONSTANTS
  t1 = t1 t2 = t2 c1 = c1 c2 = c2 c3 = c3 pay = pay save = save
  Turn = {t1, t2}
  Call = {c1, c2, c3}
  Approval = {1}
  Action = {pay, save}
  None = None
  Owner <- OwnerTwo
  Place <- InLine
  ActionOf <- EachItsOwn
  Replayable = {c2, c3}
  Parallel = {c2, c3}
  Gated = {c1}
  MaxResumes = 2
  MaxCrashes = 2
  MaxLost = 0
SPECIFICATION LiveSpec
PROPERTY TurnsEnd
CHECK_DEADLOCK FALSE
