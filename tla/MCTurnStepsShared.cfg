\* Two turns wait for one approval: the same action in two conversations.
CONSTANTS
  t1 = t1 t2 = t2 c1 = c1 c2 = c2 c3 = c3 pay = pay save = save
  Turn = {t1, t2}
  Call = {c1, c2}
  Approval = {1, 2}
  Action = {pay, save}
  None = None
  Owner <- OwnerTwo
  Place <- InLine
  ActionOf <- SameAction
  Replayable = {}
  Parallel = {}
  Gated = {c1, c2}
  MaxResumes = 2
  MaxCrashes = 1
  MaxLost = 0
SPECIFICATION Spec
INVARIANTS OpenTurnIsHeld
CHECK_DEADLOCK FALSE
