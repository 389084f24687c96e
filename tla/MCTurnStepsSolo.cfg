\* One turn: an unsafe call, and a gated one that is also a keyed write's action.
CONSTANTS
  t1 = t1 t2 = t2 c1 = c1 c2 = c2 c3 = c3 pay = pay save = save
  Turn = {t1}
  Call = {c1, c2, c3}
  Approval = {1, 2}
  Action = {pay, save}
  None = None
  Owner <- OwnerOne
  Place <- InLine
  ActionOf <- TwoActions
  Replayable = {c3}
  Parallel = {}
  Gated = {c2, c3}
  MaxResumes = 3
  MaxCrashes = 2
  MaxLost = 1
SPECIFICATION Spec
INVARIANTS NeverTwice HonestAnswer ConsentOnce OpenTurnIsHeld
CHECK_DEADLOCK FALSE
