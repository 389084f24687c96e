\* One goal, nobody says anything more: its continuation is turned away.
CONSTANTS
  report = report word = word other = other note = note going_on = going_on
  Goal = {report}
  Said = {word, other}
  Note = {note}
  Resumption = going_on
  Limit = 1
  AntiSpin = 2
  Retries = 1
  Rejections = 2
  Attempts = 2
  MaxWakes = 2
  MaxEvents = 0
SPECIFICATION Spec
PROPERTY TurnedAwayForCause
CHECK_DEADLOCK FALSE
