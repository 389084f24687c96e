\* One goal, two messages of people and one of the host or a teammate, and any
\* three of the things that may come between.  Deadlock: the goal may be over
\* and everything that may happen have happened.
CONSTANTS
  report = report word = word other = other note = note going_on = going_on
  Goal = {report}
  Said = {word, other}
  Note = {note}
  Resumption = going_on
  Limit = 1
  AntiSpin = 2
  Retries = 1
  Rejections = 2
  Attempts = 2
  MaxWakes = 2
  MaxEvents = 3
SPECIFICATION Spec
SYMMETRY Alike
INVARIANTS TypeOK OneContinuation Attended VerdictIsAwaited FailsClosed
CHECK_DEADLOCK FALSE
