\* Two messages, two tries each, a crash and one of each other fault.
CONSTANTS
  m1 = m1 m2 = m2
  Msg = {m1, m2}
  Mixes <- Mixed
  MaxAttempts = 2
  CompactAt = 2
  MaxPushes = 2
  MaxRetries = 1
  MaxCrashes = 1
  MaxLost = 1
  MaxLate = 1
SPECIFICATION LiveSpec
INVARIANTS TypeOK OncePerReceipt FirstAnswerStands
PROPERTIES InOrder Settles BookClears
CHECK_DEADLOCK FALSE
