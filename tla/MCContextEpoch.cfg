\* Two commands, two files of history, two crashes.
CONSTANTS
  o1 = o1 o2 = o2 o3 = o3 transcript = transcript plan = plan todos = todos
  Op = {o1, o2}
  File = {transcript, plan}
  Transcript = transcript
  None = None
  MaxEntries = 2
  MaxCrashes = 2
SPECIFICATION LiveSpec
INVARIANTS HistoryKept OpeningIsCurrent AnswerIsTrue
PROPERTIES SwitchesOnce SwitchFinishes
CHECK_DEADLOCK FALSE
