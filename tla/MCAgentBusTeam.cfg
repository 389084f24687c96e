\* An agent with two conversations, in one of which two people type, paused and
\* resumed at any time, and a teammate whose mail fails: what a turn takes, and
\* who looks at what waits.  Deadlock: the agent may stay paused.
CONSTANTS
  ada = ada bob = bob room = room chat = chat desk = desk
  mail = mail urgent = urgent word = word other = other kick = kick
  digest = digest brief = brief note = note failed = failed
  Worker = {room, chat, desk}
  Agent = {ada, bob}
  AgentOf <- ThreeWorkers
  Message = {word, other, kick, urgent, failed, note}
  About <- AboutThese
  NoticeOf <- NoticeAlways
  NoPrincipal = NoPrincipal
  BatchItems = 2
  Pausable = {ada}
  MaxRuns = 2
  Fails = TRUE
  Starves = FALSE
SPECIFICATION Spec
INVARIANTS OneRequestPerTurn OneLoopRun NoLostWakeup
PROPERTY TakenInOrder
CHECK_DEADLOCK FALSE
