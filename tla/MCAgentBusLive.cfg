\* Three conversations of two agents where mail and digests keep coming, while
\* turns fail: everything is taken.  Deadlock: as in the team.
CONSTANTS
  ada = ada bob = bob room = room chat = chat desk = desk
  mail = mail urgent = urgent word = word other = other kick = kick
  digest = digest brief = brief note = note failed = failed
  Worker = {room, chat, desk}
  Agent = {ada, bob}
  AgentOf <- ThreeWorkers
  Message = {mail, digest, brief, failed}
  About <- AboutThese
  NoticeOf <- NoticeAlways
  NoPrincipal = NoPrincipal
  BatchItems = 2
  Pausable = {}
  MaxRuns = 1
  Fails = TRUE
  Starves = TRUE
SPECIFICATION FairSpec
PROPERTY WaitingIsTaken
CHECK_DEADLOCK FALSE
