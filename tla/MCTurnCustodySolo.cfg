\* One agent with one conversation: two turns, three messages (chats,
\* kickoffs, continuations), every crash between two appends.
CONSTANTS
  m1 = m1 m2 = m2 m3 = m3 t1 = t1 t2 = t2 w1 = w1 w2 = w2 w3 = w3
  Worker = {w1}
  Main <- MainOfSelf
  Message = {m1, m2, m3}
  Turn = {t1, t2}
  None = None
  MaxResumes = 2
  MaxEpoch = 0
  StartupNotes = FALSE
SYMMETRY MessageTurnSymmetry
SPECIFICATION Spec
INVARIANTS Accounted LineageUnbroken UniqueOwner OneLivePickup
PROPERTY KeepsPromise
