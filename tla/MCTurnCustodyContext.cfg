\* An agent with its main conversation and a private one that may switch context,
\* another agent, the removal of one of them, and startup notes.
CONSTANTS
  m1 = m1 m2 = m2 m3 = m3 t1 = t1 t2 = t2 w1 = w1 w2 = w2 w3 = w3
  Worker = {w1, w2, w3}
  Main <- MainOfTwo
  Message = {m1, m2}
  Turn = {t1}
  None = None
  MaxResumes = 2
  MaxEpoch = 1
  StartupNotes = TRUE
SYMMETRY MessageTurnSymmetry
SPECIFICATION Spec
INVARIANTS AccountedInv ContextKept
