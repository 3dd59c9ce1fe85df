SPECIFICATION Spec
CONSTANTS
  Ids = {i1, i2}
  Claims = {k1}
  Spans = {s1, s2}
  Texts = {t1}
  FirstText = t1
  MaxRevision = 1
  Clients = {a}
  NoClient = NoClient
  MaxChapter = 1
  MaxHead = 2
  MaxRound = 1
  MaxEdits = 0
  AxiomSets = {x0}
  FirstAxioms = x0
  MaxArchived = 0
  MaxConflicts = 0
  MayDie = FALSE
SYMMETRY Symmetry
INVARIANTS
  RejectedStaysOut
