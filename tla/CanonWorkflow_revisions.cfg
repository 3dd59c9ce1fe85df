SPECIFICATION Spec
CONSTANTS
  Ids = {i1}
  Claims = {k1}
  Spans = {s1}
  Texts = {t1}
  FirstText = t1
  MaxRevision = 1
  Clients = {a}
  NoClient = NoClient
  MaxChapter = 2
  MaxHead = 4
  MaxRound = 1
  MaxEdits = 0
  AxiomSets = {x0}
  FirstAxioms = x0
  MaxArchived = 0
  MaxConflicts = 0
  MayDie = FALSE
INVARIANTS
  RejectionsAreInherited
PROPERTIES
  ReviewIsNotLost
