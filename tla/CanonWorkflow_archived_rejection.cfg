SPECIFICATION Spec
CONSTANTS
  Ids = {i1}
  Claims = {k1}
  Spans = {s1}
  Texts = {t1}
  FirstText = t1
  MaxRevision = 1
  Clients = {a}
  NoClient = NoClient
  MaxChapter = 1
  MaxHead = 1
  MaxRound = 0
  MaxEdits = 0
  AxiomSets = {x0}
  FirstAxioms = x0
  MaxArchived = 1
  MaxConflicts = 0
  MayDie = FALSE
PROPERTIES
  RejectionSurvivesArchive
