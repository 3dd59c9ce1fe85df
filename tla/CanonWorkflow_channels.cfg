SPECIFICATION Spec
CONSTANTS
  Ids = {i1}
  Claims = {k1}
  Spans = {s1}
  Texts = {t1}
  FirstText = t1
  MaxRevision = 1
  Clients = {a, b}
  NoClient = NoClient
  MaxChapter = 1
  MaxHead = 2
  MaxRound = 0
  MaxEdits = 0
  AxiomSets = {x0, x1}
  FirstAxioms = x0
  MaxArchived = 1
  MaxConflicts = 1
  MayDie = TRUE
SYMMETRY Symmetry
INVARIANTS
  TypeOK
  OneStage
  StagedOnHead
  ReviewedOnFreshProjection
PROPERTIES
  ImplementsOneReview
  NothingOnUnfoldedHead
