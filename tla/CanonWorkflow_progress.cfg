SPECIFICATION FairSpec
CONSTANTS
  Ids = {i1}
  Claims = {k1}
  Spans = {s1}
  Texts = {t1, t2}
  FirstText = t1
  MaxRevision = 2
  Clients = {a, b}
  NoClient = NoClient
  MaxChapter = 1
  MaxHead = 1
  MaxRound = 0
  MaxEdits = 1
  AxiomSets = {x0}
  FirstAxioms = x0
  MaxArchived = 0
  MaxConflicts = 1
  MayDie = TRUE
INVARIANTS
  PublishedTextIsKept
  ReviewedToTheEnd
PROPERTIES
  LockIsReleased
  PublishesWhatWasSeen
