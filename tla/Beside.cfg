SPECIFICATION BesideSpec
CONSTANTS
  Ids = {}
  Claims = {k1}
  Spans = {s1}
  Texts = {t1}
  FirstText = t1
  MaxRevision = 1
  Clients = {a}
  NoClient = NoClient
  MaxChapter = 1
  MaxHead = 1
  MaxRound = 0
  MaxEdits = 0
  AxiomSets = {x0, x1}
  FirstAxioms = x0
  MaxArchived = 1
  MaxConflicts = 0
  MayDie = TRUE
  MaxOutlines = 2
  GenesisRows <- Genesis
  FactClaims <- Story
  MaxClaims = 2
  MaxGenerations = 3
  GenesisNames <- Protagonist
  NameClaims <- Cast
  Spelling <- FullWidth
  MaxNames = 2
  AxiomKeys = {x}
  AxiomValues = {v, w}
  Admissions = {g}
  MaxProposals = 3
  MaxAnswered = 2
  Inits = {p1, p2}
  Inodes = {1, 2, 3}
  MaxActs = 2
  Manifests = {c1, c2}
INVARIANTS
  AnswerWasReal
  FactsAreOfTheirHead
  ContractsAreWhole
  EveryHeadFolds
  SlotsAreLines
  NothingEndsTwice
  OwedIsPayable
  OneBearer
  UsesStayKnown
  OnlyChoicesMakeNamesakes
  RefusalIsShown
  NoNestedProjects
  OnlyOrphansAreLost
PROPERTIES
  NothingEndsUnseen
  ReplacedTogether
  InitLosesNothing
CHECK_DEADLOCK FALSE
