SPECIFICATION PartSpec
CONSTANTS
  Procs = {p1, p2}
  NoProc = NoProc
  Bodies = {b1}
  Choices = {approve}
  MaxChapter = 3
  MaxGeneration = 4
  MaxTxns = 5
SYMMETRY Symmetry
INVARIANTS
  IInv
  ReachableIsStored
  LedgerIsOneLine
  ChaptersContiguous
  NoDoublePublication
  SealsValidate
PROPERTIES
  HistoryIsImmutable
  RevisionDropsSuffix
  ImplementsLedger
