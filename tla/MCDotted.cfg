CONSTANTS
  s1 = s1
  s2 = s2
  wild = wild
  Sources <- SmallSources
  Synthesizable <- GoodSources
  Stems <- SmallStems
  Commands <- AllCommands
  Disks <- SmallDisks
  MaxRuns = 1
  MaxEdits = 0
  MaxTroubles = 0
SPECIFICATION FairCliSpec
INVARIANTS AllSourcesKeyed
CHECK_DEADLOCK FALSE
