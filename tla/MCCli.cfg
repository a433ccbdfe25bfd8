CONSTANTS
  s1 = s1
  s2 = s2
  wild = wild
  Sources <- SmallSources
  Synthesizable <- GoodSources
  Stems <- SmallStems
  Commands <- AllCommands
  Disks <- SmallDisks
  MaxRuns = 2
  MaxEdits = 1
  MaxTroubles = 1
SPECIFICATION FairCliSpec
INVARIANTS TypeOK PairsMatch NoKeyUnlessAllLoad OkMeansKeyed FailsForAReason
 
CHECK_DEADLOCK FALSE
