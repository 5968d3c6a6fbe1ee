CONSTANTS
  SIZE = 16
  Mod = 64
  MaxCrash = 1
  Trees <- AllTrees
  Enc <- WordsToTheEnd
  Default = "a"
  Corrupt = "bad"
  Callers <- Both
  DstLen <- PartForAseba
  EraseTears <- Tears
SPECIFICATION FairSpec
INVARIANTS TypeOK FaultsAtTheEdge
PROPERTIES AppendOnly ErasedSaveSucceeds SaveTerminates
CHECK_DEADLOCK FALSE
