CONSTANTS
  SIZE = 16
  Mod = 64
  MaxCrash = 0
  Trees <- AllTrees
  Enc <- Words
  Default = "a"
  Corrupt = "bad"
  Callers <- Shell
  DstLen <- WholeSector
  EraseTears <- NoTears
SPECIFICATION FairSpec
PROPERTY RefinesStore
