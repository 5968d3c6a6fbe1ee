CONSTANTS
  SIZE = 17
  Mod = 64
  MaxCrash = 1
  Trees <- AllTrees
  Enc <- Words
  Default = "a"
  Corrupt = "bad"
  Callers <- Shell
  DstLen <- WholeSector
  EraseTears <- Tears
SPECIFICATION Spec
INVARIANT ValidIsIntact
