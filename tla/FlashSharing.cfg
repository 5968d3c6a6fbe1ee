CONSTANTS
  Programs = {"p", "q"}
  VM_BYTECODE_SIZE = 3
  Pages <- Edges
  SIZE = 13
  Mod = 64
  MaxCrash = 0
  Trees <- AllTrees
  Enc <- Words
  Default = "a"
  Corrupt = "bad"
  Callers = {"shell", "aseba"}
  DstLen <- PartForAseba
  EraseTears = {}
SPECIFICATION FlashSpec
INVARIANTS NeverMixed ErasesItsSector
PROPERTIES BootRestores SavedBlocksKept ReadBackUnlessChanged
CHECK_DEADLOCK FALSE
