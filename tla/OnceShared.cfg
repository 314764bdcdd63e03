CONSTANTS
  Goroutines = {g1, g2}
  Nil = Nil
SPECIFICATION FairSpec
INVARIANTS TypeOK SetUpOnce OnlyPanicsSpoil
PROPERTIES Returns HandlesKeepRegistry
