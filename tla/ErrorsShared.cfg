CONSTANTS
  Goroutines = {g1, g2, g3}
  Funcs = {f1, f2}
  Nil = Nil
SPECIFICATION FairSpec
INVARIANTS TypeOK MadeOnce AnswersAgree
PROPERTIES Returns ErrorsKeepRegistry
