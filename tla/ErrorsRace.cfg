CONSTANTS
  Goroutines = {g1, g2}
  Funcs = {f1, f2}
  Nil = Nil
SPECIFICATION Spec
INVARIANTS GoroutineSafe
