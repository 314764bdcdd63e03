CONSTANTS
  Jobs = {j1, j2}
  Runs = {r1, r2, r3}
  Hooked = {j2}
  Fails = TRUE
  Nil = Nil
SPECIFICATION FairSpec
INVARIANTS TypeOK SingletonAlone
PROPERTIES DelayedRunsHappen
