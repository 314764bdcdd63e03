CONSTANTS
  Callers = {c1}
  Keys = {k1}
  Ops = {"enable"}
  Conditions = {TRUE}
  Filters = {"off"}
  Syncs = {FALSE}
  Expirings = {TRUE}
  Storables = {TRUE}
  ProcessFails = FALSE
  RedisFails = FALSE
  MaxVersion = 1
  Nil = Nil
  Blank = Blank
SPECIFICATION Spec
INVARIANTS MissIsFilled
