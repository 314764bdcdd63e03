CONSTANTS
  Callers = {c1, c2}
  Keys = {k1}
  Ops = {"enable", "put", "evict", "add", "replace", "delete", "getMulti"}
  Conditions = {TRUE, FALSE}
  Filters = {"off", "none", "on"}
  Syncs = {FALSE, TRUE}
  Expirings = {TRUE, FALSE}
  Storables = {TRUE}
  ProcessFails = TRUE
  RedisFails = TRUE
  MaxVersion = 2
  Nil = Nil
  Blank = Blank
SPECIFICATION FairSpec
INVARIANTS TypeOK SerialFresh
PROPERTIES StaleExpires Completed
