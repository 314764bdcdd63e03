CONSTANTS
  Ids = {u1, u2}
  Names = {n1, n2}
  Passwords = {p1}
  Tokens = {t1}
  Requests = {r1}
  Putters = {w1}
  Endpoints = {"login", "logout", "createUser", "getUser", "editUser", "deleteUser", "activate", "deactivate", "changePass"}
  Faulty = TRUE
  Nil = Nil
  Blank = Blank
SPECIFICATION Spec
SYMMETRY MCSymmetry
INVARIANTS RecordsKeepIdentity
PROPERTIES SuccessTookEffect
