CONSTANTS
  Ids = {u1, u2}
  Names = {n1, n2}
  Passwords = {p1}
  Tokens = {t1}
  Requests = {r1, r2}
  Putters = {w1}
  Endpoints = {"login", "logout", "currentUser"}
  Faulty = TRUE
  Nil = Nil
  Blank = Blank
SPECIFICATION Spec
SYMMETRY MCSymmetry
INVARIANTS TypeOK RevokedTokenRefused
PROPERTIES TokensKeepLedger
