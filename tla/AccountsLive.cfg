CONSTANTS
  Ids = {u1}
  Names = {n1}
  Passwords = {p1}
  Tokens = {t1}
  Requests = {r1, r2}
  Putters = {w1}
  Endpoints = {"login", "logout", "activate", "deactivate"}
  Faulty = TRUE
  Nil = Nil
  Blank = Blank
SPECIFICATION TimeSpec
PROPERTIES Answered DeactivationBites
