CONSTANTS
  Ids = {u1}
  Names = {n1}
  Passwords = {p1, p2}
  Tokens = {t1}
  Requests = {r1, r2}
  Putters = {w1}
  Endpoints = {"login", "deleteUser", "activate", "deactivate", "changePass"}
  Faulty = FALSE
  Nil = Nil
  Blank = Blank
SPECIFICATION Spec
SYMMETRY MCSymmetry
PROPERTIES NoSilentRevival
