CONSTANTS
  Ids = {u1}
  Names = {n1}
  Passwords = {p1, p2}
  Tokens = {t1}
  Requests = {r1}
  Putters = {w1}
  Endpoints = {"login", "changePass"}
  Faulty = TRUE
  Nil = Nil
  Blank = Blank
SPECIFICATION Spec
SYMMETRY MCSymmetry
PROPERTIES ChangePassTookEffect
