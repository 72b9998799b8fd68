SPECIFICATION Spec
CONSTANTS
  r1 = r1  r2 = r2  r3 = r3  t1 = t1  t2 = t2
  a1 = a1  a2 = a2  p1 = p1  p2 = p2  k1 = k1  k2 = k2
  None = None
  Requests = {r1}
  Trades = {t1}
  Accounts = {a1, a2}
  Prices = {p1}
  Plans = {k1}
  Ops <- AllOps
  Seeds <- BlankBook
  OneShot = FALSE
  MaxId = 3
INVARIANTS
  ExactlyOnePrimary
