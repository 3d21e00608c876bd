SPECIFICATION Spec
CONSTANTS
  Agents = {a1}
  Pairs = {p1}
  Fills = {f1, f2}
  Hashes = {h1, h2}
  Alerts = {x1, x2}
  Groups = {g1}
  Deals <- SomeDeals
  Areas = {"trades", "alerts"}
  Disciplined = TRUE
  MaxRows = 2
  MaxTimes = 2
SYMMETRY Symmetry
INVARIANT SameAnswers
PROPERTY RefusedChangesNothing
CHECK_DEADLOCK FALSE
