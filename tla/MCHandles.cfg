SPECIFICATION HandleSpec
CONSTANTS
  c1 = c1
  c2 = c2
  c3 = c3
  w1 = w1
  w2 = w2
  Null = Null
  Context = {c1, c2, c3}
  Thread = {w1}
  FirstSize = 2
  MaxHandle = 5
  MaxName = 2
SYMMETRY Symmetry
INVARIANTS Reachable AllGone
