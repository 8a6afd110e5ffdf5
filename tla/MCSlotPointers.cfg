SPECIFICATION Spec
CONSTANTS
  t1 = t1
  t2 = t2
  c1 = c1
  a = a
  b = b
  Threads <- MCThreads
  Ioctxs = {c1}
  IoctxOf <- MCIoctxOf
  Addrs = {p1, p2, p3, p4}
  NoAddr = NoAddr
  Ids = {i1, i2}
  NoId = NoId
  Values = {a, b}
  Empty = Empty
  Programs <- MCPrograms
  MaxOps <- MCMaxOps
SYMMETRY Symmetry
INVARIANTS
  PointersSurvive
