SPECIFICATION Spec
CONSTANTS
  Procs = {p1, p2}
  Vals = {a, b}
  Keys = {k1, k2, k3}
INVARIANTS
  FileMatchesKey
PROPERTY
  Implements
SYMMETRY Sym
