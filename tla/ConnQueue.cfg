CONSTANTS
  Workers = {w1, w2}
  Sockets = {s1, s2}
  PerAlloc = 2
  MaxAllocs = 2
  None = none
SPECIFICATION Spec
INVARIANTS ListsSound ItemsAccounted
PROPERTY ImplementsHandoff
SYMMETRY Symmetry
