CONSTANTS
  Workers = {w1, w2}
  Main = main
  Sig = sig
  Reloaders = {sig, main}
  Addrs = {a1, a2, a3}
  Contents = {c1, c2}
  Bad = bad
  Free = free
  Null = null
  MaxLetters = 2
  EarlySignals = FALSE
SPECIFICATION Spec
INVARIANT OldIndexReleased
SYMMETRY Symmetry
