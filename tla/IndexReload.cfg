CONSTANTS
  Workers = {w1, w2}
  Main = main
  Sig = sig
  Reloaders = {main}
  Addrs = {a1, a2}
  Contents = {c1, c2}
  Bad = bad
  Free = free
  Null = null
  MaxLetters = 2
  EarlySignals = FALSE
SPECIFICATION FairSpec
INVARIANTS TypeOK NeverCrashes LiveIndexMapped OldIndexReleased
  ReportedIndexIsLive NoLeak
PROPERTIES ServedIndexIsStable ImplementsAtomicIndex QueriesReturn ReloadsEndWhenQueriesStop
