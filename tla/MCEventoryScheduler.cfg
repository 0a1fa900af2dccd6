CONSTANTS
  e1 = e1  e2 = e2  m1 = m1  t1 = t1  t2 = t2  w1 = w1
  Editors = {e1, e2}
  Manuals = {m1}
  Tickers = {t1, t2}
  Workers = {w1}
  Main = main
  Intervals = {15}
  Disabled = 0
  Unsupported = 7
  ReadError = readError
  Nil = nil
SPECIFICATION FairSpec
INVARIANTS TypeOK NoOverlap OneTicker StopIsFinal TickerMatchesConfig
PROPERTIES NoAddDuringWait ImplementsGate ShutdownCompletes ResetReturns FlagReleased
