CONSTANTS
  pA = pA  pB = pB  pC = pC
  s1 = s1  s2 = s2  b1 = b1  b2 = b2  t1 = t1  t2 = t2
  Requests = {s1, s2, b1, b2, t1, t2}
  Ask <- MCAsk
  Products = {pA, pB, pC}
  Stem <- MCStem
  Fallback <- MCFallback
  Starts <- MCStarts
  RenameTo <- MCRenameTo
  Chars = {0, 1, 2, 3, 4, 5, 6, 7, 8, 9, 10, 11, 12, 13}
  MaxCounter = 20
  Width = 1
  Attempts = 2
  Decimal <- Padded
  Value <- Number
SPECIFICATION FairSpec
INVARIANTS TypeOK NoCollision
PROPERTIES CommittedInOrder ReportComplete ImplementsRegister RequestsEnd
