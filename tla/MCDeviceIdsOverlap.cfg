CONSTANTS
  pA = pA  pB = pB  pC = pC
  s1 = s1  s2 = s2  b1 = b1  b2 = b2  t1 = t1  t2 = t2
  Requests = {s1, s2}
  Ask <- OverlapAsk
  Starts <- OverlapStarts
  Products = {pA, pB}
  Stem <- OverlapStem
  Fallback <- OverlapFallback
  RenameTo = {}
  Chars = {0, 1, 2, 3, 4, 5, 6, 7, 8, 9, 10, 11, 12, 13}
  MaxCounter = 20
  Width = 1
  Attempts = 2
  Decimal <- Padded
  Value <- Number
SPECIFICATION Spec
INVARIANT CreationsNeverCollide
