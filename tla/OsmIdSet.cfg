SPECIFICATION Spec
CONSTANTS
  Ids = {0, 1, 2, 3}
  BlockS = 2
  SortS = 3
  OutS = 4
  BloomOf <- MCBloomOf
  Top = 9
  MaxAdds = 6
  NoAnswer = NoAnswer
INVARIANTS NothingLost BlockIndexExact CachedBlockCurrent NoFalseNegative
PROPERTY ImplementsIdSet
