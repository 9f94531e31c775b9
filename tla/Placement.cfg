SPECIFICATION FairSpec
CONSTANTS
  attention = attention  shared = shared  big = big  small = small
  l1 = l1  l2 = l2
  Pool = 12
  Reserve = 2
  Loads = {0, 2, 4, 10}
  MaxLoads = 2
  Ratio <- Quarter
  Share <- Third
  Samples = 2
  Depth = 2
  Units <- AllUnits
  Class <- Classes
  Bytes <- Sizes
  Named <- Names
  Layers = {l1, l2}
  Experts <- Routes
  AgingInterval = 2
  ReplanInterval = 3
  One = 2
  MaxFirings = 3
INVARIANTS PlanIsBest
PROPERTIES ResizeFits BudgetFollows
