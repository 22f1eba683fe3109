\* Up to two queries a file, seven kinds of them; 5 percent is the default delta.
CONSTANTS
  None = None
  A = A
  B = B
  NotFound = NotFound
  Plans <- MCPlans
  Pieces <- MCPieces
  Tags <- MCTags
  Charts <- MCCharts
  Infinity = 99999999
  DeltaPct = 5
  ScoreFiles <- MCScoreFiles
  RegressionFiles <- MCRegressionFiles
  TaqoFiles <- MCTaqoFiles
  SelectivityFiles <- MCSelectivityFiles
  CostFiles <- MCCostFiles
SPECIFICATION Spec
INVARIANTS
  PairsMatch
  PublishedOrObstacle
  RatiosDefined
  PlacesAgree
  ListsTell
  ScansCharted
  FlagsTell
