\* Expected to fail: the migrations of the target have put rows into it.
SPECIFICATION SumSpec
CONSTANTS
  OutputCap = 40
  LineSizes = {1, 2, 3, 7, 11, 45}
  MaxOutput = 90
  Things = {a, b}
  Names = {n1, n2}
  Handlers = {h1, h2}
  NoRow = NoRow
  MaxSecrets = 1
  MaxPushes = 2
  MaxRuns = 2
  MaxEdits = 1
  MaxTroubles = 1
  Tables = {"p", "c", "m"}
  Rows = {"p1", "c1", "m1"}
  Seeds = {"m1"}
  TableOf <- SmallTableOf
  Parent <- SmallParent
SYMMETRY Symmetry
INVARIANTS
  FreshTargetIsFilled
CHECK_DEADLOCK FALSE
