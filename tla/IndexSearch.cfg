SPECIFICATION Spec
CONSTANTS
  p1 = p1
  p2 = p2
  p3 = p3
  Paths = {p1, p2, p3}
  NoRow = NoRow
  Texts <- MCTexts
  Queries <- MCQueries
  Alnum = {"a", "b"}
  LowerOf <- MCLowerOf
  Limits <- MCLimits
  NoNumber = NoNumber
  DefaultLimit = 2
  Window = 2
  Base = 2
  FracDigits = 2
  MaxSec = 1
SYMMETRY Symmetry
INVARIANTS
  MissedMatchIsExplained
  ScoreIsShare
