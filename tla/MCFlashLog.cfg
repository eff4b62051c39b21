CONSTANTS
  PageSize = 3
  RecSize  = 2
  AreaSize = 8
  Pages    = 3
  Recs     = {r1, r2}
  Erased   = Erased
  Foreign  = Foreign
  MaxAccepted = 4
SPECIFICATION MCSpec
CONSTRAINT Bounded
INVARIANTS TypeOK NoHoles ReadBack
PROPERTIES ImplementsLog AppendStaysInArea
