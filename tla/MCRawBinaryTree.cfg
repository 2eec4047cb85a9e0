CONSTANTS
  Items = {a, b, c, d, e, f}
  Keys = {1, 2, 3, 4}
  Sizes <- Drawings
  Roots <- Sheets
  MaxImages = 3
  MaxQuota = 5
SPECIFICATION Behaviour
SYMMETRY Symmetry
INVARIANTS RemovalFinds LookupsAreExact NearlyBalanced ImagesApart
PROPERTY DoublesOnlyWhenShort
