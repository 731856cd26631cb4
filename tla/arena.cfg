SPECIFICATION DemandSpec
CONSTANTS
  Handle = {h1, h2, h3, h4}
  N = 3
  Value = {v, w}
  NoValue = NoValue
  Wrap = 5
SYMMETRY Symmetry
INVARIANTS TypeOK CountsAreOwners SoleWriter RefusedOnlyWhenCrowded
PROPERTIES ImplementsShares
