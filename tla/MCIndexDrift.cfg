SPECIFICATION Spec
CONSTANTS
  d = d
  x = x
  y = y
  Paths = {d, x, y}
  Below <- MCBelow
  Sizes = {0, 1}
  Modulus = 4
  Snapshots <- DistinctSnapshots
INVARIANT CountersExact
