SPECIFICATION EnumSpec
CONSTANTS
  None = None
  d1 = d1
  d2 = d2
  d3 = d3
  x = x
  y = y
  z = z
  bad = bad
  all = all
  some = some
  Ids = {i1, i2}
  Dirs = {d1, d2, d3}
  Listing <- MCListing
  Exprs = {all, some}
  Matching <- MCMatching
  Collate <- MCCollate
  Rooms = {1, 2}
  Refused = {bad}
SYMMETRY Symmetry
INVARIANTS InOrderOnce NoMoreMeansAll
