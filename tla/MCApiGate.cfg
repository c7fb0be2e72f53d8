SPECIFICATION MCSpec
CONSTANTS
  Requests = {r1, r2}
  Keys = {k1, k2}
  Projects = {p1, p2}
  Default = p1
  NoKey = NoKey
  NoProject = NoProject
  Rate = 1
  Ratio = 3
  Grain = 1
  MaxDelay = 1
SYMMETRY Symmetry
INVARIANTS TypeOK KeyCeilingsProtectProject
PROPERTIES RevokedDrains
