SPECIFICATION Spec
CONSTANTS
  s1 = s1  s2 = s2  g1 = g1  g2 = g2  A = A  B = B  None = None
  Students = {s1}
  Groups = {g1, g2}
  Subjects = {A, B}
  Periods = {1, 2}
  Ids = {1, 2, 3, 4}
  Catalogue <- SmallCatalogue
  Amount <- SmallAmount
  Home <- SmallHome
  Files <- SmallFiles
  MaxAsked = 2
  h1 = h1  h2 = h2
  Handlers = {h1, h2}
SYMMETRY Symmetry
INVARIANTS TypeOK OwnGroup WithinAmount OfferedAccepted NoTwins
CHECK_DEADLOCK FALSE
