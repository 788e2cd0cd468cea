SPECIFICATION Spec
CONSTANTS
  EventIds = {"e1", "e2"}
  Disciplines = {"d1", "d2"}
  Teachers = {"t1", "t2"}
  TypeNames = {"LECTURE", "PRACTICE", "CONSULTATION", "WORKOUT"}
  NONE = NONE
  Handlers = {h1, h2}
  MaxRequests = 2
  SemesterDates <- MCSemesterDates
  Moments <- MCMoments
  CreateBodies <- MCCreateBodies
  UpdateBodies <- MCUpdateBodies
  Staff <- MCStaff
  FirstEvents <- MCFirstEvents
  FirstTypes <- MCFirstTypes
  FirstTeachers <- MCFirstTeachers
  FirstRoles <- MCFirstRoles
INVARIANTS
  TypeOK
  OccurrencesKept
  PagesAgree
  NoTwins
PROPERTIES
  TeachersKept
SYMMETRY Symmetry
CHECK_DEADLOCK FALSE
