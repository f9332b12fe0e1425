SPECIFICATION Spec
CONSTANTS
  here = here
  there = there
  Recovery = Recovery
  None = None
  Absent = Absent
  Foreign = Foreign
  Path = {here, there}
  Home = here
  Slot = {1, 2}
  MaxRevision = 1
  MaxAccidents = 1
INVARIANTS TypeOK CleanMeansSaved PendingHasSave SidecarFits
PROPERTIES NothingIsLost
