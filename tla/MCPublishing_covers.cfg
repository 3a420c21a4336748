SPECIFICATION Spec
CONSTANTS
  p1 = p1
  p2 = p2
  p3 = p3
  e1 = e1
  First = First
  Absent = Absent
  Blank = Blank
  NoFile = NoFile
  NoCall = NoCall
  Publishers = {p1, p2}
  Editors = {e1}
SYMMETRY PublisherSymmetry
INVARIANTS TypeOK CoversExist ShowsItsUpload OrphansFromCrashes
PROPERTY CatalogKept
CHECK_DEADLOCK FALSE
