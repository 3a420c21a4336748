SPECIFICATION Spec
CONSTANTS
  o = o
  x = x
  y = y
  b1 = b1
  b2 = b2
  d1 = d1
  d2 = d2
  d3 = d3
  d4 = d4
  NoDate = NoDate
  NoDeal = NoDeal
  Users = {o, x, y}
  Books = {b1}
  Deals = {d1, d2, d3}
  Owner <- OwnedByO
  SetOf <- NoSets
  Restricted = {}
  Levels = {0}
  MaxBooks <- OneBookLimit
  LoanDays = {1}
  MaxDay = 2
SYMMETRY DealSymmetry
INVARIANTS TypeOK ReservationExact KeeperAccounted FinishedDealsAreRated LoanLimit
PROPERTIES LoanEndsInReturn ImplementsCustody
