SPECIFICATION DevicesSpec
CONSTANTS
  Users = {u1, u2}
  u1 = u1
  u2 = u2
  Order <- MCOrder
  Above <- MCAbove
  Kind <- MCKind
  Names <- MCNames
  Top = "controller"
  None = 0
  MaxDevs = 7
  Asked = {1}
  MaxPlugs = 2
  MaxScans = 3
  MaxBoth = 2
SYMMETRY MCSymmetry
INVARIANTS DevicesHeld ListsRight
CHECK_DEADLOCK FALSE
