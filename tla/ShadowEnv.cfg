CONSTANTS
  NIL = NIL
  Keys = {0, 1, 2, 3, 4, 5, 6, 7, 8, 9, 10, 11}
  Lens = {1}
  Rooted = {5}
SPECIFICATION Spec
INVARIANTS
  OverlayIsTree
  AddressesResolve
