CONSTANTS
  Keys <- const_Keys
  KeyBit <- const_KeyBit
  Pads = {p1, p2}
  PadBits = {"down"}
  Fingers = {f1, f2}
  Points <- const_Points
  Layouts <- const_Layouts
  MaxQueue = 2
SPECIFICATION Spec
INVARIANTS NoGhostButtons PadServed OnlyOpposedRefused
SYMMETRY Symmetry
