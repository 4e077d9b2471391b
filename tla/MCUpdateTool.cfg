SPECIFICATION ToolSpec
CONSTANTS
  s1 = s1
  s2 = s2
  Session = {s1, s2}
  d1 = d1
  d2 = d2
  Device = {d1, d2}
  NoObject = NoObject
  Firmware = {"1.38", "3.00"}
  Image = {"missing", "short", "2.03", "2.04", "9.99"}
SYMMETRY SessionSymmetry
INVARIANTS
  ToolTypeOK
  OnlyLostRepeats
  SummaryIsHonest
PROPERTY ImplementsUpdate
