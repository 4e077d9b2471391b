SPECIFICATION Spec
CONSTANTS
  s1 = s1
  s2 = s2
  Session = {s1, s2}
  d1 = d1
  Device = {d1}
  NoObject = NoObject
  Firmware = {"1.38"}
  Image = {"2.03", "2.04"}
SYMMETRY SessionSymmetry
INVARIANT NeverDowngrades
