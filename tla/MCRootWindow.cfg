SPECIFICATION Spec
CONSTANTS
  Senders = {t1}
  FloatSizes = {1}
  BigSize = 3
  Scales = {s1, s2}
  MaxActs = 3
SYMMETRY ScaleSymmetry
INVARIANTS NeverSleepsOnWork WindowSettles
PROPERTY FullscreenRestores
