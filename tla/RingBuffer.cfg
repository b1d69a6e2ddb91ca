SPECIFICATION RingSpec
CONSTANTS
  r1 = r1
  r2 = r2
  r3 = r3
  r4 = r4
  Values = {r1, r2, r3, r4}
  Size = 3
  Nil = Nil
INVARIANTS RingTypeOK Consistent
PROPERTY RefinesDeque
