CONSTANTS
  a = a
  b = b
  c = c
  Text <- ThreeTexts
  Hash <- Colliding
  Capacities <- TwoSlots
  Class = {k1, k2}
  Free = free
  Null = null
SPECIFICATION Spec
INVARIANTS TypeOK KeysReachable SizesRight NeverAborts
PROPERTY ImplementsNaming
