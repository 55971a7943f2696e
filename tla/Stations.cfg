SPECIFICATION Spec
CONSTANTS
  Mac = {m1, m2, m3}
  Ratio = 2
  Safe = 3
SYMMETRY Symmetry
INVARIANTS
  AskedOnce
  RefusedWhenFewAsked
