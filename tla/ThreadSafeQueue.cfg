\* Three threads allocate at once; five elements hold four values.
CONSTANTS
  Threads = {t1, t2, t3}
  Values = {v1, v2}
  NoValue = NoValue
  Elts = {e1, e2, e3, e4, e5}
  NoElt = NoElt
SPECIFICATION Spec
SYMMETRY Symmetry
INVARIANTS
  EltsConsistent
PROPERTIES
  ImplementsQueueSpec
