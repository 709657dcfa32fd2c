\* Four calls for one key, two of them after the limit was lowered, and a sweep.
SPECIFICATION Spec
CONSTANTS
  a1 = a1  a2 = a2  a3 = a3  a4 = a4  s1 = s1  k1 = k1
  Calls = {a1, a2, a3, a4}
  Keys = {k1}
  KeyOf <- OneKey
  LimitOf <- Lowered
  Window = 2
  Sweeps = {s1}
  MaxTime = 4
INVARIANTS
  TypeOK
  WithinLimit
  
SYMMETRY Symmetry
