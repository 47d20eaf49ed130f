CONSTANTS
  Task = {t1, t2}
  Proc = {p1, p2}
  MaxGeneration = 2
  Overlap = TRUE
SPECIFICATION PreparationSpec
SYMMETRY Symmetry
INVARIANT NoSilentReuse
