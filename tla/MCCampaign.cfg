CONSTANTS
  Task = {t1, t2}
  Proc = {p1, p2}
  MaxGeneration = 2
  Overlap = FALSE
SPECIFICATION PreparationSpec
SYMMETRY Symmetry
INVARIANTS TypeOK NoSilentReuse OneConsumer ResumesInPlace
PROPERTY MaterializesTask
