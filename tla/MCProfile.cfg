SPECIFICATION Spec
CONSTANTS
  Session = {"main", "child"}
  Main = "main"
  Call = {"make", "serve", "ask"}
  Tasked = {"ask"}
  Of <- MCOf
  Tool <- MCTool
  Child <- MCChild
  Shapes <- MCShapes
  MinDuration = 2
  MaxTime = 3
  MaxSteps = 2
  MaxQueries = 2
  MaxUpsets = 2
  MaxEvents = 16
INVARIANTS
  
  AnchoredIsTrue
  WallIsBlockedTime
  IdleAddsUp
  WindowCoversWork
  
  
CONSTRAINT Few
CHECK_DEADLOCK FALSE
