CONSTANTS
  Callers = {c1}
  Crews <- Allocating
  NumFrames = 1
  NumNodes = 1
  MaxWant = 1
SPECIFICATION Spec
INVARIANTS NoStrayUse
