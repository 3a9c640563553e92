CONSTANTS
  Callers = {c1, c2}
  Crews <- Faulting
  NumFrames = 3
  NumNodes = 3
  MaxWant = 2
SPECIFICATION Spec
INVARIANTS OneHolder
