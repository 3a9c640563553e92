CONSTANTS
  Callers = {c1, c2}
  Crews <- Giving
  NumFrames = 3
  NumNodes = 4
  MaxWant = 2
SPECIFICATION Spec
INVARIANTS OneHolder
