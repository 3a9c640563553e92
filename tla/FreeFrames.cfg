CONSTANTS
  Callers = {c1, c2, c3}
  Crews <- Serialised
  NumFrames = 3
  NumNodes = 3
  MaxWant = 2
SPECIFICATION FairSpec
INVARIANTS TypeOK OneHolder NoStrayUse
PROPERTIES Returns ImplementsFramePool
