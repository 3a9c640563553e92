CONSTANTS
  N = 3
  Horizon = 2
SPECIFICATION FairSpec
INVARIANTS TypeOK NoLostWakeup SlotInv TeardownSafe
PROPERTIES Lockstep SlotComes Shutdown ImplementsSlotClock
