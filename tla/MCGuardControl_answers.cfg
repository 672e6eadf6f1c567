SPECIFICATION FairSpec
CONSTANTS
  m1 = m1
  m2 = m2
  r1 = r1
  NoCommand = NoCommand
  Commands = {m1}
  Mutating = {m1}
  MaxCrashes = 2
  MaxFaults = 2
  MaxKnown = 1
PROPERTY DispatchedIsAnswered
