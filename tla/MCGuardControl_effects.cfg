SPECIFICATION Spec
CONSTANTS
  m1 = m1
  m2 = m2
  r1 = r1
  NoCommand = NoCommand
  Commands = {m1, m2, r1}
  Mutating = {m1, m2}
  MaxCrashes = 2
  MaxFaults = 2
  MaxKnown = 1
INVARIANTS TypeOK OpenOutcomeIsHeld CompletedMeansRan
PROPERTY ImplementsOutcome
CONSTRAINT OneQuestion
SYMMETRY Symmetric
