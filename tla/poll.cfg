CONSTANTS
  Writers = {w1, w2}
  Task = {1}
  MaxObservations = 3
  MaxFindings = 2
SPECIFICATION ReviewFairSpec
INVARIANTS NoneOmitted NoneRepeated ClosedAsDecided
PROPERTIES VerdictsAreFinal ReviewsComeAcross
