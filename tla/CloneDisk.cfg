SPECIFICATION Spec
CONSTANTS
  Builders = {b1, b2}
  Clones = {c1, c2, c3, c4}
  ClonePolls = 2
  Repeats = 2
  LastSecond = 1
  Sources <- AllSources
SYMMETRY ClonesAlike
INVARIANTS
  TypeOK
  RightContent
  FailureExplained
  LeftoverExplained
PROPERTY CallsAdvance
