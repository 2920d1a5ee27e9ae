SPECIFICATION Spec
CONSTANTS
  Builders = {b1, b2}
  Clones = {c1, c2}
  ClonePolls = 2
  Repeats = 1
  LastSecond = 1
  Sources <- AllSources
INVARIANT ClonesOwnSource
