SPECIFICATION Spec
CONSTANTS
  Inits = {i1}
  Clients = {c1, c2}
  Colors = {black, red}
  Layouts <- TwoLayouts
  Nobody = Nobody
SYMMETRY ClientSymmetry
INVARIANTS
  LockProtects
  ExitCodesAreTrue
PROPERTIES
  FrameIsUninterrupted
  SessionOutlivesSender
