SPECIFICATION FairSpec
CONSTANTS
  Inits = {i1}
  Clients = {c1}
  Colors = {black}
  Layouts <- OneLayout
  Nobody = Nobody
PROPERTIES
  LockIsReleased
