SPECIFICATION FairSpec
CONSTANTS
  SeqMod = 2
  MaxTries = 2
  Colors = {black}
  Black = black
  Layouts <- OneLayout
PROPERTIES
  EveryCallReturns
