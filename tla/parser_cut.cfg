SPECIFICATION FairSpec
CONSTANTS
  Values = {1}
  Alphabet <- CutEvents
  MaxData = 2
  MaxQueue = 1
PROPERTY
  ParseEnds
