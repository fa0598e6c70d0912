SPECIFICATION FairSpec
CONSTANTS
  Values = {1, 2}
  Alphabet <- CutEvents
  MaxData = 2
  MaxQueue = 2
INVARIANTS
  TypeOK
  EscrowFollowsResponse
  CashboxFollowsResponse
  CashboxEventsAlternate
  HeldNoteAnnounced
PROPERTY
  WholeResponseEnds
