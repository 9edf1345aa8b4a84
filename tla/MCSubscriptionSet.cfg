SPECIFICATION Spec
CONSTANTS
  trade = trade
  order = order
  a = a
  b = b
  NoId = NoId
  Types <- MCTypes
  Codes <- MCCodes
  ValidCodes <- MCValidCodes
  MaxTopics = 2
  MaxArgs = 2
INVARIANTS TypeOK NoEmptyEntry BodyWellFormed
PROPERTIES ImplementsTopicSet
