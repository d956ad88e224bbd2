CONSTANTS
  b1 = b1  b2 = b2  b3 = b3  b4 = b4
  x1 = x1  x2 = x2  y1 = y1  y2 = y2  z1 = z1  z2 = z2  w1 = w1
  xo = xo  e1 = e1  fu1 = fu1  fu2 = fu2
  NONE = NONE
  BrokerSeq <- MCBrokerSeq
  Applicable <- MCApplicable
  Owns <- MCOwns
  Resources <- MCResources
  Related <- MCRelated
  Cycles <- MCCycles
  PreBusy <- MCPreBusy
  Rank <- MCRank
SPECIFICATION DriverSpec
INVARIANTS TypeOK SearchCorrect NothingLeaked
PROPERTIES SearchTerminates AbstractSpec
