SPECIFICATION FairSpec
CONSTANTS
  Faults = {}
PROPERTIES
  OwnBannerIsEndedAmongOthers
