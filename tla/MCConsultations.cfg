CONSTANTS
  range = range  open = open  cmin = cmin  cmax = cmax  clen = clen
  o1 = o1  o2 = o2  min1 = min1  min2 = min2  max1 = max1  max2 = max2  len1 = len1  len2 = len2
  ItemSeq <- MCItems
  About <- MCAbout
  ParentOf <- MCParentOf
  Value <- MCValue
  Inline <- MCInline
  RangeVotes = {"one", "two"}
  MinSupport = 2
  AnswerMinSupport = 2
  ConsensusMinAccept = 75
  Settings <- MCSettings
SPECIFICATION Spec
CHECK_DEADLOCK FALSE
INVARIANTS MinWithinMax ConsultationsEnd ChangesAreDecided
PROPERTIES ReorgLeavesNoTrace
