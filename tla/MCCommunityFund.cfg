SPECIFICATION Spec
CONSTANTS
  p1 = p1
  p2 = p2
  r1 = r1
  r2 = r2
  r3 = r3
  ProposalSeq <- MCProposals
  RequestSeq <- MCRequests
  ParentOf <- MCParent
  Amount <- MCAmount
  Deadline <- MCDeadline
  VoteValue = {"yes", "no"}
  Settings <- MCSettings
  MaxVotingCycles = 1
  QuorumFirstHalf = 30
  QuorumSecondHalf = 20
  MinAccept = 70
  MinReject = 70
  MinAge = 0
  CheckLevel = {0, 4}
  CheckBlocks = {2}
  MaxEvents = 1
INVARIANTS DecidedInTime BooksBalance NoOverdraft
PROPERTIES CountsAreRight ReorgLeavesNoTrace DecisionsAreFinal
CHECK_DEADLOCK FALSE
