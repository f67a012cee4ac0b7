CONSTANTS
  c1 = c1
  c2 = c2
  c3 = c3
  c4 = c4
  p1 = p1
  p2 = p2
  NoClient = NoClient
  Clients <- MCClients
  Pairs <- MCPairs
  PairOf <- MCPairOf
  LabelsOf <- MCLabelsOf
  ReviewersOf <- MCReviewersOf
  StoreRejectsDuplicate = TRUE
  MaxAttempts = 4
SPECIFICATION Spec
INVARIANT
  ActivityOrdersWithinSeq
