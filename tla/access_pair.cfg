SPECIFICATION FairSpec
CONSTANTS
  b1 = b1  b2 = b2
  Boxes <- TwoBoxes
  Versions <- TwoVersions
  Budgets <- Scenarios
INVARIANTS  OneTokenPerCode HubHoldsTheOpenSocket
PROPERTIES NoClaimAfterDelete PairsWhileOffered ChangeReachesBoxes
CHECK_DEADLOCK FALSE
