SPECIFICATION Spec
CONSTANTS
    Calls = {1, 2}
    Configs <- MCConfigs
    Offers <- MCOffers
    Children <- MCChildren
    MaxSetups = 3
    MaxTrees = 1
    MaxHandles = 1
    MaxFrags = 2
    MaxRoom = 2
INVARIANTS RepliesAreWhole ReadsAnswerLatest ListingExact ProofForLatestChallenge IdentityGates
CHECK_DEADLOCK FALSE
