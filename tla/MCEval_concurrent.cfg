SPECIFICATION FairSpec
CONSTANTS
    Task <- PairTask
    Evaluator <- TwoEvaluators
    Head <- PairHead
    Deps <- PairDeps
    Roots <- PairRoots
    MaxConsecutiveLost = 2
    MaxLosses = 1
INVARIANTS OneRunPerTask DispatchedAfterDeps
PROPERTIES EvalReturns FollowsContract
