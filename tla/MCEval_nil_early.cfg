SPECIFICATION Spec
CONSTANTS
    Task <- ChainTask
    Evaluator <- TwoEvaluators
    Head <- ChainHead
    Deps <- ChainDeps
    Roots <- ChainRoots
    MaxConsecutiveLost = 2
    MaxLosses = 0
INVARIANTS NilMeansEvaluatedUnlessFailed
