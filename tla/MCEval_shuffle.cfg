SPECIFICATION Spec
CONSTANTS
    Task <- ShuffleTask
    Evaluator <- OneEvaluator
    Head <- ShuffleHead
    Deps <- ShuffleDeps
    Roots <- ShuffleRoots
    MaxConsecutiveLost = 2
    MaxLosses = 1
INVARIANTS TypeOK ReturnNeverPanics NilMeansEvaluated WaitlistDrains
