SPECIFICATION Spec
CONSTANTS
  m1 = m1
  m2 = m2
  None = None
  Machine <- MCMachine
  Key <- MCKey
  Jobs <- MCJobs
SYMMETRY Sym
INVARIANTS TypeOK WiredRight OutExact CacheExact FailsOnlyAfterCache CountsConverge
