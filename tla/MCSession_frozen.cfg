SPECIFICATION Spec
CONSTANTS
  m1 = m1
  m2 = m2
  None = None
  Machine <- MCMachine
  Key <- MCKey
  Jobs <- MCJobs
INVARIANT CompilationsAgree
