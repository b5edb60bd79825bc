CONSTANTS
  w1 = w1
  w2 = w2
  j1 = j1
  j2 = j2
  j3 = j3
  Main = Main
  Nobody = Nobody
  NoJob = NoJob
  Workers <- MCWorkers
  Jobs <- MCTwoJobs
  WaitTimes <- MCWaitTimes
  Unnormalised <- MCNormalised
  MaxTime = 5
  CreateMayFail = FALSE
SPECIFICATION Spec
INVARIANT
  ThreadsEndBeforeDestroyReturns
