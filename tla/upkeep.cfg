SPECIFICATION FairSpec
CONSTANTS
  am1 = am1  am2 = am2  job1 = job1  job2 = job2
  wanted = wanted  stale = stale  empty = empty  plain = plain  spaced = spaced
  Jobs = {job1, job2}  Broken = {job2}  Edited = {job1}  Comments <- MCComments  Trim <- MCTrim
  JobsAtFirst <- MCJobsAtFirst
  AMs = {am1, am2}  Flaky = {am1}  Keys = {wanted, stale}  Desired = {wanted}
  Ids = {1, 2, 3}  TTL = 3  Refresh = 2  Grace = 2
  AtFirst <- MCAtFirst  Setups <- MCSetups
INVARIANTS
  TypeOK
  HandDisableStands
  CommentKept
  CoverageLasts
PROPERTIES
  NoGap
  AlertsReturn
  OthersCovered
  JobsFollow
