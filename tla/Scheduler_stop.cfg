\* One job: does Stop wait for it?
SPECIFICATION FairSpec
CONSTANTS
  Jobs = {j1}
  WithoutOverlap = {j1}
  OnBoot = {j1}
  Registrars = {}
  Stoppers = {s1}
  NoOne = NoOne
INVARIANT StopWaits
CHECK_DEADLOCK FALSE
