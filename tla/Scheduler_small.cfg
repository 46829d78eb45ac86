\* A job that must not overlap itself, fired on boot and by ticks; one that registers jobs.
SPECIFICATION FairSpec
CONSTANTS
  Jobs = {j1, j2}
  WithoutOverlap = {j1}
  OnBoot = {j1}
  Registrars = {j2}
  Stoppers = {s1, s2}
  NoOne = NoOne
INVARIANTS TypeOK OverlapPrevented StopIsFinal
PROPERTIES StopReturnsUnlessEntangled RunReturnsUnlessEntangled
CHECK_DEADLOCK FALSE
