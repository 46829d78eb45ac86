SPECIFICATION FactoriesSpec
INVARIANT FactoriesMayResolve
CHECK_DEADLOCK FALSE
