CONSTANT AChain = 1
SPECIFICATION ASpec
INVARIANT UpdatesMeanTheirChain
CHECK_DEADLOCK FALSE
