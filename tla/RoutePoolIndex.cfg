SPECIFICATION PoolSpec
CONSTANT Sizes <- Pools
INVARIANT PoolIndexed
CHECK_DEADLOCK FALSE
