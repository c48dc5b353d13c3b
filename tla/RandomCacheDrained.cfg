\* The same: what a refill does after the ring was drained.
SPECIFICATION CacheSpec
CONSTANTS
    CacheSize = 13
    MaxRequest = 3
INVARIANT RefillRenews
