SPECIFICATION Spec
CONSTANTS
    Configs <- ThreeConfigs
    Initial <- FirstOnly
    Consumer = {k1}
    Healthy = {"b", "c"}
    MaxUpdate = 2
    MaxBroken = 1
    MaxLag = 1
INVARIANT PoolMatchesConfig
PROPERTIES NeverExhausted WaiterIsServed
CHECK_DEADLOCK FALSE
