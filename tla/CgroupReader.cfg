SPECIFICATION Spec
CONSTANTS
    Dirs = {"top", "a", "mid", "b"}
    Chain <- TwoHomes
    Homes = {"a", "b"}
    LimitKeys <- MemoryAndCpu
    Unlimited = Unlimited
    NoValue = NoValue
    MaxLevels = 2
    Troubles <- MCTroubles
INVARIANT BoundIsOneProcess
INVARIANT CeilingIsSnapshot
INVARIANT ResultIsExact
PROPERTY Terminates
