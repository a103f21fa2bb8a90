CONSTANTS
    FirstGeneration = 0
    MaxGeneration = 2
    Slots <- MCSlots
    SubscriptionIds = {s1, s2}
    None = None
SPECIFICATION Spec
INVARIANTS
    TypeOK
    ReadyIsCaughtUp
    OnlyTheLiveConnectionIsHeard
    WatermarkIsNewestNotification
