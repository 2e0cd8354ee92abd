SPECIFICATION FairSpec
CONSTANTS
    instance = instance
    topic = topic
    w1 = w1
    Kinds = {instance, topic}
    Subscribers = {w1}
    KindOf <- InstanceWatch
    Faults = {"invalid", "lost", "repeated", "early"}
    MaxChanges = 3
    MaxEpochs = 2
    Capacity = 1
    WireRoom = 1
    Breaks = {"disconnect", "timeout", "close", "shutdown"}
INVARIANTS TypeOK StoreIsReplay LinksSkipNothing ReaderMissesNothing NoFalseAlarm SubscriptionsAreServed
PROPERTIES ReadsTheLog ChangesReachReader
CHECK_DEADLOCK FALSE
