SPECIFICATION Spec
CONSTANTS
    t1 = t1
    t2 = t2
    t3 = t3
    t4 = t4
    Ticks = {t1, t2, t3, t4}
    MinuteOf <- MCMinuteOf
    LastMinute = 3
    QueueSize = 1
    Deliveries = 2
    Restarts = 1
    Width = 2
    HubSize = 2
    Connects = 1
INVARIANTS VolumeIsTraded NoSilentLoss StreamIsExact
CONSTRAINT OneAgain
SYMMETRY MCSymmetry
CHECK_DEADLOCK FALSE
